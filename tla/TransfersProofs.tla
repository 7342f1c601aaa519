--------------------------- MODULE TransfersProofs ---------------------------
(***************************************************************************)
(* Proofs about the Drive client and what the engine does with it: the     *)
(* types, the bound on the sendings of a request, the refresh token in the *)
(* keyring, the rows written after uploads and the files tasks make over a *)
(* whole run, for every number of edits, retries, tokens, faults and       *)
(* chunks.                                                                 *)
(***************************************************************************)
EXTENDS Transfers, TLAPS

-----------------------------------------------------------------------------
\* The inductive invariant.

\* How often the request has been sent, by where it is: a sending is one of the
\* attempts, or the one that was answered 401 before the only refresh.
SendsCounted ==
    req # None =>
      /\ req.at = "send" =>
           sends <= req.attempt + (IF req.token_refreshed THEN 1 ELSE 0)
      /\ req.at = "refresh" => ~req.token_refreshed /\ sends <= req.attempt + 1
      /\ req.at \in {"ok", "err"} =>
           sends <= req.attempt + 1 + (IF req.token_refreshed THEN 1 ELSE 0)

\* A login that has tokens to save, a rotation that has a token to save.
LoginHolds == flow # None /\ flow.at \in {"tokens", "row"}
RefreshHolds == refresh # None /\ refresh.at = "answered"

\* Nothing is known that Google has not issued.
TokensIssued ==
    /\ grants \subseteq 1..issued
    /\ keyring # None => keyring <= issued
    /\ LoginHolds => flow.new <= issued
    /\ refresh # None => refresh.rt <= issued
    /\ RefreshHolds => refresh.new_rt <= issued

\* The tokens of a login are its own until they are in the keyring: no refresh
\* has been asked with them.
LoginApart ==
    LoginHolds => /\ keyring # flow.new
                  /\ refresh # None => refresh.rt # flow.new
                  /\ RefreshHolds => refresh.new_rt # flow.new

\* A job that does not wait for a refresh has none: a request answered 401 asks
\* for the only one.
RefreshAlone == job # None /\ (req # None => req.at # "refresh") => refresh = None

\* What is about to be written to the keyring Google accepts.
HeldGranted ==
    ~spoilt => /\ LoginHolds => flow.new \in grants
               /\ RefreshHolds => refresh.new_rt \in grants

\* What the keyring is for, with what it rests on.
KeyringInv == TokensIssued /\ LoginApart /\ HeldGranted /\ KeyringUsable

\* A job is at a step with a request for that step, or at one without.
JobsRequest ==
    /\ req # None => job # None
    /\ job # None =>
         \/ req = None /\ job.at \in {"begin", "place", "record"}
         \/ /\ req \in Request
            /\ <<job.at, req.for>> \in
                 {<<"check", "read">>, <<"upload", "multipart">>, <<"upload", "start">>,
                  <<"chunks", "chunk">>, <<"query", "query">>, <<"fetch", "fetch">>,
                  <<"trash", "trash">>, <<"bytes", "bytes">>, <<"create", "create">>}

\* The request was answered with success, and was for this purpose.
Answered(purpose) == req # None /\ req.at = "ok" /\ req.for = purpose

\* What is uploaded has been read; chunks go to a session, and a session that
\* has just been started has nothing.
JobReady ==
    /\ job # None /\ job.at \in {"upload", "chunks", "query", "bytes", "create"}
         => job.content \in Content
    /\ job # None /\ job.at \in {"chunks", "query"} => session \in Session
    /\ job # None /\ job.at = "upload" /\ Answered("start")
         => session \in Session /\ ~session.complete

\* An upload that is about to be taken for a success has made its file.
SuccessIsReal ==
    /\ job # None /\ job.at = "upload" /\ Answered("multipart") => job.content \in uploaded
    /\ job # None /\ job.at \in {"chunks", "query"} /\ session.complete
         => job.content \in uploaded

\* The request that makes the job's file was answered, and the job has not yet
\* taken note of it.
JobMade ==
    Answered("multipart") \/ Answered("create") \/ (Answered("chunk") /\ session.complete)

\* The task of the job is one of the queue's.
TasksRun == job # None => todo[job.kind] > 0

\* Of the tasks enqueued, those still in the queue have no file that is not owed
\* to a lost answer, the one that runs and has just made it excepted.
CopiesCounted ==
    \A k \in Kind :
      created[k] + todo[k]
        <= asked[k] + lost[k] + (IF job # None /\ job.kind = k /\ JobMade THEN 1 ELSE 0)

\* What is said of the job, its request and the session,
JobInv == JobsRequest /\ JobReady /\ SuccessIsReal /\ RowsAreReal

\* and of the tasks and the files made for them.
TaskInv == TasksRun /\ CopiesCounted

\* The inductive invariant.
TransferInv ==
    /\ ClientTypeOK /\ SendsCounted
    /\ KeyringInv /\ RefreshAlone
    /\ JobInv /\ TaskInv

-----------------------------------------------------------------------------
\* The tokens.

\* What the steps of jobs and users mean to the token store: the client may go,
\* and a request answered 401 starts a refresh with the keyring's token.
TokenUse ==
    /\ UNCHANGED <<account, keyring, cache, google, flow, leaving, spoilt>>
    /\ UNCHANGED refresh \/ (refresh = None /\ keyring # None /\ load_refresh_token)
    /\ client' \in {client, None}
    /\ UNCHANGED ops \/ Op
    /\ UNCHANGED faults \/ Fault

\* Every step of the composition, as the token store sees it.
TokenStep ==
    \/ LoginNext \/ DisconnectNext \/ RefreshNext \/ GoogleNext
    \/ BuildFromCache \/ BuildByRefresh \/ TokensRestart \/ TokenUse

\* The bounds, one by one.
LEMMA Bounds == MaxOps \in Nat /\ MaxFaults \in Nat /\ MaxIssued \in Nat /\ None \notin Nat
BY TokenConstants

\* The steps of a login, a disconnect, a refresh and of Google keep the types of
\* the token store.
LEMMA LoginTypes == ASSUME TokenTypeOK, LoginNext PROVE TokenTypeOK'
<1> USE Bounds DEF TokenTypeOK, Token, Flow, Op, Fault, Login, google
<1>1. CASE begin_auth_flow BY <1>1 DEF begin_auth_flow
<1>2. CASE handle_callback BY <1>2 DEF handle_callback
<1>3. CASE exchange_code
  <2>1. issued' \in 0..MaxIssued /\ (UNCHANGED google \/ issued' \in Token)
    BY <1>3 DEF exchange_code
  <2>2. grants' \subseteq Token BY <1>3, <2>1 DEF exchange_code
  <2>3. live' \subseteq Token BY <1>3, <2>1 DEF exchange_code
  <2>4. flow' \in Flow \cup {None} BY <1>3, <2>1 DEF exchange_code
  <2>5. faults' \in 0..MaxFaults BY <1>3 DEF exchange_code
  <2> QED BY <1>3, <2>1, <2>2, <2>3, <2>4, <2>5 DEF exchange_code
<1>4. CASE fetch_and_store_account
  <2>1. flow' \in Flow \cup {None} BY <1>4 DEF fetch_and_store_account
  <2>2. account' \in BOOLEAN BY <1>4 DEF fetch_and_store_account
  <2> QED BY <1>4, <2>1, <2>2 DEF fetch_and_store_account
<1>5. CASE LoginSaves BY <1>5 DEF LoginSaves, save_refresh_token
<1>6. CASE LoginCaches BY <1>6 DEF LoginCaches, cache_access_token, TokenSet
<1> QED BY <1>1, <1>2, <1>3, <1>4, <1>5, <1>6 DEF LoginNext

\* Disconnecting an account keeps the types.
LEMMA DisconnectTypes == ASSUME TokenTypeOK, DisconnectNext PROVE TokenTypeOK'
<1> USE Bounds DEF TokenTypeOK, Token, Op, Fault, Leave, google
<1>1. CASE delete_refresh_token BY <1>1 DEF delete_refresh_token
<1>2. CASE clear_access_token BY <1>2 DEF clear_access_token
<1>3. CASE delete_account BY <1>3 DEF delete_account
<1> QED BY <1>1, <1>2, <1>3 DEF DisconnectNext

\* A refresh of the access token keeps the types.
LEMMA RefreshTypes == ASSUME TokenTypeOK, RefreshNext PROVE TokenTypeOK'
<1> USE Bounds DEF TokenTypeOK, Token, Refresh, Fault, NotTheStore, google, Refreshing
<1>1. CASE refresh_access_token
  <2>1. issued' \in Token /\ refresh.rt \in Token BY <1>1 DEF refresh_access_token
  <2>2. PICK rt \in {refresh.rt, issued'} :
          /\ grants' = (grants \ {refresh.rt}) \cup {rt}
          /\ refresh' = [at |-> "answered", rt |-> refresh.rt, new_rt |-> rt, new |-> issued']
    BY <1>1 DEF refresh_access_token
  <2>3. grants' \subseteq Token /\ refresh' \in Refresh BY <2>1, <2>2
  <2> QED BY <1>1, <2>1, <2>3 DEF refresh_access_token
<1>2. CASE RefreshFails
  <2>1. grants' \subseteq Token BY <1>2 DEF RefreshFails
  <2>2. faults' \in 0..MaxFaults BY <1>2 DEF RefreshFails
  <2>3. spoilt' \in BOOLEAN BY <1>2 DEF RefreshFails
  <2> QED BY <1>2, <2>1, <2>2, <2>3 DEF RefreshFails
<1>3. CASE RefreshSaves
  <2>1. refresh' \in Refresh BY <1>3 DEF RefreshSaves
  <2>2. refresh.new_rt \in Token BY <1>3 DEF RefreshSaves
  <2>3. keyring' \in Token \cup {None} /\ faults' \in 0..MaxFaults
    BY <1>3, <2>2 DEF RefreshSaves, save_refresh_token
  <2>4. spoilt' \in BOOLEAN BY <1>3 DEF RefreshSaves
  <2> QED BY <1>3, <2>1, <2>3, <2>4 DEF RefreshSaves
<1>4. CASE RefreshCaches BY <1>4 DEF RefreshCaches, cache_access_token, TokenSet
<1> QED BY <1>1, <1>2, <1>3, <1>4 DEF RefreshNext

\* What Google and the clock do keeps the types.
LEMMA GoogleTypes == ASSUME TokenTypeOK, GoogleNext PROVE TokenTypeOK'
<1> USE Bounds DEF TokenTypeOK, Token, Op, Fault, NotTheStore, google
<1>1. CASE CacheAges
  <2>1. cache' = [access_token |-> cache.access_token, fresh |-> FALSE]
    BY <1>1 DEF CacheAges, TokenSet
  <2>2. cache' \in TokenSet BY <1>1, <2>1 DEF CacheAges, TokenSet
  <2> QED BY <1>1, <2>2 DEF CacheAges
<1>2. ASSUME NEW t \in Token, AccessExpires(t) PROVE TokenTypeOK'
  BY <1>2 DEF AccessExpires
<1>3. ASSUME NEW t \in Token, GrantRevoked(t) PROVE TokenTypeOK'
  BY <1>3 DEF GrantRevoked
<1> QED BY <1>1, <1>2, <1>3 DEF GoogleNext

\* Every step that the token store sees keeps its types.
LEMMA TokenTypes == ASSUME TokenTypeOK, TokenStep PROVE TokenTypeOK'
<1> USE Bounds DEF TokenTypeOK, Token, google
<1>1. CASE BuildFromCache BY <1>1 DEF BuildFromCache, TokenSet, NotTheStore
<1>2. CASE BuildByRefresh BY <1>2 DEF BuildByRefresh, load_refresh_token, Refresh, NotTheStore
<1>3. CASE TokensRestart BY <1>3 DEF TokensRestart, Fault, Refreshing
<1>4. CASE TokenUse BY <1>4 DEF TokenUse, load_refresh_token, Refresh, Op, Fault
<1> QED BY LoginTypes, DisconnectTypes, RefreshTypes, GoogleTypes, <1>1, <1>2, <1>3, <1>4
        DEF TokenStep

\* The keyring stays usable through a login: its tokens are new, and no refresh
\* has been asked with them when they are saved.
LEMMA LoginKeyring == ASSUME TokenTypeOK, KeyringInv, LoginNext PROVE KeyringInv'
<1> USE Bounds DEF TokenTypeOK, Token, Flow, Refresh, Op, Fault, Login, google,
        LoginHolds, RefreshHolds, Refreshing, KeyringInv
<1> USE DEF TokensIssued, LoginApart, HeldGranted, KeyringUsable
<1>1. CASE begin_auth_flow BY <1>1 DEF begin_auth_flow
<1>2. CASE handle_callback BY <1>2 DEF handle_callback
<1>3. CASE exchange_code
  <2>1. CASE UNCHANGED google BY <1>3, <2>1 DEF exchange_code
  <2>2. CASE ~UNCHANGED google
    <3>1. issued' = issued + 1 /\ grants' = grants \cup {issued'}
      BY <1>3, <2>2 DEF exchange_code
    <3>2. flow'.new = issued' BY <1>3, <2>2 DEF exchange_code
    <3>3. UNCHANGED <<keyring, refresh, spoilt>> BY <1>3 DEF exchange_code
    <3>4. issued \in Nat OBVIOUS
    <3>5. TokensIssued' BY <3>1, <3>2, <3>3, <3>4
    <3>6. LoginApart' BY <3>1, <3>2, <3>3, <3>4
    <3>7. HeldGranted' BY <3>1, <3>2, <3>3
    <3>8. KeyringUsable' BY <3>1, <3>3
    <3> QED BY <3>5, <3>6, <3>7, <3>8
  <2> QED BY <2>1, <2>2
<1>4. CASE fetch_and_store_account BY <1>4 DEF fetch_and_store_account
<1>5. CASE LoginSaves BY <1>5 DEF LoginSaves, save_refresh_token
<1>6. CASE LoginCaches BY <1>6 DEF LoginCaches
<1> QED BY <1>1, <1>2, <1>3, <1>4, <1>5, <1>6 DEF LoginNext

\* ... and through a refresh: a rotation takes the old token from Google's side
\* and leaves the new one to be saved.
LEMMA RefreshKeyring == ASSUME TokenTypeOK, KeyringInv, RefreshNext PROVE KeyringInv'
<1> USE Bounds DEF TokenTypeOK, Token, Flow, Refresh, Fault, NotTheStore, google,
        LoginHolds, RefreshHolds, Refreshing, KeyringInv
<1> USE DEF TokensIssued, LoginApart, HeldGranted, KeyringUsable
<1>1. CASE refresh_access_token
  <2>1. PICK rt \in {refresh.rt, issued'} :
          /\ grants' = (grants \ {refresh.rt}) \cup {rt}
          /\ refresh' = [at |-> "answered", rt |-> refresh.rt, new_rt |-> rt, new |-> issued']
    BY <1>1 DEF refresh_access_token
  <2>2. /\ refresh # None /\ refresh.at = "asked" /\ refresh.rt \in grants /\ issued \in Nat /\ issued' = issued + 1
        /\ UNCHANGED <<keyring, spoilt, flow>>
    BY <1>1 DEF refresh_access_token
  <2>3. RefreshHolds' => refresh'.rt = refresh.rt /\ refresh'.new_rt = rt BY <2>1
  <2>4. refresh'.rt = refresh.rt BY <2>1
  <2>5. LoginHolds' = LoginHolds BY <2>2
  <2>0. refresh.rt \in Nat /\ refresh.rt <= issued BY <2>2
  <2>6. TokensIssued'
    <3>1. rt <= issued' /\ rt >= 1 /\ rt \in Nat BY <2>0, <2>2
    <3>2. ASSUME NEW g \in grants' PROVE g \in 1..issued'
      <4>1. g \in grants \/ g = rt BY <2>1, <3>2
      <4>2. g \in grants => g \in 1..issued OBVIOUS
      <4> QED BY <2>2, <3>1, <4>1, <4>2
    <3> QED BY <2>0, <2>2, <2>3, <2>4, <2>5, <3>1, <3>2
  <2>7. LoginApart' BY <2>1, <2>2, <2>3, <2>4, <2>5
  <2>8. HeldGranted' BY <2>1, <2>2, <2>3, <2>5
  <2>9. KeyringUsable'
    <3>1. CASE rt = refresh.rt
      <4>1. grants' = grants BY <2>1, <2>2, <3>1
      <4> QED BY <4>1, <2>2
    <3>2. CASE rt # refresh.rt
      <4>1. refresh' \in Refresh
        <5>1. issued' \in Token BY <1>1, <2>2 DEF refresh_access_token
        <5> QED BY <5>1, <2>0, <2>1, <2>2
      <4>2. Refreshing("answered")' /\ refresh'.new_rt # refresh'.rt
        BY <4>1, <2>1, <3>2, NoneIsNoRefresh
      <4> QED BY <4>2
    <3> QED BY <3>1, <3>2
  <2> QED BY <2>6, <2>7, <2>8, <2>9
<1>2. CASE RefreshFails
  <2>1. refresh' = None /\ UNCHANGED <<keyring, flow, issued>> BY <1>2 DEF RefreshFails
  <2>2. UNCHANGED <<grants, spoilt>> \/ (grants' = grants \ {refresh.rt} /\ spoilt' = TRUE)
    BY <1>2 DEF RefreshFails
  <2>3. refresh.at = "asked" BY <1>2 DEF RefreshFails
  <2> QED BY <2>1, <2>2, <2>3
<1>3. CASE RefreshSaves
  <2>1. /\ refresh # None /\ refresh.at = "answered" /\ UNCHANGED <<grants, issued, flow>>
        /\ refresh'.at = "saved" /\ refresh'.rt = refresh.rt
    BY <1>3 DEF RefreshSaves
  <2>2. \/ refresh.new_rt = refresh.rt /\ UNCHANGED <<keyring, spoilt>>
        \/ keyring' = refresh.new_rt /\ UNCHANGED spoilt
        \/ UNCHANGED keyring /\ spoilt' = TRUE
    BY <1>3 DEF RefreshSaves, save_refresh_token
  <2>3. ~spoilt => refresh.new_rt \in grants BY <2>1
  <2>4. refresh.new_rt \in Nat BY <2>1
  <2>5. refresh.new_rt <= issued BY <2>1
  <2>6. TokensIssued' BY <2>1, <2>2, <2>5
  <2>7. LoginApart' BY <2>1, <2>2
  <2>8. HeldGranted' BY <2>1, <2>2
  <2>9. KeyringUsable' BY <2>1, <2>2, <2>3
  <2> QED BY <2>6, <2>7, <2>8, <2>9
<1>4. CASE RefreshCaches BY <1>4 DEF RefreshCaches
<1> QED BY <1>1, <1>2, <1>3, <1>4 DEF RefreshNext

\* ... and through every other step.
LEMMA TokenKeyring == ASSUME TokenTypeOK, KeyringInv, TokenStep PROVE KeyringInv'
<1> USE Bounds DEF TokenTypeOK, Token, Flow, Refresh, Fault, NotTheStore, google,
        LoginHolds, RefreshHolds, Refreshing, KeyringInv
<1> USE DEF TokensIssued, LoginApart, HeldGranted, KeyringUsable
<1>1. CASE BuildFromCache BY <1>1 DEF BuildFromCache
<1>2. CASE BuildByRefresh BY <1>2 DEF BuildByRefresh, load_refresh_token
<1>3. CASE TokensRestart
  <2>1. flow' = None /\ refresh' = None /\ UNCHANGED <<keyring, grants, issued>>
    BY <1>3 DEF TokensRestart
  <2>2. ~spoilt' => ~spoilt /\ ~(Refreshing("answered") /\ refresh.new_rt # refresh.rt)
    BY <1>3 DEF TokensRestart
  <2> QED BY <2>1, <2>2
<1>4. CASE TokenUse
  <2>1. CASE UNCHANGED refresh BY <1>4, <2>1 DEF TokenUse
  <2>2. CASE refresh = None /\ keyring # None /\ load_refresh_token
    <3>1. refresh' = [at |-> "asked", rt |-> keyring] BY <2>2 DEF load_refresh_token
    <3>2. refresh'.at = "asked" /\ refresh'.rt = keyring BY <3>1
    <3>3. UNCHANGED <<keyring, grants, issued, flow, spoilt>> BY <1>4 DEF TokenUse
    <3>4. TokensIssued' BY <2>2, <3>2, <3>3
    <3>5. LoginApart' BY <2>2, <3>2, <3>3
    <3>6. HeldGranted' BY <2>2, <3>2, <3>3
    <3>7. KeyringUsable' BY <2>2, <3>2, <3>3
    <3> QED BY <3>4, <3>5, <3>6, <3>7
  <2> QED BY <1>4, <2>1, <2>2 DEF TokenUse
<1>5. CASE DisconnectNext
  <2>1. UNCHANGED <<grants, issued, flow, refresh, spoilt>> /\ keyring' \in {keyring, None}
    BY <1>5 DEF DisconnectNext, delete_refresh_token, clear_access_token, delete_account, Leave
  <2> QED BY <2>1
<1>6. CASE CacheAges BY <1>6 DEF CacheAges
<1>7. ASSUME NEW t \in Token, AccessExpires(t) PROVE KeyringInv'
  BY <1>7 DEF AccessExpires
<1>8. ASSUME NEW t \in Token, GrantRevoked(t) PROVE KeyringInv'
  BY <1>8 DEF GrantRevoked
<1>9. GoogleNext => KeyringInv' BY <1>6, <1>7, <1>8 DEF GoogleNext
<1> QED BY LoginKeyring, RefreshKeyring, <1>1, <1>2, <1>3, <1>4, <1>5, <1>9 DEF TokenStep

-----------------------------------------------------------------------------
\* The requests.

\* What one sending does to the request, and to the token store.
Sending == Accepted \/ Unauthorized \/ Busy \/ Refused

\* What Drive has done when it has done what it was asked.
DriveDoes ==
    \/ /\ req.for \in {"multipart", "create"} /\ Creates(job.content)
       /\ UNCHANGED <<remote, session>>
    \/ /\ req.for = "start" /\ session' = [got |-> 0, complete |-> FALSE]
       /\ UNCHANGED <<remote, uploaded, created, lost>>
    \/ /\ req.for = "chunk" /\ UNCHANGED remote
       /\ \E end \in {ChunkEnd(job.offset)} \cup (session.got..(ChunkEnd(job.offset) - 1)) :
            Persists(end)
    \/ req.for = "trash" /\ remote' = None /\ UNCHANGED <<uploaded, session, created, lost>>
    \/ req.for \in {"read", "fetch", "bytes", "query"} /\ Untouched

\* What a sending does at Drive: nothing unless it succeeds or its answer is lost.
DriveStep == (req'.at # "ok" /\ Untouched) \/ DriveDoes

\* A sending that is no success is not answered with one.
LEMMA NotAccepted ==
    ASSUME req \in Request \cup {None}, Unauthorized \/ Busy \/ Refused
    PROVE  req'.at # "ok"
<1>1. req \in Request /\ req.at = "send" BY DEF Unauthorized, Busy, Refused, InRequest
<1>2. CASE Unauthorized BY <1>1, <1>2 DEF Unauthorized, Request
<1>3. CASE Busy BY <1>1, <1>3 DEF Busy, Request
<1>4. CASE Refused BY <1>1, <1>4 DEF Refused, Request
<1> QED BY <1>2, <1>3, <1>4

\* What every execute function does to the request and to the tokens.
AttemptFrame ==
    /\ \/ Accepted /\ UNCHANGED <<refresh, faults>>
       \/ Unauthorized /\ UNCHANGED faults
       \/ (Busy \/ Refused) /\ (UNCHANGED faults \/ Fault) /\ UNCHANGED refresh
       \/ Accepted /\ Fault /\ UNCHANGED refresh
    /\ UNCHANGED <<account, keyring, cache, google, flow, leaving, client, ops, spoilt>>

\* The execute functions and the answers that have an action of their own, one
\* after the other: what they do to the request, the tokens and Drive.
LEMMA ExecuteJson ==
    ASSUME req \in Request \cup {None},
           execute_json(Known /\ IF req.for = "create"
                                 THEN Creates(job.content) /\ UNCHANGED <<remote, session>>
                                 ELSE Untouched,
                        Untouched)
    PROVE  AttemptFrame /\ DriveStep
<1>1. AttemptFrame BY DEF execute_json, Attempt, AttemptFrame
<1>2. DriveStep BY NotAccepted DEF execute_json, Attempt, DriveStep, DriveDoes
<1> QED BY <1>1, <1>2

\* The attempt of a request without an answer body.
LEMMA ExecuteNoContent ==
    ASSUME req \in Request \cup {None},
           execute_no_content(Known /\ remote' = None
                                 /\ UNCHANGED <<uploaded, session, created, lost>>,
                              Untouched)
    PROVE  AttemptFrame /\ DriveStep
<1>1. AttemptFrame BY DEF execute_no_content, Attempt, AttemptFrame
<1>2. DriveStep BY NotAccepted DEF execute_no_content, Attempt, DriveStep, DriveDoes
<1> QED BY <1>1, <1>2

\* The attempt of a request whose answer the caller reads.
LEMMA ExecuteRaw ==
    ASSUME req \in Request \cup {None},
           execute_raw(/\ Known
                       /\ CASE req.for = "multipart" ->
                                 Creates(job.content) /\ UNCHANGED <<remote, session>>
                            [] req.for = "start" ->
                                 session' = [got |-> 0, complete |-> FALSE]
                                 /\ UNCHANGED <<remote, uploaded, created, lost>>
                            [] OTHER -> Untouched,
                       Untouched)
    PROVE  AttemptFrame /\ DriveStep
<1>1. AttemptFrame BY DEF execute_raw, Attempt, AttemptFrame
<1>2. DriveStep BY NotAccepted DEF execute_raw, Attempt, DriveStep, DriveDoes
<1> QED BY <1>1, <1>2

\* The attempt of a chunk or of a status query, where 308 is an answer.
LEMMA ExecuteRawNoRedirect ==
    ASSUME req \in Request \cup {None},
           execute_raw_no_redirect(IF req.for = "chunk"
                                   THEN Persists(ChunkEnd(job.offset)) /\ UNCHANGED remote
                                   ELSE Untouched,
                                   Untouched)
    PROVE  AttemptFrame /\ DriveStep
<1>1. AttemptFrame BY DEF execute_raw_no_redirect, Attempt, AttemptFrame
<1>2. DriveStep BY NotAccepted DEF execute_raw_no_redirect, Attempt, DriveStep, DriveDoes
<1> QED BY <1>1, <1>2

\* The answers of one purpose only: 404, and 308 with part of a chunk.
LEMMA OwnAnswers ==
    ASSUME req \in Request \cup {None}, NotFound \/ PartlyAccepted
    PROVE  AttemptFrame /\ DriveStep
<1>1. CASE NotFound
  BY <1>1, NotAccepted DEF NotFound, AttemptFrame, DriveStep
<1>2. CASE PartlyAccepted
  BY <1>2 DEF PartlyAccepted, AttemptFrame, DriveStep, DriveDoes
<1> QED BY <1>1, <1>2

\* Every attempt of a request changes the request and Drive, and nothing of the job.
LEMMA RequestSteps ==
    ASSUME req \in Request \cup {None}, Requests
    PROVE  /\ AttemptFrame /\ DriveStep
           /\ UNCHANGED <<job, todo, asked, fileVars>>
<1>1. AttemptFrame /\ DriveStep
  BY ExecuteJson, ExecuteNoContent, ExecuteRaw, ExecuteRawNoRedirect, OwnAnswers DEF Requests
<1> QED BY <1>1 DEF Requests

-----------------------------------------------------------------------------
\* Steps of a job, as the request and the token store see them.

\* A step of a job asks for the next thing, ends the request or leaves it.
Asks ==
    \/ UNCHANGED <<req, sends>>
    \/ req' = None /\ UNCHANGED sends
    \/ \E p \in Purpose : Ask(p)

\* What every step of a job leaves of the rest.
JobFrame == Others /\ client' \in {client, None} /\ Asks

\* The parts that actions share: the end of a job, its next request, an upload
\* that begins, goes on or fails.
LEMMA ContinueFrame ==
    ASSUME NEW j, NEW p \in Purpose, Continue(j, p)
    PROVE  UNCHANGED client /\ Asks
BY DEF Continue, Asks

\* The end of a job drops its client and its request.
LEMMA EndsFrame ==
    ASSUME NEW keep, Ends(keep)
    PROVE  client' = None /\ Asks
BY DEF Ends, Asks

\* An upload begins with its first request, or fails.
LEMMA UploadFrame ==
    ASSUME upload_file
    PROVE  client' \in {client, None} /\ Asks
<1>1. CASE Fails BY <1>1, EndsFrame DEF Fails
<1>2. ASSUME NEW j, NEW p \in {"multipart", "start"}, Continue(j, p)
      PROVE  client' \in {client, None} /\ Asks
  BY <1>2, ContinueFrame DEF Purpose
<1> QED BY <1>1, <1>2 DEF upload_file

\* What follows an upload or a chunk.
LEMMA ThenFrame ==
    ASSUME NEW offset, UploadOk \/ UploadErr \/ NextChunk(offset) \/ Completes \/ Fails
    PROVE  client' \in {client, None} /\ Asks
<1>1. Completes \/ Fails => client' \in {client, None} /\ Asks
  BY EndsFrame DEF Completes, Fails
<1>2. UploadOk \/ UploadErr => client' \in {client, None} /\ Asks
  BY <1>1 DEF UploadOk, UploadErr
<1>3. ASSUME NEW j, Continue(j, "chunk") PROVE client' \in {client, None} /\ Asks
  BY <1>3, ContinueFrame DEF Purpose
<1>4. NextChunk(offset) => client' \in {client, None} /\ Asks
  BY <1>2, <1>3 DEF NextChunk
<1> QED BY <1>1, <1>2, <1>4

\* No step of a job touches the tokens, except that the client goes with it.
LEMMA JobSteps == ASSUME JobNext PROVE JobFrame
<1> USE DEF JobFrame
<1>1. ASSUME NEW k \in Kind, StartJob(k) PROVE JobFrame
  BY <1>1 DEF StartJob, Asks
<1>2. CASE UploadBegins BY <1>2, UploadFrame DEF UploadBegins, Files
<1>3. CASE CheckBegins
  <2>1. ASSUME NEW j, Continue(j, "read") PROVE UNCHANGED client /\ Asks
    BY <2>1, ContinueFrame DEF Purpose
  <2> QED BY <1>3, <2>1, UploadFrame DEF CheckBegins, Files
<1>4. CASE ConflictChecked BY <1>4, UploadFrame DEF ConflictChecked, Files
<1>6. CASE files_upload_multipart BY <1>6, ThenFrame DEF files_upload_multipart
<1>7. CASE files_upload_resumable_start BY <1>7, ThenFrame DEF files_upload_resumable_start
<1>8. CASE files_upload_resumable_chunk
  <2>1. ASSUME NEW j, Continue(j, "query") PROVE UNCHANGED client /\ Asks
    BY <2>1, ContinueFrame DEF Purpose
  <2> QED BY <1>8, <2>1, ThenFrame DEF files_upload_resumable_chunk
<1>9. CASE files_upload_resumable_query BY <1>9, ThenFrame DEF files_upload_resumable_query
<1>10. CASE DownloadBegins
  <2>1. ASSUME NEW j, Continue(j, "fetch") PROVE UNCHANGED client /\ Asks
    BY <2>1, ContinueFrame DEF Purpose
  <2> QED BY <1>10, <2>1 DEF DownloadBegins, Files
<1>11. CASE do_download BY <1>11, ThenFrame DEF do_download, Files, Asks
<1>12. CASE Placed BY <1>12 DEF Placed, Asks
<1>13. CASE Recorded BY <1>13, ThenFrame DEF Recorded
<1>14. CASE DeleteBegins
  <2>1. ASSUME NEW j, Continue(j, "trash") PROVE UNCHANGED client /\ Asks
    BY <2>1, ContinueFrame DEF Purpose
  <2> QED BY <1>14, <2>1, ThenFrame DEF DeleteBegins, Files
<1>15. CASE files_delete BY <1>15, ThenFrame DEF files_delete
<1>16. CASE PhotoBegins
  <2>1. ASSUME NEW j, Continue(j, "bytes") PROVE UNCHANGED client /\ Asks
    BY <2>1, ContinueFrame DEF Purpose
  <2> QED BY <1>16, <2>1, ThenFrame DEF PhotoBegins, Files
<1>17. CASE upload_media_item
  <2>1. ASSUME NEW j, Continue(j, "create") PROVE UNCHANGED client /\ Asks
    BY <2>1, ContinueFrame DEF Purpose
  <2> QED BY <1>17, <2>1, ThenFrame DEF upload_media_item, Files
<1>18. CASE batch_create BY <1>18, ThenFrame DEF batch_create, Files
<1> QED
  BY <1>1, <1>2, <1>3, <1>4, <1>6, <1>7, <1>8, <1>9, <1>10, <1>11, <1>12, <1>13,
     <1>14, <1>15, <1>16, <1>17, <1>18 DEF JobNext

-----------------------------------------------------------------------------
\* Every step, as the request and the token store see it.

\* The refresh a request waits for ends.
RefreshEnds ==
    /\ InRequest("refresh") /\ UNCHANGED sends
    /\ \/ req' = [req EXCEPT !.at = "send", !.token_refreshed = TRUE]
       \/ req' = [req EXCEPT !.at = "err"]

\* Every step of the composition, as the request sees it.
RequestStep == Asks \/ Sending \/ RefreshEnds

\* The steps by who takes them: users and the poll,
EnvironmentNext ==
    (\E k \in {"upload", "upload_id", "photo"} : UserEdits(k)) \/ UserDeletes \/ EditOnDrive \/ Poll

\* the making of a client for the next job,
BuildNext ==
    (\E k \in Kind : todo[k] > 0) /\ job = None /\ (BuildFromCache \/ BuildByRefresh) /\ Beside

\* logins, disconnects and what Google does beside a job,
StoreNext == (LoginNext \/ DisconnectNext \/ GoogleNext) /\ Beside

\* and the refresh of the engine or of the client's request.
EngineRefreshes == RefreshSteps /\ UNCHANGED <<job, todo, asked, fileVars, driveVars>>

\* The next-state relation by who takes the step.
LEMMA StepKinds ==
    ASSUME TransferNext
    PROVE  \/ JobNext \/ Requests \/ EngineRefreshes \/ BuildNext \/ StoreNext
           \/ TransferRestart \/ EnvironmentNext
BY Zenon DEF TransferNext, EngineNext, EngineRefreshes, BuildNext, StoreNext,
   EnvironmentNext

\* Users, Drive and the poll touch neither tokens nor the request.
LEMMA EnvironmentFrame ==
    ASSUME EnvironmentNext
    PROVE  /\ UNCHANGED <<account, keyring, cache, google, flow, leaving, refresh, client,
                          faults, spoilt, req, sends, job, uploaded, session, created, lost>>
           /\ UNCHANGED ops \/ Op
BY DEF EnvironmentNext, UserEdits, UserDeletes, EditOnDrive, Poll, Elsewhere

\* What a step means to the token store.
LEMMA TokenSteps ==
    ASSUME RequestTypeOK, JobsRequest, RefreshAlone, TransferNext
    PROVE  TokenStep
<1>1. CASE JobNext
  <2>1. JobFrame BY <1>1, JobSteps
  <2>2. TokenUse BY <2>1 DEF JobFrame, Others, TokenUse
  <2> QED BY <2>2 DEF TokenStep
<1>2. CASE Requests
  <2>1. AttemptFrame BY <1>2, RequestSteps DEF RequestTypeOK
  <2>2. InRequest("send") BY <2>1 DEF AttemptFrame, Accepted, Unauthorized, Busy, Refused
  <2>3. refresh = None BY <2>2 DEF InRequest, JobsRequest, RefreshAlone
  <2>4. UNCHANGED refresh \/ (keyring # None /\ load_refresh_token)
    BY <2>1 DEF AttemptFrame, Unauthorized
  <2>5. TokenUse BY <2>1, <2>3, <2>4 DEF AttemptFrame, TokenUse
  <2> QED BY <2>5 DEF TokenStep
<1>3. CASE EngineRefreshes
  <2>1. RefreshNext BY <1>3 DEF EngineRefreshes, RefreshSteps, Refreshed, NotRefreshed, RefreshNext
  <2> QED BY <2>1 DEF TokenStep
<1>4. CASE BuildNext BY <1>4 DEF BuildNext, TokenStep
<1>5. CASE StoreNext BY <1>5 DEF StoreNext, TokenStep
<1>6. CASE TransferRestart BY <1>6 DEF TransferRestart, TokenStep
<1>7. CASE EnvironmentNext
  <2>1. TokenUse BY <1>7, EnvironmentFrame DEF TokenUse
  <2> QED BY <2>1 DEF TokenStep
<1> QED BY StepKinds, <1>1, <1>2, <1>3, <1>4, <1>5, <1>6, <1>7

\* What a step means to the request.
LEMMA RequestKinds == ASSUME RequestTypeOK, TransferNext PROVE RequestStep
<1> USE DEF RequestStep
<1>1. CASE JobNext BY <1>1, JobSteps DEF JobFrame
<1>2. CASE Requests BY <1>2, RequestSteps DEF RequestTypeOK, AttemptFrame, Sending
<1>3. CASE EngineRefreshes
  BY <1>3 DEF EngineRefreshes, RefreshSteps, Refreshed, NotRefreshed, RefreshEnds, Asks
<1>4. CASE BuildNext BY <1>4 DEF BuildNext, Beside, jobVars, Asks
<1>5. CASE StoreNext BY <1>5 DEF StoreNext, Beside, jobVars, Asks
<1>6. CASE TransferRestart BY <1>6 DEF TransferRestart, Asks
<1>7. CASE EnvironmentNext BY <1>7, EnvironmentFrame DEF Asks
<1> QED BY StepKinds, <1>1, <1>2, <1>3, <1>4, <1>5, <1>6, <1>7

\* A step of the request keeps its type and the count of its sendings.
LEMMA RequestCounted ==
    ASSUME RequestTypeOK, SendsCounted, RequestStep
    PROVE  RequestTypeOK' /\ SendsCounted'
<1> USE RetryConstant DEF RequestTypeOK, SendsCounted
<1>1. CASE Asks
  <2>1. ASSUME NEW p \in Purpose, Ask(p) PROVE RequestTypeOK' /\ SendsCounted'
    <3>1. req' \in Request BY <2>1 DEF Ask, Request
    <3>2. sends' = 0 /\ req'.at = "send" /\ req'.attempt = 0 BY <2>1 DEF Ask
    <3> QED BY <3>1, <3>2
  <2> QED BY <1>1, <2>1 DEF Asks
<1>2. CASE Accepted BY <1>2 DEF Accepted, InRequest, Sent, Request
<1>3. CASE Unauthorized BY <1>3 DEF Unauthorized, InRequest, Sent, Request
<1>4. CASE Busy BY <1>4 DEF Busy, InRequest, Sent, Request
<1>5. CASE Refused BY <1>5 DEF Refused, InRequest, Sent, Request
<1>6. CASE RefreshEnds
  <2>1. req \in Request /\ ~req.token_refreshed /\ sends <= req.attempt + 1
    BY <1>6 DEF RefreshEnds, InRequest
  <2>2. CASE req' = [req EXCEPT !.at = "send", !.token_refreshed = TRUE]
    <3>1. /\ req' \in Request /\ req'.at = "send" /\ req'.token_refreshed
          /\ req'.attempt = req.attempt
      BY <2>1, <2>2 DEF Request
    <3> QED BY <1>6, <2>1, <3>1 DEF RefreshEnds
  <2>3. CASE req' = [req EXCEPT !.at = "err"]
    <3>1. /\ req' \in Request /\ req'.at = "err" /\ req'.attempt = req.attempt
      BY <2>1, <2>3 DEF Request
    <3>2. req.attempt \in Nat BY <2>1 DEF Request
    <3>3. req'.token_refreshed = req.token_refreshed BY <2>1, <2>3 DEF Request
    <3> QED BY <1>6, <2>1, <3>1, <3>2, <3>3 DEF RefreshEnds
  <2> QED BY <1>6, <2>2, <2>3 DEF RefreshEnds
<1> QED BY <1>1, <1>2, <1>3, <1>4, <1>5, <1>6 DEF RequestStep, Sending

-----------------------------------------------------------------------------
\* The moves of a job: the shapes its steps have.

\* An upload that has succeeded writes its row; nothing else does.
RowsKept ==
    \/ UNCHANGED rows
    \/ /\ rows' = rows \cup {job.content}
       /\ \/ job.at = "upload" /\ Answered("multipart")
          \/ job.at = "chunks" /\ session.complete

\* The job goes on as j and asks for p.
Goes(j, p) == job # None /\ job' = j /\ Ask(p) /\ UNCHANGED todo

\* The local file does not change.
Still == UNCHANGED local

\* The moves of a job: it ends, its task out of the queue or to be retried,
JobEnds ==
    /\ job # None /\ job' = None /\ req' = None /\ Still /\ RowsKept
    /\ \/ todo' = [todo EXCEPT ![job.kind] = @ - 1]
       \/ ~JobMade /\ UNCHANGED todo

\* uploads the local file,
BeginsUpload(p) ==
    /\ Goes([job EXCEPT !.at = "upload", !.content = local], p)
    /\ local # None /\ Still /\ UNCHANGED rows
    /\ job.at \in {"begin", "check"}

\* asks for the remote version first,
BeginsCheck ==
    /\ Goes([job EXCEPT !.at = "check", !.content = local], "read")
    /\ local # None /\ job.at = "begin" /\ Still /\ UNCHANGED rows

\* asks for the remote content,
GoesToFetch ==
    /\ Goes([job EXCEPT !.at = "fetch"], "fetch")
    /\ job.at = "begin" /\ Still /\ UNCHANGED rows

\* sends a chunk,
SendsChunk(o) ==
    /\ Goes([job EXCEPT !.at = "chunks", !.offset = o], "chunk")
    /\ o < FILE_LEN /\ (o = 0 \/ o = session.got \/ o = ChunkEnd(job.offset))
    /\ \/ job.at = "upload" /\ Answered("start") /\ o = 0
       \/ job.at \in {"chunks", "query"} /\ ~JobMade
    /\ Still /\ UNCHANGED rows

\* asks how much of the file has arrived,
AsksHowFar ==
    /\ Goes([job EXCEPT !.at = "query"], "query")
    /\ job.at = "chunks" /\ ~JobMade /\ Still /\ UNCHANGED rows

\* has the remote content,
HasContent ==
    /\ job # None /\ job.at = "fetch" /\ remote # None
    /\ job' = [job EXCEPT !.at = "place", !.content = remote]
    /\ req' = None /\ UNCHANGED <<sends, todo, rows>> /\ Still

\* puts it at the local path,
Places ==
    /\ job # None /\ job.at = "place" /\ job' = [job EXCEPT !.at = "record"]
    /\ local' = job.content /\ UNCHANGED <<req, sends, todo, rows>>

\* trashes the remote file,
Trashes ==
    /\ Goes([job EXCEPT !.at = "trash"], "trash")
    /\ job.at = "begin" /\ Still /\ UNCHANGED rows

\* sends the bytes of a photo,
SendsPhoto ==
    /\ Goes([job EXCEPT !.at = "bytes", !.content = local], "bytes")
    /\ local # None /\ job.at = "begin" /\ Still /\ UNCHANGED rows

\* and makes the media item.
MakesItem ==
    /\ Goes([job EXCEPT !.at = "create"], "create")
    /\ job.at = "bytes" /\ Still /\ UNCHANGED rows

\* All moves but the end.
JobGoesOn ==
    \/ \E p \in {"multipart", "start"} : BeginsUpload(p)
    \/ BeginsCheck \/ GoesToFetch \/ \E o \in Nat : SendsChunk(o)
    \/ AsksHowFar \/ HasContent \/ Places \/ Trashes \/ SendsPhoto \/ MakesItem

\* All moves.
JobMove == JobEnds \/ JobGoesOn

\* The shared parts of the actions, as moves.
LEMMA EndMoves ==
    ASSUME job # None, Completes \/ (Fails /\ ~JobMade), Still, RowsKept
    PROVE  JobEnds
BY DEF Completes, Fails, Ends, JobEnds

\* A job that is not at the request that makes its file, or whose request was
\* answered with an error, has nothing to take note of.
LEMMA NotMade ==
    ASSUME JobsRequest, job # None,
           \/ job.at \in {"begin", "check", "query", "fetch", "place", "record", "trash", "bytes"}
           \/ Returned("err")
    PROVE  ~JobMade
BY DEF JobsRequest, JobMade, Answered, Returned, InRequest

\* An upload that begins is a move, and so is one without a file.
LEMMA UploadMoves ==
    ASSUME job # None, ~JobMade, upload_file, Still, UNCHANGED rows, job.at \in {"begin", "check"}
    PROVE  JobEnds \/ \E p \in {"multipart", "start"} : BeginsUpload(p)
<1>1. CASE local = None BY <1>1, EndMoves DEF upload_file, RowsKept
<1>2. CASE local # None
  <2>1. PICK p \in {"multipart", "start"} :
          Continue([job EXCEPT !.at = "upload", !.content = local], p)
    BY <1>2 DEF upload_file
  <2>2. BeginsUpload(p) BY <1>2, <2>1 DEF BeginsUpload, Goes, Continue
  <2> QED BY <2>2
<1> QED BY <1>1, <1>2

\* The end of an upload.
LEMMA OutcomeMoves ==
    ASSUME job # None, Still,
           \/ UploadErr /\ ~JobMade
           \/ /\ UploadOk
              /\ \/ job.at = "upload" /\ Answered("multipart")
                 \/ job.at = "chunks" /\ session.complete
    PROVE  JobEnds
<1>1. RowsKept BY DEF UploadErr, UploadOk, RowsKept
<1>2. Completes \/ (Fails /\ ~JobMade) BY DEF UploadErr, UploadOk
<1> QED BY <1>1, <1>2, EndMoves

\* The next chunk, or the end of the upload after the last one.
LEMMA ChunkMoves ==
    ASSUME job # None, ~JobMade, NEW o \in Nat, NextChunk(o), Still,
           o = 0 \/ o = FILE_LEN \/ o = session.got \/ o = ChunkEnd(job.offset),
           \/ job.at = "upload" /\ Answered("start") /\ o = 0
           \/ job.at \in {"chunks", "query"}
    PROVE  JobEnds \/ SendsChunk(o)
<1> USE TransferConstants
<1>1. CASE o < FILE_LEN
  BY <1>1 DEF NextChunk, Continue, SendsChunk, Goes
<1>2. CASE ~(o < FILE_LEN)
  BY <1>2, OutcomeMoves DEF NextChunk
<1> QED BY <1>1, <1>2

\* The end of a chunk is in the file.
LEMMA ChunkEnds ==
    ASSUME NEW o \in 0..FILE_LEN
    PROVE  ChunkEnd(o) \in 0..FILE_LEN /\ ChunkEnd(o) \in Nat
BY TransferConstants DEF ChunkEnd

\* Every step of a job that runs is a move.
LEMMA JobMoves ==
    ASSUME TransferTypeOK, JobsRequest, JobReady, JobNext
    PROVE  \/ \E k \in Kind : StartJob(k)
           \/ JobMove /\ Sessions
<1> DEFINE Goal == JobMove /\ Sessions
<1>1. CASE UploadBegins
  <2>1. job # None /\ job.at = "begin" /\ upload_file /\ Still /\ UNCHANGED rows /\ Sessions
    BY <1>1 DEF UploadBegins, InJob, Files, Still
  <2> QED BY <2>1, NotMade, UploadMoves DEF JobMove, JobGoesOn
<1>2. CASE CheckBegins
  <2>1. job # None /\ job.at = "begin" /\ Still /\ UNCHANGED rows /\ Sessions
    BY <1>2 DEF CheckBegins, InJob, Files, Still
  <2>2. CASE local = None
    BY <1>2, <2>1, <2>2, NotMade, UploadMoves DEF CheckBegins, JobMove, JobGoesOn
  <2>3. CASE local # None
    <3>1. BeginsCheck BY <1>2, <2>1, <2>3 DEF CheckBegins, Continue, BeginsCheck, Goes
    <3> QED BY <2>1, <3>1 DEF JobMove, JobGoesOn
  <2> QED BY <2>2, <2>3
<1>3. CASE ConflictChecked
  <2>1. job # None /\ job.at = "check" /\ upload_file /\ Still /\ UNCHANGED rows /\ Sessions
    BY <1>3 DEF ConflictChecked, InJob, Files, Still
  <2> QED BY <2>1, NotMade, UploadMoves DEF JobMove, JobGoesOn
<1>5. CASE files_upload_multipart
  <2>1. job # None /\ job.at = "upload" /\ Still /\ Sessions
    BY <1>5 DEF files_upload_multipart, InJob, Still
  <2>2. (UploadErr /\ ~JobMade) \/ (UploadOk /\ Answered("multipart"))
    BY <1>5, <2>1, NotMade DEF files_upload_multipart, Returned, InRequest, Answered
  <2> QED BY <2>1, <2>2, OutcomeMoves DEF JobMove, JobGoesOn
<1>6. CASE files_upload_resumable_start
  <2>1. job # None /\ job.at = "upload" /\ Still /\ Sessions /\ req.for = "start"
    BY <1>6 DEF files_upload_resumable_start, InJob, Still
  <2>2. ~JobMade BY <2>1 DEF JobMade, Answered
  <2>3. UploadErr \/ (NextChunk(0) /\ Answered("start"))
    BY <1>6 DEF files_upload_resumable_start, Returned, InRequest, Answered
  <2> QED BY <2>1, <2>2, <2>3, OutcomeMoves, ChunkMoves DEF JobMove, JobGoesOn
<1>7. CASE files_upload_resumable_chunk
  <2>1. job \in Job /\ job # None /\ job.at = "chunks" /\ Still /\ Sessions
    BY <1>7 DEF files_upload_resumable_chunk, InJob, Still, TransferTypeOK
  <2>2. session.got \in Nat BY <2>1, TransferConstants DEF JobReady, Session
  <2>3. ChunkEnd(job.offset) \in Nat BY <2>1, ChunkEnds DEF Job
  <2>4. CASE session.complete /\ UploadOk BY <2>1, <2>4, OutcomeMoves DEF JobMove, JobGoesOn
  <2>5. ASSUME ~session.complete, NEW o \in Nat, NextChunk(o),
               o = session.got \/ o = ChunkEnd(job.offset)
        PROVE  Goal
    <3>1. ~JobMade BY <2>1, <2>5 DEF JobMade, Answered, JobsRequest
    <3> QED BY <2>1, <2>5, <3>1, ChunkMoves DEF JobMove, JobGoesOn
  <2>6. ASSUME Returned("err"), Continue([job EXCEPT !.at = "query"], "query"), UNCHANGED rows
        PROVE  Goal
    <3>1. AsksHowFar BY <2>1, <2>6, NotMade DEF AsksHowFar, Goes, Continue
    <3> QED BY <2>1, <3>1 DEF JobMove, JobGoesOn
  <2> QED BY <1>7, <2>2, <2>3, <2>4, <2>5, <2>6, <2>1 DEF files_upload_resumable_chunk
<1>8. CASE files_upload_resumable_query
  <2>1. job # None /\ job.at = "query" /\ Still /\ Sessions
    BY <1>8 DEF files_upload_resumable_query, InJob, Still
  <2>2. session.got \in Nat BY <2>1, TransferConstants DEF JobReady, Session
  <2>3. ~JobMade BY <2>1, NotMade
  <2>4. CASE UploadErr BY <2>1, <2>3, <2>4, OutcomeMoves DEF JobMove, JobGoesOn
  <2>5. ASSUME NEW o \in Nat, NextChunk(o), o = session.got \/ o = FILE_LEN PROVE Goal
    BY <2>1, <2>3, <2>5, ChunkMoves DEF JobMove, JobGoesOn
  <2>6. FILE_LEN \in Nat BY TransferConstants
  <2> QED BY <1>8, <2>2, <2>4, <2>5, <2>6 DEF files_upload_resumable_query
<1>9. CASE DownloadBegins
  <2>1. GoesToFetch /\ Sessions
    BY <1>9 DEF DownloadBegins, InJob, Continue, Files, Still, GoesToFetch, Goes
  <2> QED BY <2>1 DEF JobMove, JobGoesOn
<1>10. CASE do_download
  <2>1. job # None /\ job.at = "fetch" /\ Still /\ UNCHANGED rows /\ Sessions
    BY <1>10 DEF do_download, InJob, Files, Still
  <2>2. CASE Fails BY <2>1, <2>2, NotMade, EndMoves DEF JobMove, RowsKept
  <2>3. CASE ~Fails
    <3>1. HasContent BY <1>10, <2>1, <2>3 DEF do_download, HasContent
    <3> QED BY <2>1, <3>1 DEF JobMove, JobGoesOn
  <2> QED BY <2>2, <2>3
<1>11. CASE Placed
  <2>1. Places BY <1>11 DEF Placed, InJob, Places
  <2> QED BY <1>11, <2>1 DEF Placed, JobMove, JobGoesOn
<1>12. CASE Recorded
  BY <1>12, EndMoves DEF Recorded, InJob, Still, RowsKept, JobMove, JobGoesOn
<1>13. CASE DeleteBegins
  <2>1. job # None /\ job.at = "begin" /\ Still /\ UNCHANGED rows /\ Sessions
    BY <1>13 DEF DeleteBegins, InJob, Files, Still
  <2>2. CASE Completes BY <2>1, <2>2, EndMoves DEF RowsKept, JobMove, JobGoesOn
  <2>3. CASE ~Completes
    <3>1. Trashes BY <1>13, <2>1, <2>3 DEF DeleteBegins, Continue, Trashes, Goes
    <3> QED BY <2>1, <3>1 DEF JobMove, JobGoesOn
  <2> QED BY <2>2, <2>3
<1>14. CASE files_delete
  <2>1. job # None /\ job.at = "trash" /\ Still /\ UNCHANGED rows /\ Sessions
    BY <1>14 DEF files_delete, InJob, Still
  <2> QED BY <1>14, <2>1, NotMade, EndMoves DEF files_delete, RowsKept, JobMove
<1>15. CASE PhotoBegins
  <2>1. job # None /\ job.at = "begin" /\ Still /\ UNCHANGED rows /\ Sessions
    BY <1>15 DEF PhotoBegins, InJob, Files, Still
  <2>2. CASE Fails BY <2>1, <2>2, NotMade, EndMoves DEF RowsKept, JobMove, JobGoesOn
  <2>3. CASE ~Fails
    <3>1. SendsPhoto BY <1>15, <2>1, <2>3 DEF PhotoBegins, Continue, SendsPhoto, Goes
    <3> QED BY <2>1, <3>1 DEF JobMove, JobGoesOn
  <2> QED BY <2>2, <2>3
<1>16. CASE upload_media_item
  <2>1. job # None /\ job.at = "bytes" /\ Still /\ UNCHANGED rows /\ Sessions
    BY <1>16 DEF upload_media_item, InJob, Files, Still
  <2>2. CASE Fails BY <2>1, <2>2, NotMade, EndMoves DEF RowsKept, JobMove, JobGoesOn
  <2>3. CASE ~Fails
    <3>1. MakesItem BY <1>16, <2>1, <2>3 DEF upload_media_item, Continue, MakesItem, Goes
    <3> QED BY <2>1, <3>1 DEF JobMove, JobGoesOn
  <2> QED BY <2>2, <2>3
<1>17. CASE batch_create
  <2>1. job # None /\ job.at = "create" /\ Still /\ UNCHANGED rows /\ Sessions
    BY <1>17 DEF batch_create, InJob, Files, Still
  <2> QED BY <1>17, <2>1, NotMade, EndMoves DEF batch_create, RowsKept, JobMove
<1> QED
  BY <1>1, <1>2, <1>3, <1>5, <1>6, <1>7, <1>8, <1>9, <1>10, <1>11, <1>12, <1>13,
     <1>14, <1>15, <1>16, <1>17 DEF JobNext

-----------------------------------------------------------------------------
\* Requests, refreshes and jobs that wait for each other.

\* A step of a job is taken when its request has an answer, or without one.
LEMMA JobWaits ==
    ASSUME JobNext
    PROVE  \/ \E k \in Kind : StartJob(k)
           \/ /\ job # None
              /\ \/ Returned("ok") \/ Returned("err")
                 \/ job.at \in {"begin", "place", "record"}
<1> DEFINE Waited ==
      /\ job # None
      /\ \/ Returned("ok") \/ Returned("err")
         \/ job.at \in {"begin", "place", "record"}
<1>1. UploadBegins \/ CheckBegins \/ ConflictChecked => Waited
  BY DEF UploadBegins, CheckBegins, ConflictChecked, InJob
<1>2. files_upload_multipart \/ files_upload_resumable_start => Waited
  BY DEF files_upload_multipart, files_upload_resumable_start, InJob
<1>3. files_upload_resumable_chunk \/ files_upload_resumable_query => Waited
  BY DEF files_upload_resumable_chunk, files_upload_resumable_query, InJob
<1>4. DownloadBegins \/ do_download \/ Placed \/ Recorded => Waited
  BY DEF DownloadBegins, do_download, Placed, Recorded, InJob
<1>5. DeleteBegins \/ files_delete \/ PhotoBegins \/ upload_media_item \/ batch_create => Waited
  BY DEF DeleteBegins, files_delete, PhotoBegins, upload_media_item, batch_create, InJob
<1> QED BY <1>1, <1>2, <1>3, <1>4, <1>5 DEF JobNext

\* A request that is under way stays a request for the same thing.
LEMMA RequestGoesOn ==
    ASSUME RequestTypeOK, Sending \/ RefreshEnds
    PROVE  req # None /\ req \in Request /\ req' \in Request /\ req'.for = req.for
<1>1. req # None /\ req \in Request
  BY DEF RequestTypeOK, Sending, Accepted, Unauthorized, Busy, Refused, RefreshEnds, InRequest
<1>2. CASE Accepted BY <1>1, <1>2 DEF Accepted, Request
<1>3. CASE Unauthorized BY <1>1, <1>3 DEF Unauthorized, Request
<1>4. CASE Busy BY <1>1, <1>4, RetryConstant DEF Busy, Request
<1>5. CASE Refused BY <1>1, <1>5 DEF Refused, Request
<1>6. CASE RefreshEnds BY <1>1, <1>6 DEF RefreshEnds, Request
<1> QED BY <1>1, <1>2, <1>3, <1>4, <1>5, <1>6 DEF Sending

\* The engine's refreshes end a request's wait or leave the request alone.
LEMMA RefreshesRequest ==
    ASSUME EngineRefreshes
    PROVE  /\ refresh # None
           /\ UNCHANGED <<job, todo, asked, fileVars, driveVars>>
           /\ UNCHANGED req \/ (RefreshEnds /\ refresh' = None)
<1>1. refresh # None
  BY DEF EngineRefreshes, RefreshSteps, Refreshed, NotRefreshed, refresh_access_token,
     RefreshSaves, RefreshFails, RefreshCaches, Refreshing
<1>2. CASE Refreshed
  BY <1>1, <1>2 DEF EngineRefreshes, Refreshed, RefreshCaches, RefreshEnds
<1>3. CASE NotRefreshed
  BY <1>1, <1>3 DEF EngineRefreshes, NotRefreshed, RefreshFails, RefreshEnds
<1>4. CASE UNCHANGED <<req, sends>> BY <1>1, <1>4 DEF EngineRefreshes
<1> QED BY <1>2, <1>3, <1>4 DEF EngineRefreshes, RefreshSteps

\* One refresh at a time.
LEMMA RefreshAloneStep ==
    ASSUME RequestTypeOK, JobsRequest, RefreshAlone, TransferNext
    PROVE  RefreshAlone'
<1> USE DEF RefreshAlone
<1>1. CASE JobNext
  <2>1. UNCHANGED refresh BY <1>1, JobSteps DEF JobFrame, Others
  <2>2. refresh = None
    BY <1>1, JobWaits, NoneIsNoRequest
    DEF StartJob, Returned, InRequest, JobsRequest
  <2> QED BY <2>1, <2>2
<1>2. CASE Requests
  <2>1. AttemptFrame /\ UNCHANGED job BY <1>2, RequestSteps DEF RequestTypeOK
  <2>2. InRequest("send") BY <2>1 DEF AttemptFrame, Accepted, Unauthorized, Busy, Refused
  <2>3. refresh = None BY <2>2 DEF InRequest, JobsRequest
  <2>4. CASE UNCHANGED refresh BY <2>3, <2>4
  <2>5. CASE ~UNCHANGED refresh
    <3>1. Unauthorized /\ req' = [req EXCEPT !.at = "refresh"]
      BY <2>1, <2>5 DEF AttemptFrame, Unauthorized
    <3>2. req' \in Request /\ req \in Request BY <3>1, RequestGoesOn DEF Sending
    <3>3. req'.at = "refresh" BY <3>1, <3>2 DEF Request
    <3> QED BY <3>2, <3>3, NoneIsNoRequest
  <2> QED BY <2>4, <2>5
<1>3. CASE EngineRefreshes BY <1>3, RefreshesRequest
<1>4. CASE BuildNext BY <1>4 DEF BuildNext, Beside, jobVars
<1>5. CASE StoreNext
  <2>1. UNCHANGED refresh
    BY <1>5 DEF StoreNext, LoginNext, begin_auth_flow, handle_callback, exchange_code,
       fetch_and_store_account, LoginSaves, LoginCaches, Login, DisconnectNext,
       delete_refresh_token, clear_access_token, delete_account, Leave, GoogleNext, CacheAges,
       AccessExpires, GrantRevoked
  <2> QED BY <1>5, <2>1 DEF StoreNext, Beside, jobVars
<1>6. CASE TransferRestart BY <1>6 DEF TransferRestart, TokensRestart
<1>7. CASE EnvironmentNext BY <1>7, EnvironmentFrame
<1> QED BY StepKinds, <1>1, <1>2, <1>3, <1>4, <1>5, <1>6, <1>7

\* Asking makes a request for the purpose.
LEMMA Asked ==
    ASSUME NEW p \in Purpose, Ask(p)
    PROVE  req' \in Request /\ req' # None /\ req'.for = p /\ req'.at = "send"
<1>1. req' \in Request BY RetryConstant DEF Ask, Request
<1>2. req'.for = p /\ req'.at = "send" BY DEF Ask
<1> QED BY <1>1, <1>2, NoneIsNoRequest

-----------------------------------------------------------------------------
\* Types.

\* The job after a move: the step it is at, and what else it has changed.
LEMMA MoveJob ==
    ASSUME TransferTypeOK, JobGoesOn
    PROVE  /\ job \in Job /\ job # None /\ job' \in Job /\ job' # None
           /\ job'.kind = job.kind /\ job'.base = job.base
<1> USE TransferConstants DEF TransferTypeOK
<1> DEFINE Kept == job' \in Job /\ job'.kind = job.kind /\ job'.base = job.base
<1>1. job \in Job /\ job # None
  BY DEF JobGoesOn, BeginsUpload, BeginsCheck, GoesToFetch, SendsChunk, AsksHowFar, HasContent, Places, Trashes, SendsPhoto, MakesItem, Goes
<1>2. ASSUME NEW p \in {"multipart", "start"}, BeginsUpload(p) PROVE Kept
  BY <1>1, <1>2 DEF BeginsUpload, Goes, Job
<1>3. BeginsCheck \/ SendsPhoto => Kept BY <1>1 DEF BeginsCheck, SendsPhoto, Goes, Job
<1>5. GoesToFetch \/ AsksHowFar \/ Trashes \/ MakesItem => Kept
  BY <1>1 DEF GoesToFetch, AsksHowFar, Trashes, MakesItem, Goes, Job
<1>6. ASSUME NEW o \in Nat, SendsChunk(o) PROVE Kept
  <2>1. o \in 0..FILE_LEN BY <1>6 DEF SendsChunk
  <2> QED BY <1>1, <1>6, <2>1 DEF SendsChunk, Goes, Job
<1>7. HasContent => Kept BY <1>1 DEF HasContent, Job
<1>8. Places => Kept BY <1>1 DEF Places, Job
<1>9. Kept BY <1>2, <1>3, <1>5, <1>6, <1>7, <1>8 DEF JobGoesOn
<1> QED BY <1>1, <1>9, NoneIsNoJob

\* What a move does to the files, to the rows and to the queue.
LEMMA MoveFiles ==
    ASSUME TransferTypeOK, JobReady, TasksRun, JobMove
    PROVE  /\ local' \in Content \cup {None}
           /\ rows' \subseteq Content /\ todo' \in [Kind -> Nat]
<1> USE DEF TransferTypeOK, Still
<1>1. job # None /\ job \in Job
  BY MoveJob DEF JobMove, JobEnds
<1>2. CASE JobEnds
  <2>1. RowsKept BY <1>2 DEF JobEnds
  <2>2. rows' \subseteq Content BY <1>1, <2>1 DEF RowsKept, JobReady
  <2>3. job.kind \in Kind /\ todo[job.kind] - 1 \in Nat BY <1>1 DEF Job, TasksRun
  <2>4. todo' \in [Kind -> Nat] BY <1>2, <2>3 DEF JobEnds
  <2> QED BY <1>2, <2>2, <2>4 DEF JobEnds
<1>3. ASSUME NEW p \in {"multipart", "start"}, BeginsUpload(p) PROVE UNCHANGED <<local, rows, todo>>
  BY <1>3 DEF BeginsUpload, Goes
<1>4. ASSUME NEW o \in Nat, SendsChunk(o) PROVE UNCHANGED <<local, rows, todo>>
  BY <1>4 DEF SendsChunk, Goes
<1>5. CASE Places BY <1>1, <1>5 DEF Places, Job
<1>6. CASE BeginsCheck \/ GoesToFetch \/ AsksHowFar \/ HasContent \/ Trashes \/ SendsPhoto
           \/ MakesItem
  BY <1>6 DEF BeginsCheck, GoesToFetch, AsksHowFar, HasContent, Trashes, SendsPhoto,
     MakesItem, Goes
<1> QED BY <1>2, <1>3, <1>4, <1>5, <1>6 DEF JobMove, JobGoesOn

\* Only a download and a deletion write the row the job is about.
LEMMA RowType == ASSUME TransferTypeOK, JobNext PROVE row' \in Row
<1> USE DEF TransferTypeOK
<1>1. ASSUME NEW k \in Kind, StartJob(k) PROVE UNCHANGED row BY <1>1 DEF StartJob
<1>2. UploadBegins \/ CheckBegins \/ ConflictChecked => UNCHANGED row
  BY DEF UploadBegins, CheckBegins, ConflictChecked, Files
<1>3. files_upload_multipart \/ files_upload_resumable_start => UNCHANGED row
  BY DEF files_upload_multipart, files_upload_resumable_start
<1>4. files_upload_resumable_chunk \/ files_upload_resumable_query => UNCHANGED row
  BY DEF files_upload_resumable_chunk, files_upload_resumable_query
<1>5. DownloadBegins \/ do_download \/ Placed => UNCHANGED row
  BY DEF DownloadBegins, do_download, Placed, Files
<1>6. DeleteBegins \/ PhotoBegins \/ upload_media_item \/ batch_create => UNCHANGED row
  BY DEF DeleteBegins, PhotoBegins, upload_media_item, batch_create, Files
<1>7. CASE Recorded
  <2>1. job \in Job BY <1>7 DEF Recorded, InJob
  <2>2. job.base \in Row BY <2>1 DEF Job
  <2> QED BY <1>7, <2>2 DEF Recorded, Row
<1>8. CASE files_delete BY <1>8 DEF files_delete, Row
<1> QED BY <1>1, <1>2, <1>3, <1>4, <1>5, <1>6, <1>7, <1>8 DEF JobNext

\* Steps of jobs keep the types ...
LEMMA JobTypes ==
    ASSUME TransferTypeOK, JobsRequest, JobReady, TasksRun, JobNext
    PROVE  TransferTypeOK'
<1> USE DEF TransferTypeOK
<1>1. row' \in Row BY RowType
<1>2. UNCHANGED <<remote, uploaded, polled, edits, last, asked>> BY JobSteps DEF JobFrame, Others
<1>3. ASSUME NEW k \in Kind, StartJob(k) PROVE TransferTypeOK'
  <2>1. job' \in Job BY <1>3, TransferConstants DEF StartJob, Job, Row
  <2> QED BY <1>1, <1>2, <1>3, <2>1 DEF StartJob
<1>4. CASE JobMove /\ Sessions
  <2>1. job' \in Job \cup {None} BY <1>4, MoveJob DEF JobMove, JobEnds
  <2> QED BY <1>1, <1>2, <1>4, <2>1, MoveFiles DEF Sessions
<1> QED BY <1>3, <1>4, JobMoves

\* A chunk that completes the session makes the file, another one does not.
LEMMA Persisted ==
    ASSUME NEW end \in 0..FILE_LEN, session \in Session, Persists(end)
    PROVE  /\ session' \in Session
           /\ \/ /\ ~session.complete /\ session'.complete
                 /\ Creates(job.content)
              \/ session'.complete = session.complete /\ UNCHANGED <<uploaded, created, lost>>
<1>1. CASE UNCHANGED <<uploaded, session, created, lost>> BY <1>1
<1>2. CASE ~session.complete /\ session.got < end /\ job.offset <= session.got
  <2>1. CASE end = FILE_LEN
    <3>1. session' = [got |-> end, complete |-> TRUE] BY <1>2, <2>1 DEF Persists
    <3>2. session' \in Session /\ session'.complete BY <3>1 DEF Session
    <3>3. Creates(job.content) BY <1>2, <2>1 DEF Persists
    <3> QED BY <1>2, <3>2, <3>3
  <2>2. CASE end # FILE_LEN
    <3>1. session' = [got |-> end, complete |-> FALSE] BY <1>2, <2>2 DEF Persists
    <3>2. session' \in Session /\ session'.complete = FALSE BY <3>1 DEF Session
    <3>3. session.complete = FALSE BY <1>2 DEF Session
    <3>4. UNCHANGED <<uploaded, created, lost>> BY <1>2, <2>2 DEF Persists
    <3> QED BY <3>2, <3>3, <3>4
  <2> QED BY <2>1, <2>2
<1> QED BY <1>1, <1>2 DEF Persists

\* ... and so does what Drive does ...
LEMMA DriveTypes ==
    ASSUME TransferTypeOK, JobsRequest, JobReady, req # None, DriveStep,
           UNCHANGED <<job, todo, asked, fileVars>>
    PROVE  TransferTypeOK'
<1> USE DEF TransferTypeOK, fileVars
<1>1. CASE Untouched BY <1>1 DEF Untouched
<1>2. job \in Job BY DEF JobsRequest
<1>3. ASSUME Creates(job.content), job.content \in Content
      PROVE  uploaded' \subseteq Content /\ created' \in [Kind -> Nat] /\ lost' \in [Kind -> Nat]
  <2>1. job.kind \in Kind BY <1>2 DEF Job
  <2>2. created' \in [Kind -> Nat] BY <1>3, <2>1 DEF Creates
  <2>3. lost' \in [Kind -> Nat] BY <1>3, <2>1 DEF Creates, CountLost
  <2> QED BY <1>3, <2>2, <2>3 DEF Creates
<1>4. CASE req.for \in {"multipart", "create"} /\ Creates(job.content)
           /\ UNCHANGED <<remote, session>>
  <2>1. job.content \in Content BY <1>4 DEF JobsRequest, JobReady
  <2> QED BY <1>3, <1>4, <2>1
<1>5. CASE req.for = "start" /\ session' = [got |-> 0, complete |-> FALSE]
           /\ UNCHANGED <<remote, uploaded, created, lost>>
  <2>1. session' \in Session BY <1>5, TransferConstants DEF Session
  <2> QED BY <1>5, <2>1
<1>6. ASSUME req.for = "chunk", UNCHANGED remote,
             NEW end \in {ChunkEnd(job.offset)} \cup (session.got..(ChunkEnd(job.offset) - 1)),
             Persists(end)
      PROVE  TransferTypeOK'
  <2>1. job.content \in Content /\ session \in Session BY <1>6 DEF JobsRequest, JobReady
  <2>2. ChunkEnd(job.offset) \in 0..FILE_LEN BY <1>2, ChunkEnds DEF Job
  <2>3. end \in 0..FILE_LEN BY <2>1, <2>2, TransferConstants DEF Session
  <2>4. session' \in Session BY <1>6, <2>1, <2>3, Persisted
  <2>5. uploaded' \subseteq Content /\ created' \in [Kind -> Nat] /\ lost' \in [Kind -> Nat]
    BY <1>3, <1>6, <2>1, <2>3, Persisted
  <2> QED BY <1>6, <2>4, <2>5
<1>7. CASE req.for = "trash" /\ remote' = None /\ UNCHANGED <<uploaded, session, created, lost>>
  BY <1>7
<1> QED BY <1>1, <1>4, <1>5, <1>6, <1>7 DEF DriveStep, DriveDoes

\* ... and everything else.
LEMMA TransferTypes ==
    ASSUME TransferTypeOK, RequestTypeOK, JobsRequest, JobReady, TasksRun, TransferNext
    PROVE  TransferTypeOK'
<1> USE DEF TransferTypeOK
<1>1. CASE JobNext BY <1>1, JobTypes
<1>2. CASE Requests
  <2>1. AttemptFrame /\ DriveStep /\ UNCHANGED <<job, todo, asked, fileVars>>
    BY <1>2, RequestSteps DEF RequestTypeOK
  <2>2. req # None BY <2>1 DEF AttemptFrame, Accepted, Unauthorized, Busy, Refused, InRequest
  <2> QED BY <2>1, <2>2, DriveTypes
<1>3. CASE EngineRefreshes BY <1>3 DEF EngineRefreshes, fileVars, driveVars
<1>4. CASE BuildNext \/ StoreNext
  BY <1>4 DEF BuildNext, StoreNext, Beside, jobVars, fileVars, driveVars
<1>5. CASE TransferRestart
  <2>1. ASSUME job # None PROVE [todo EXCEPT ![job.kind] = @ - 1] \in [Kind -> Nat]
    <3>1. job.kind \in Kind /\ todo[job.kind] - 1 \in Nat BY <2>1 DEF TasksRun, Job
    <3> QED BY <3>1
  <2>2. todo' \in [Kind -> Nat] BY <1>5, <2>1 DEF TransferRestart
  <2> QED BY <1>5, <2>2 DEF TransferRestart, fileVars
<1>6. CASE EnvironmentNext
  <2> USE TransferConstants DEF Content
  <2>1. ASSUME NEW k \in Kind, enqueue(k)
        PROVE  todo' \in [Kind -> Nat] /\ asked' \in [Kind -> Nat]
    BY <2>1 DEF enqueue
  <2>2. ASSUME NEW k \in {"upload", "upload_id", "photo"}, UserEdits(k) PROVE TransferTypeOK'
    <3>1. todo' \in [Kind -> Nat] /\ asked' \in [Kind -> Nat] BY <2>1, <2>2 DEF UserEdits, Kind
    <3> QED BY <2>2, <3>1 DEF UserEdits, Elsewhere
  <2>3. CASE UserDeletes
    <3>1. todo' \in [Kind -> Nat] /\ asked' \in [Kind -> Nat] BY <2>1, <2>3 DEF UserDeletes, Kind
    <3> QED BY <2>3, <3>1 DEF UserDeletes, Elsewhere
  <2>4. CASE EditOnDrive BY <2>4 DEF EditOnDrive, Elsewhere
  <2>5. CASE Poll
    <3>1. row' \in Row BY <2>5 DEF Poll, Row
    <3>2. todo' \in [Kind -> Nat] /\ asked' \in [Kind -> Nat] BY <2>1, <2>5 DEF Poll, Kind
    <3> QED BY <2>5, <3>1, <3>2 DEF Poll, Elsewhere
  <2> QED BY <1>6, <2>2, <2>3, <2>4, <2>5 DEF EnvironmentNext
<1> QED BY StepKinds, <1>1, <1>2, <1>3, <1>4, <1>5, <1>6

-----------------------------------------------------------------------------
\* Jobs: the moves.

\* What no move touches.
Rest == UNCHANGED <<session, uploaded>>

\* What the lemmas about moves start from.
Facts == TransferTypeOK /\ RequestTypeOK /\ JobInv /\ TaskInv

\* A job that ends leaves only its row to be judged.
LEMMA EndKeeps == ASSUME Facts, JobEnds, Rest PROVE JobInv'
<1> USE DEF Facts, JobInv, Rest
<1>1. job' = None /\ req' = None BY DEF JobEnds
<1>2. RowsAreReal' BY DEF JobEnds, RowsKept, RowsAreReal, SuccessIsReal
<1>3. JobsRequest' /\ JobReady' /\ SuccessIsReal' BY <1>1 DEF JobsRequest, JobReady, SuccessIsReal
<1> QED BY <1>2, <1>3

\* An upload begins with the content of the local file.
LEMMA BeginKeeps ==
    ASSUME Facts, Rest, NEW p \in {"multipart", "start"}, BeginsUpload(p)
    PROVE  JobInv'
<1> USE DEF Facts, JobInv, Rest
<1>1. job \in Job /\ job # None /\ job' # None BY MoveJob DEF JobGoesOn
<1>2. job'.at = "upload" /\ job'.content = local
  BY <1>1 DEF BeginsUpload, Goes, Job
<1>3. req' \in Request /\ req' # None /\ req'.for = p /\ req'.at = "send"
  BY Asked DEF BeginsUpload, Goes, Purpose
<1>4. local \in Content BY DEF BeginsUpload, TransferTypeOK
<1>5. JobsRequest' BY <1>1, <1>2, <1>3 DEF JobsRequest
<1>6. JobReady' BY <1>2, <1>3, <1>4 DEF JobReady, Answered, Content
<1>7. SuccessIsReal' BY <1>2, <1>3 DEF SuccessIsReal, Answered
<1>8. RowsAreReal' BY DEF BeginsUpload, RowsAreReal
<1> QED BY <1>5, <1>6, <1>7, <1>8

\* A chunk is sent, or Drive is asked how far it has come: the session and the
\* content stay the same.
LEMMA ChunkKeeps ==
    ASSUME Facts, Rest, AsksHowFar \/ \E o \in Nat : SendsChunk(o)
    PROVE  JobInv'
<1> USE DEF Facts, JobInv, Rest
<1>1. job \in Job /\ job # None /\ job' # None BY MoveJob DEF JobGoesOn
<1>2. job'.content = job.content BY <1>1 DEF AsksHowFar, SendsChunk, Goes, Job
<1>3. <<job'.at, req'.for>> \in {<<"chunks", "chunk">>, <<"query", "query">>} /\ req' \in Request
  <2>1. CASE AsksHowFar
    <3>1. job'.at = "query" BY <1>1, <2>1 DEF AsksHowFar, Goes, Job
    <3>2. req' \in Request /\ req'.for = "query" BY <2>1, Asked DEF AsksHowFar, Goes, Purpose
    <3> QED BY <3>1, <3>2
  <2>2. ASSUME NEW o \in Nat, SendsChunk(o)
        PROVE  job'.at = "chunks" /\ req' \in Request /\ req'.for = "chunk"
    <3>1. job'.at = "chunks" BY <1>1, <2>2 DEF SendsChunk, Goes, Job
    <3>2. req' \in Request /\ req'.for = "chunk" BY <2>2, Asked DEF SendsChunk, Goes, Purpose
    <3> QED BY <3>1, <3>2
  <2> QED BY <2>1, <2>2
<1>4. \/ job.at = "upload" /\ Answered("start")
      \/ job.at \in {"chunks", "query"}
  BY DEF AsksHowFar, SendsChunk
<1>5. job.content \in Content /\ session \in Session BY <1>1, <1>4 DEF JobReady
<1>6. session.complete => job.content \in uploaded
  BY <1>1, <1>4 DEF JobReady, SuccessIsReal
<1>7. job'.at \in {"chunks", "query"} BY <1>3
<1>8. JobsRequest' BY <1>1, <1>3 DEF JobsRequest
<1>9. JobReady' BY <1>2, <1>5, <1>7 DEF JobReady, Content, Session
<1>10. SuccessIsReal' BY <1>2, <1>6, <1>7 DEF SuccessIsReal
<1>11. RowsAreReal' BY DEF AsksHowFar, SendsChunk, RowsAreReal
<1> QED BY <1>8, <1>9, <1>10, <1>11

\* Requests that neither upload nor make anything.
LEMMA AskKeeps == ASSUME Facts, Rest, BeginsCheck \/ GoesToFetch \/ Trashes PROVE JobInv'
<1> USE DEF Facts, JobInv, Rest
<1>1. job \in Job /\ job # None /\ job' # None BY MoveJob DEF JobGoesOn
<1>2. <<job'.at, req'.for>> \in {<<"check", "read">>, <<"fetch", "fetch">>, <<"trash", "trash">>}
      /\ req' \in Request
  <2>1. CASE BeginsCheck
    <3>1. job'.at = "check" BY <1>1, <2>1 DEF BeginsCheck, Goes, Job
    <3>2. req' \in Request /\ req'.for = "read" BY <2>1, Asked DEF BeginsCheck, Goes, Purpose
    <3> QED BY <3>1, <3>2
  <2>2. CASE GoesToFetch
    <3>1. job'.at = "fetch" BY <1>1, <2>2 DEF GoesToFetch, Goes, Job
    <3>2. req' \in Request /\ req'.for = "fetch" BY <2>2, Asked DEF GoesToFetch, Goes, Purpose
    <3> QED BY <3>1, <3>2
  <2>3. CASE Trashes
    <3>1. job'.at = "trash" BY <1>1, <2>3 DEF Trashes, Goes, Job
    <3>2. req' \in Request /\ req'.for = "trash" BY <2>3, Asked DEF Trashes, Goes, Purpose
    <3> QED BY <3>1, <3>2
  <2> QED BY <2>1, <2>2, <2>3
<1>3. JobsRequest' BY <1>1, <1>2 DEF JobsRequest
<1>4. job'.at \in {"check", "fetch", "trash"} BY <1>2
<1>5. JobReady' /\ SuccessIsReal' BY <1>4 DEF JobReady, SuccessIsReal
<1>6. RowsAreReal' BY DEF BeginsCheck, GoesToFetch, Trashes, RowsAreReal
<1> QED BY <1>3, <1>5, <1>6

\* A download that has its content, and one that has placed it.
LEMMA PlaceKeeps == ASSUME Facts, Rest, HasContent \/ Places PROVE JobInv'
<1> USE DEF Facts, JobInv, Rest
<1>1. job \in Job /\ job # None /\ job' # None BY MoveJob DEF JobGoesOn
<1>2. job'.at \in {"place", "record"} BY <1>1 DEF HasContent, Places, Job
<1>3. req' = None
  <2>1. CASE HasContent BY <2>1 DEF HasContent
  <2>2. CASE Places BY <1>1, <2>2 DEF Places, JobsRequest
  <2> QED BY <2>1, <2>2
<1>4. JobsRequest' BY <1>1, <1>2, <1>3 DEF JobsRequest
<1>5. JobReady' /\ SuccessIsReal' BY <1>2 DEF JobReady, SuccessIsReal
<1>6. RowsAreReal' BY DEF HasContent, Places, RowsAreReal
<1> QED BY <1>4, <1>5, <1>6

\* The two steps of a photo's backup.
LEMMA PhotoKeeps == ASSUME Facts, Rest, SendsPhoto \/ MakesItem PROVE JobInv'
<1> USE DEF Facts, JobInv, Rest
<1>1. job \in Job /\ job # None /\ job' # None BY MoveJob DEF JobGoesOn
<1>2. RowsAreReal' BY DEF SendsPhoto, MakesItem, RowsAreReal
<1>3. CASE SendsPhoto
  <2>1. job'.at = "bytes" /\ job'.content = local BY <1>1, <1>3 DEF SendsPhoto, Goes, Job
  <2>2. req' \in Request /\ req'.for = "bytes" BY <1>3, Asked DEF SendsPhoto, Goes, Purpose
  <2>3. JobsRequest' BY <1>1, <2>1, <2>2 DEF JobsRequest
  <2>4. local \in Content BY <1>3 DEF SendsPhoto, TransferTypeOK
  <2>5. JobReady' /\ SuccessIsReal' BY <2>1, <2>4 DEF JobReady, SuccessIsReal, Content
  <2> QED BY <1>2, <2>3, <2>5
<1>4. CASE MakesItem
  <2>1. job'.at = "create" /\ job'.content = job.content /\ job.at = "bytes"
    BY <1>1, <1>4 DEF MakesItem, Goes, Job
  <2>2. req' \in Request /\ req'.for = "create" BY <1>4, Asked DEF MakesItem, Goes, Purpose
  <2>3. JobsRequest' BY <1>1, <2>1, <2>2 DEF JobsRequest
  <2>4. job.content \in Content BY <1>1, <2>1 DEF JobReady
  <2>5. JobReady' /\ SuccessIsReal' BY <2>1, <2>4 DEF JobReady, SuccessIsReal, Content
  <2> QED BY <1>2, <2>3, <2>5
<1> QED BY <1>3, <1>4

\* A step of a job keeps what jobs rely on.
LEMMA JobKeeps == ASSUME Facts, JobNext PROVE JobInv'
<1>1. UNCHANGED uploaded BY JobSteps DEF JobFrame, Others
<1>2. ASSUME NEW k \in Kind, StartJob(k) PROVE JobInv'
  <2>1. job' \in Job /\ job'.at = "begin"
    BY <1>2, TransferConstants DEF StartJob, Job, Row, Facts, TransferTypeOK
  <2>2. req = None /\ UNCHANGED <<rows, req>> BY <1>2 DEF StartJob
  <2>3. JobsRequest' BY <2>1, <2>2, NoneIsNoJob DEF JobsRequest
  <2>4. JobReady' /\ SuccessIsReal' BY <2>1, <2>2 DEF JobReady, SuccessIsReal
  <2>5. RowsAreReal' BY <1>1, <2>2 DEF RowsAreReal, Facts, JobInv
  <2> QED BY <2>3, <2>4, <2>5 DEF JobInv
<1>3. CASE JobMove /\ Sessions
  <2>1. Rest BY <1>1, <1>3 DEF Rest, Sessions
  <2> QED BY <1>3, <2>1, EndKeeps, BeginKeeps, ChunkKeeps, AskKeeps, PlaceKeeps, PhotoKeeps
          DEF JobMove, JobGoesOn
<1> QED BY <1>2, <1>3, JobMoves DEF Facts, JobInv

-----------------------------------------------------------------------------
\* Jobs: what Drive, refreshes, users and restarts do to them.

\* A sending keeps what jobs rely on, whatever Drive does and answers.
LEMMA DriveKeeps ==
    ASSUME Facts, Sending, DriveStep, UNCHANGED <<job, todo, asked, fileVars>>
    PROVE  JobInv'
<1> USE DEF Facts, JobInv, fileVars
<1>1. req \in Request /\ req # None /\ req' \in Request /\ req'.for = req.for
  BY RequestGoesOn
<1>2. job # None /\ job \in Job BY <1>1 DEF JobsRequest, TransferTypeOK
<1>3. JobsRequest' BY <1>1, <1>2 DEF JobsRequest
<1>4. ASSUME UNCHANGED <<uploaded, session>>,
             req'.at # "ok" \/ req.for \in {"read", "fetch", "trash", "bytes", "query"}
      PROVE  JobInv'
  <2>1. ~Answered("multipart")' /\ ~Answered("start")'
    BY <1>1, <1>4 DEF Answered
  <2>2. JobReady' /\ SuccessIsReal' BY <1>4, <2>1 DEF JobReady, SuccessIsReal, Content, Session
  <2> QED BY <1>3, <1>4, <2>2 DEF RowsAreReal
<1>5. CASE req.for \in {"multipart", "create"} /\ Creates(job.content)
           /\ UNCHANGED <<remote, session>>
  <2>1. /\ req.for = "multipart" => job.at = "upload"
        /\ req.for = "create" => job.at = "create"
    BY <1>1, <1>2 DEF JobsRequest
  <2>2. job.content \in Content BY <1>2, <1>5, <2>1 DEF JobReady
  <2>3. job.content \in uploaded' /\ uploaded \subseteq uploaded' BY <1>5 DEF Creates
  <2>4. JobReady' BY <1>1, <1>2, <1>5, <2>1, <2>2 DEF JobReady, Answered, Content
  <2>5. SuccessIsReal' BY <1>5, <2>1, <2>3 DEF SuccessIsReal
  <2>6. RowsAreReal' BY <2>3 DEF RowsAreReal
  <2> QED BY <1>3, <2>4, <2>5, <2>6
<1>6. CASE req.for = "start" /\ session' = [got |-> 0, complete |-> FALSE]
           /\ UNCHANGED <<remote, uploaded, created, lost>>
  <2>1. job.at = "upload" BY <1>1, <1>2, <1>6 DEF JobsRequest
  <2>2. session' \in Session /\ ~session'.complete BY <1>6, TransferConstants DEF Session
  <2>3. ~Answered("multipart")' BY <1>1, <1>6 DEF Answered
  <2>4. JobReady' BY <1>2, <2>1, <2>2 DEF JobReady, Content, Session
  <2>5. SuccessIsReal' BY <2>1, <2>3 DEF SuccessIsReal
  <2> QED BY <1>3, <1>6, <2>4, <2>5 DEF RowsAreReal
<1>7. ASSUME req.for = "chunk",
             NEW end \in {ChunkEnd(job.offset)} \cup (session.got..(ChunkEnd(job.offset) - 1)),
             Persists(end)
      PROVE  JobInv'
  <2>1. job.at = "chunks" BY <1>1, <1>2, <1>7 DEF JobsRequest
  <2>2. job.content \in Content /\ session \in Session BY <1>2, <2>1 DEF JobReady
  <2>3. ChunkEnd(job.offset) \in 0..FILE_LEN BY <1>2, ChunkEnds DEF Job
  <2>4. end \in 0..FILE_LEN BY <2>2, <2>3, TransferConstants DEF Session
  <2>5. /\ session' \in Session
        /\ \/ ~session.complete /\ session'.complete /\ Creates(job.content)
           \/ session'.complete = session.complete /\ UNCHANGED <<uploaded, created, lost>>
    BY <1>7, <2>2, <2>4, Persisted
  <2>6. JobReady' BY <2>1, <2>2, <2>5 DEF JobReady, Content, Session
  <2>7. CASE Creates(job.content)
    <3>1. job.content \in uploaded' /\ uploaded \subseteq uploaded' BY <2>7 DEF Creates
    <3> QED BY <1>3, <2>1, <2>6, <3>1 DEF SuccessIsReal, RowsAreReal
  <2>8. CASE session'.complete = session.complete /\ UNCHANGED uploaded
    <3>1. SuccessIsReal' BY <1>2, <2>1, <2>8 DEF SuccessIsReal
    <3> QED BY <1>3, <2>6, <2>8, <3>1 DEF RowsAreReal
  <2> QED BY <2>5, <2>7, <2>8
<1> QED BY <1>4, <1>5, <1>6, <1>7 DEF DriveStep, DriveDoes, Untouched

\* Steps that leave the job, its rows and Drive alone, the request's refresh
\* included.
LEMMA AsideKeeps ==
    ASSUME Facts, UNCHANGED <<job, rows, session, uploaded>>, UNCHANGED req \/ RefreshEnds
    PROVE  JobInv'
<1> USE DEF Facts, JobInv
<1>1. CASE UNCHANGED req
  BY <1>1 DEF JobsRequest, JobReady, SuccessIsReal, RowsAreReal, Answered, Content, Session
<1>2. CASE RefreshEnds
  <2>1. req \in Request /\ req # None /\ req' \in Request /\ req'.for = req.for
    BY <1>2, RequestGoesOn
  <2>2. req'.at # "ok" BY <1>2, <2>1 DEF RefreshEnds, InRequest, Request
  <2>3. ~Answered("multipart")' /\ ~Answered("start")' BY <2>2 DEF Answered
  <2>4. JobsRequest' BY <2>1 DEF JobsRequest
  <2>5. JobReady' /\ SuccessIsReal' BY <2>3 DEF JobReady, SuccessIsReal, Content, Session
  <2> QED BY <2>4, <2>5 DEF RowsAreReal
<1> QED BY <1>1, <1>2

\* Every step keeps what jobs rely on.
LEMMA JobStep == ASSUME Facts, TransferNext PROVE JobInv'
<1>1. CASE JobNext BY <1>1, JobKeeps
<1>2. CASE Requests
  <2>1. AttemptFrame /\ DriveStep /\ UNCHANGED <<job, todo, asked, fileVars>>
    BY <1>2, RequestSteps DEF Facts, RequestTypeOK
  <2>2. Sending BY <2>1 DEF AttemptFrame, Sending
  <2> QED BY <2>1, <2>2, DriveKeeps
<1>3. CASE EngineRefreshes
  BY <1>3, RefreshesRequest, AsideKeeps DEF fileVars, driveVars
<1>4. CASE BuildNext \/ StoreNext
  <2>1. UNCHANGED <<job, rows, session, uploaded, req>>
    BY <1>4 DEF BuildNext, StoreNext, Beside, jobVars, fileVars, driveVars
  <2> QED BY <2>1, AsideKeeps
<1>5. CASE TransferRestart
  <2>1. job' = None /\ req' = None /\ UNCHANGED <<rows, uploaded>>
    BY <1>5 DEF TransferRestart, fileVars
  <2>2. JobsRequest' /\ JobReady' /\ SuccessIsReal'
    BY <2>1 DEF JobsRequest, JobReady, SuccessIsReal
  <2>3. RowsAreReal' BY <2>1 DEF RowsAreReal, Facts, JobInv
  <2> QED BY <2>2, <2>3 DEF JobInv
<1>6. CASE EnvironmentNext
  <2>1. UNCHANGED <<req, job, uploaded, session>> BY <1>6, EnvironmentFrame
  <2>2. UNCHANGED rows BY <1>6 DEF EnvironmentNext, UserEdits, UserDeletes, EditOnDrive, Poll
  <2> QED BY <2>1, <2>2, AsideKeeps
<1> QED BY StepKinds, <1>1, <1>2, <1>3, <1>4, <1>5, <1>6

-----------------------------------------------------------------------------
\* Tasks and the files made for them.

\* The counts of one kind of task.
LEMMA Counts ==
    ASSUME TransferTypeOK, NEW k \in Kind
    PROVE  created[k] \in Nat /\ todo[k] \in Nat /\ asked[k] \in Nat /\ lost[k] \in Nat
BY DEF TransferTypeOK

\* A job that goes on keeps its task and has made nothing it should have noted.
LEMMA GoesOnUnmade == ASSUME JobsRequest, JobGoesOn PROVE ~JobMade /\ UNCHANGED todo
<1>1. ASSUME NEW p \in {"multipart", "start"}, BeginsUpload(p) PROVE ~JobMade /\ UNCHANGED todo
  BY <1>1, NotMade DEF BeginsUpload, Goes
<1>2. ASSUME NEW o \in Nat, SendsChunk(o) PROVE ~JobMade /\ UNCHANGED todo
  <2>1. Answered("start") => ~JobMade BY DEF Answered, JobMade
  <2> QED BY <1>2, <2>1 DEF SendsChunk, Goes
<1>3. CASE BeginsCheck \/ GoesToFetch \/ Trashes \/ SendsPhoto \/ MakesItem
  BY <1>3, NotMade DEF BeginsCheck, GoesToFetch, Trashes, SendsPhoto, MakesItem, Goes
<1>4. CASE AsksHowFar BY <1>4 DEF AsksHowFar, Goes
<1>5. CASE HasContent \/ Places BY <1>5, NotMade DEF HasContent, Places
<1> QED BY <1>1, <1>2, <1>3, <1>4, <1>5 DEF JobGoesOn

\* A step after which no job has made anything it has not noted, and before
\* which none had, changes nothing of the balance.
LEMMA BalanceKept ==
    ASSUME TransferTypeOK, CopiesCounted, job # None => ~JobMade,
           UNCHANGED <<todo, asked, created, lost>>
    PROVE  CopiesCounted'
<1> SUFFICES ASSUME NEW k \in Kind
             PROVE  created[k] + todo[k]
                      <= asked[k] + lost[k]
                         + (IF job # None /\ job.kind = k /\ JobMade THEN 1 ELSE 0)'
  BY DEF CopiesCounted, Kind
<1>1. created[k] + todo[k] <= asked[k] + lost[k] BY Counts DEF CopiesCounted
<1> QED BY <1>1, Counts

\* The task of a job that ends, or dies in a crash, is out of the queue or has
\* made nothing.
LEMMA EndTasks ==
    ASSUME Facts, job # None, job' = None, UNCHANGED <<asked, created, lost>>,
           todo' = [todo EXCEPT ![job.kind] = @ - 1] \/ (~JobMade /\ UNCHANGED todo)
    PROVE  TaskInv'
<1> USE DEF Facts, TaskInv
<1>1. job # None /\ job' = None OBVIOUS
<1>2. TasksRun' BY <1>1 DEF TasksRun
<1>3. CASE ~JobMade /\ UNCHANGED todo BY <1>2, <1>3, BalanceKept
<1>4. CASE todo' = [todo EXCEPT ![job.kind] = @ - 1]
  <2>1. job.kind \in Kind BY <1>1 DEF TransferTypeOK, Job
  <2> SUFFICES ASSUME NEW k \in Kind
               PROVE  created[k] + todo'[k] <= asked[k] + lost[k]
    <3>1. ASSUME \A k \in Kind : created[k] + todo'[k] <= asked[k] + lost[k]
          PROVE  CopiesCounted'
      <4> SUFFICES ASSUME NEW k \in Kind
                   PROVE  created'[k] + todo'[k]
                            <= asked'[k] + lost'[k]
                               + (IF job' # None /\ job'.kind = k /\ JobMade' THEN 1 ELSE 0)
        BY DEF CopiesCounted, Kind
      <4> QED BY <1>1, <3>1, Counts
    <3> QED BY <1>2, <3>1
  <2>2. CASE k = job.kind
    <3>1. todo'[k] = todo[k] - 1 BY <1>4, <2>1, <2>2 DEF TransferTypeOK
    <3>2. created[k] + todo[k] <= asked[k] + lost[k] + 1 BY Counts DEF CopiesCounted
    <3> QED BY <3>1, <3>2, Counts
  <2>3. CASE k # job.kind
    <3>1. todo'[k] = todo[k] BY <1>4, <2>1, <2>3 DEF TransferTypeOK
    <3>2. created[k] + todo[k] <= asked[k] + lost[k] BY <2>3, Counts DEF CopiesCounted
    <3> QED BY <3>1, <3>2
  <2> QED BY <2>2, <2>3
<1> QED BY <1>3, <1>4

\* A step of a job keeps the balance of its tasks.
LEMMA JobTasks == ASSUME Facts, JobNext PROVE TaskInv'
<1> USE DEF Facts, TaskInv
<1>1. UNCHANGED asked BY JobSteps DEF JobFrame, Others
<1>2. ASSUME NEW k \in Kind, StartJob(k) PROVE TaskInv'
  <2>1. job = None /\ job'.kind = k /\ todo[k] > 0 /\ UNCHANGED <<todo, created, lost>>
    BY <1>2 DEF StartJob
  <2> QED BY <1>1, <2>1, BalanceKept DEF TasksRun
<1>3. CASE JobMove /\ Sessions
  <2>1. UNCHANGED <<created, lost>> BY <1>3 DEF Sessions
  <2>2. CASE JobEnds BY <1>1, <2>1, <2>2, EndTasks DEF JobEnds
  <2>3. CASE JobGoesOn
    <3>1. ~JobMade /\ UNCHANGED todo BY <2>3, GoesOnUnmade DEF JobInv
    <3>2. job # None /\ job'.kind = job.kind BY <2>3, MoveJob
    <3>3. TasksRun' BY <3>1, <3>2 DEF TasksRun
    <3> QED BY <1>1, <2>1, <3>1, <3>3, BalanceKept
  <2> QED BY <1>3, <2>2, <2>3 DEF JobMove
<1> QED BY <1>2, <1>3, JobMoves DEF JobInv

\* Where Drive makes a file, its answer reaches the job or is counted as lost.
LEMMA MadeCounted ==
    ASSUME Facts, job # None, ~JobMade, UNCHANGED <<job, todo, asked>>, Creates(job.content),
           req'.at = "ok" => JobMade'
    PROVE  CopiesCounted'
<1> USE DEF Facts, TaskInv
<1>1. job.kind \in Kind BY DEF TransferTypeOK, Job
<1> SUFFICES ASSUME NEW k \in Kind
             PROVE  created'[k] + todo[k]
                      <= asked[k] + lost'[k]
                         + (IF job # None /\ job.kind = k /\ JobMade' THEN 1 ELSE 0)
  BY DEF CopiesCounted, Kind
<1>2. created[k] + todo[k] <= asked[k] + lost[k] BY Counts DEF CopiesCounted
<1>3. CASE k # job.kind
  <2>1. created'[k] = created[k] BY <1>1, <1>3 DEF Creates, TransferTypeOK
  <2>2. lost'[k] = lost[k] BY <1>1, <1>3 DEF Creates, CountLost, TransferTypeOK
  <2> QED BY <1>2, <2>1, <2>2, <1>3, Counts
<1>4. CASE k = job.kind
  <2>1. created'[k] = created[k] + 1 BY <1>1, <1>4 DEF Creates, TransferTypeOK
  <2>2. CASE req'.at = "ok"
    <3>1. lost'[k] = lost[k] BY <2>2 DEF Creates, CountLost
    <3> QED BY <1>2, <1>4, <2>1, <2>2, <3>1, Counts
  <2>3. CASE req'.at # "ok"
    <3>1. lost'[k] = lost[k] + 1 BY <1>1, <1>4, <2>3 DEF Creates, CountLost, TransferTypeOK
    <3> QED BY <1>2, <1>4, <2>1, <3>1, Counts
  <2> QED BY <2>2, <2>3
<1> QED BY <1>3, <1>4

\* A sending keeps the balance.
LEMMA DriveTasks ==
    ASSUME Facts, Sending, DriveStep, UNCHANGED <<job, todo, asked, fileVars>>
    PROVE  TaskInv'
<1> USE DEF Facts, TaskInv
<1>1. req \in Request /\ req # None /\ req' \in Request /\ req'.for = req.for
  BY RequestGoesOn
<1>2. req.at = "send" BY DEF Sending, Accepted, Unauthorized, Busy, Refused, InRequest
<1>3. job # None /\ job \in Job BY <1>1 DEF JobInv, JobsRequest, TransferTypeOK
<1>4. ~JobMade BY <1>2 DEF JobMade, Answered
<1>5. TasksRun' BY DEF TasksRun
<1>6. CASE UNCHANGED <<created, lost>> BY <1>4, <1>5, <1>6, BalanceKept
<1>7. CASE req.for \in {"multipart", "create"} /\ Creates(job.content)
  <2>1. req'.at = "ok" => JobMade'
    BY <1>1, <1>7, NoneIsNoRequest DEF JobMade, Answered
  <2> QED BY <1>3, <1>4, <1>5, <1>7, <2>1, MadeCounted
<1>8. ASSUME req.for = "chunk",
             NEW end \in {ChunkEnd(job.offset)} \cup (session.got..(ChunkEnd(job.offset) - 1)),
             Persists(end)
      PROVE  TaskInv'
  <2>1. job.at = "chunks" BY <1>1, <1>3, <1>8 DEF JobInv, JobsRequest
  <2>2. session \in Session BY <1>3, <2>1 DEF JobInv, JobReady
  <2>3. ChunkEnd(job.offset) \in 0..FILE_LEN BY <1>3, ChunkEnds DEF Job
  <2>4. end \in 0..FILE_LEN BY <2>2, <2>3, TransferConstants DEF Session
  <2>5. \/ session'.complete /\ Creates(job.content)
        \/ UNCHANGED <<created, lost>>
    BY <1>8, <2>2, <2>4, Persisted
  <2>6. CASE session'.complete /\ Creates(job.content)
    <3>1. req'.at = "ok" => JobMade'
      BY <1>1, <1>8, <2>6, NoneIsNoRequest DEF JobMade, Answered
    <3> QED BY <1>3, <1>4, <1>5, <2>6, <3>1, MadeCounted
  <2> QED BY <1>6, <2>5, <2>6
<1> QED BY <1>6, <1>7, <1>8 DEF DriveStep, DriveDoes, Untouched

\* Steps beside the job keep the balance.
LEMMA AsideTasks ==
    ASSUME Facts, UNCHANGED <<job, todo, asked, session, created, lost>>,
           UNCHANGED req \/ RefreshEnds
    PROVE  TaskInv'
<1> USE DEF Facts, TaskInv
<1>1. TasksRun' BY DEF TasksRun
<1>2. CASE UNCHANGED req
  <2>1. JobMade' = JobMade BY <1>2 DEF JobMade, Answered
  <2> QED BY <1>1, <2>1 DEF CopiesCounted, Kind
<1>3. CASE RefreshEnds
  <2>1. ~JobMade BY <1>3 DEF RefreshEnds, InRequest, JobMade, Answered
  <2> QED BY <1>1, <1>3, <2>1, BalanceKept
<1> QED BY <1>2, <1>3

\* A task that is enqueued may have its file.
LEMMA EnqueueTasks ==
    ASSUME Facts, NEW k \in Kind, enqueue(k), UNCHANGED <<job, req, session, created, lost>>
    PROVE  TaskInv'
<1> USE DEF Facts, TaskInv
<1>1. /\ todo'[k] = todo[k] + 1 /\ asked'[k] = asked[k] + 1
      /\ \A i \in Kind \ {k} : todo'[i] = todo[i] /\ asked'[i] = asked[i]
  BY DEF enqueue, TransferTypeOK
<1>2. TasksRun'
  <2>1. \A i \in Kind : todo'[i] >= todo[i] BY <1>1, Counts
  <2>2. ASSUME job # None PROVE todo'[job.kind] > 0
    <3>1. job.kind \in Kind BY <2>2 DEF TransferTypeOK, Job
    <3>2. todo'[job.kind] \in Nat BY <1>1, <3>1, Counts
    <3> QED BY <2>1, <2>2, <3>1, <3>2, Counts DEF TasksRun
  <2> QED BY <2>2 DEF TasksRun
<1>3. JobMade' = JobMade BY DEF JobMade, Answered
<1>4. CopiesCounted'
  <2> SUFFICES ASSUME NEW i \in Kind
               PROVE  created[i] + todo'[i]
                        <= asked'[i] + lost[i]
                           + (IF job # None /\ job.kind = i /\ JobMade THEN 1 ELSE 0)
    BY <1>3 DEF CopiesCounted, Kind
  <2>1. created[i] + todo[i]
          <= asked[i] + lost[i] + (IF job # None /\ job.kind = i /\ JobMade THEN 1 ELSE 0)
    BY DEF CopiesCounted
  <2>2. CASE i = k BY <1>1, <2>1, <2>2, Counts
  <2>3. CASE i # k BY <1>1, <2>1, <2>3
  <2> QED BY <2>2, <2>3
<1> QED BY <1>2, <1>4

\* Every step keeps the balance of tasks and files.
LEMMA TaskStep == ASSUME Facts, TransferNext PROVE TaskInv'
<1>1. CASE JobNext BY <1>1, JobTasks
<1>2. CASE Requests
  <2>1. AttemptFrame /\ DriveStep /\ UNCHANGED <<job, todo, asked, fileVars>>
    BY <1>2, RequestSteps DEF Facts, RequestTypeOK
  <2>2. Sending BY <2>1 DEF AttemptFrame, Sending
  <2> QED BY <2>1, <2>2, DriveTasks
<1>3. CASE EngineRefreshes BY <1>3, RefreshesRequest, AsideTasks DEF driveVars
<1>4. CASE BuildNext \/ StoreNext
  <2>1. UNCHANGED <<job, todo, asked, session, created, lost, req>>
    BY <1>4 DEF BuildNext, StoreNext, Beside, jobVars, driveVars
  <2> QED BY <2>1, AsideTasks
<1>5. CASE TransferRestart
  <2>1. job' = None /\ UNCHANGED <<asked, created, lost>> BY <1>5 DEF TransferRestart
  <2>2. CASE job # None
    <3>1. job.at \in {"begin", "check"} => ~JobMade BY <2>2, NotMade DEF Facts, JobInv
    <3>2. \/ todo' = [todo EXCEPT ![job.kind] = @ - 1]
          \/ ~JobMade /\ UNCHANGED todo
      BY <1>5, <2>2, <3>1 DEF TransferRestart
    <3> QED BY <2>1, <2>2, <3>2, EndTasks
  <2>3. CASE job = None
    <3>1. UNCHANGED todo BY <1>5, <2>3 DEF TransferRestart
    <3>2. TasksRun' BY <2>1 DEF TasksRun
    <3> QED BY <2>1, <2>3, <3>1, <3>2, BalanceKept DEF Facts, TaskInv
  <2> QED BY <2>2, <2>3
<1>6. CASE EnvironmentNext
  <2>1. UNCHANGED <<job, req, session, created, lost>> BY <1>6, EnvironmentFrame
  <2>2. (\E k \in Kind : enqueue(k)) \/ UNCHANGED <<todo, asked>>
    BY <1>6 DEF EnvironmentNext, UserEdits, UserDeletes, EditOnDrive, Poll, Kind
  <2> QED BY <2>1, <2>2, EnqueueTasks, AsideTasks
<1> QED BY StepKinds, <1>1, <1>2, <1>3, <1>4, <1>5, <1>6

-----------------------------------------------------------------------------
\* The theorems.

\* The invariant holds when the daemon starts.
LEMMA InitInv == ASSUME TransferInit PROVE TransferInv
<1> USE TokenConstants, RetryConstant, TransferConstants DEF TransferInit, TokenInit, RequestInit
<1>1. TokenTypeOK
  <2>1. 1 \in Token /\ 1 \in 0..MaxIssued BY DEF Token
  <2>2. cache \in TokenSet BY <2>1 DEF TokenSet
  <2>3. account \in BOOLEAN /\ spoilt \in BOOLEAN OBVIOUS
  <2>4. keyring \in Token /\ grants \subseteq Token /\ live \subseteq Token BY <2>1
  <2>5. issued \in 0..MaxIssued BY <2>1
  <2>6. ops \in 0..MaxOps /\ faults \in 0..MaxFaults BY Bounds
  <2> QED BY <2>2, <2>3, <2>4, <2>5, <2>6 DEF TokenTypeOK
<1>2. RequestTypeOK /\ SendsCounted BY DEF RequestTypeOK, SendsCounted
<1>3. TransferTypeOK
  <2>1. 1 \in Content BY DEF Content
  <2>2. row \in Row BY <2>1 DEF Row
  <2> QED BY <2>1, <2>2 DEF TransferTypeOK
<1>4. KeyringInv
  BY Bounds DEF KeyringInv, TokensIssued, LoginApart, HeldGranted, KeyringUsable, LoginHolds,
     RefreshHolds
<1>5. RefreshAlone BY DEF RefreshAlone
<1>6. JobInv BY DEF JobInv, JobsRequest, JobReady, SuccessIsReal, RowsAreReal
<1>7. TaskInv BY DEF TaskInv, TasksRun, CopiesCounted
<1> QED BY <1>1, <1>2, <1>3, <1>4, <1>5, <1>6, <1>7 DEF TransferInv, ClientTypeOK

\* Every step keeps the invariant.
LEMMA NextInv == ASSUME TransferInv, [TransferNext]_transferVars PROVE TransferInv'
<1> USE DEF TransferInv
<1>1. CASE TransferNext
  <2> USE <1>1
  <2>1. TokenTypeOK /\ RequestTypeOK /\ TransferTypeOK BY DEF ClientTypeOK
  <2>2. JobsRequest /\ JobReady /\ TasksRun BY DEF JobInv, TaskInv
  <2>3. TokenStep BY <2>1, <2>2, TokenSteps
  <2>4. RequestStep BY <2>1, RequestKinds
  <2>5. TokenTypeOK' BY <2>1, <2>3, TokenTypes
  <2>6. KeyringInv' BY <2>1, <2>3, TokenKeyring
  <2>7. RequestTypeOK' /\ SendsCounted' BY <2>1, <2>4, RequestCounted
  <2>8. TransferTypeOK' BY <2>1, <2>2, TransferTypes
  <2>9. RefreshAlone' BY <2>1, <2>2, RefreshAloneStep
  <2>10. JobInv' BY <2>1, JobStep DEF Facts
  <2>11. TaskInv' BY <2>1, TaskStep DEF Facts
  <2> QED BY <2>5, <2>6, <2>7, <2>8, <2>9, <2>10, <2>11 DEF ClientTypeOK
<1>2. CASE UNCHANGED transferVars
  <2> USE <1>2 DEF transferVars, tokenVars, google, jobVars, fileVars, driveVars
  <2>1. ClientTypeOK' BY DEF ClientTypeOK, TokenTypeOK, RequestTypeOK, TransferTypeOK
  <2>2. SendsCounted' BY DEF SendsCounted
  <2>3. KeyringInv'
    BY DEF KeyringInv, TokensIssued, LoginApart, HeldGranted, KeyringUsable, LoginHolds,
       RefreshHolds, Refreshing
  <2>4. RefreshAlone' BY DEF RefreshAlone
  <2>5. JobInv' BY AsideKeeps DEF Facts, ClientTypeOK
  <2>6. TaskInv' BY AsideTasks DEF Facts, ClientTypeOK
  <2> QED BY <2>1, <2>2, <2>3, <2>4, <2>5, <2>6
<1> QED BY <1>1, <1>2

\* The invariant that the others follow from.
THEOREM TransferInvariant == TransferSpec => []TransferInv
BY InitInv, NextInv, PTL DEF TransferSpec

\* The variables of the token store, of the request and of the transfers keep
\* their types.
THEOREM ClientTypeCorrect == TransferSpec => []ClientTypeOK
<1>1. TransferInv => ClientTypeOK BY DEF TransferInv
<1> QED BY <1>1, TransferInvariant, PTL

\* The loop of every execute function ends: a request is sent at most once per
\* attempt and once more after its only refresh, whatever Drive answers.
THEOREM AttemptsAreBounded == TransferSpec => []AttemptsBounded
<1>1. TransferInv => AttemptsBounded
  <2> SUFFICES ASSUME TransferInv, req # None PROVE sends <= 2 + MaxRetries
    BY DEF AttemptsBounded
  <2>1. req \in Request /\ sends \in Nat BY DEF TransferInv, ClientTypeOK, RequestTypeOK
  <2>2. req.attempt \in 0..MaxRetries /\ req.at \in {"send", "refresh", "ok", "err"}
    BY <2>1 DEF Request
  <2>3. sends <= req.attempt + 2 BY <2>1, <2>2, RetryConstant DEF TransferInv, SendsCounted
  <2> QED BY <2>1, <2>2, <2>3, RetryConstant
<1> QED BY <1>1, TransferInvariant, PTL

\* Through logins, rotations, disconnects and refreshes that race them, the
\* refresh token in the keyring is one that Google accepts, unless it was
\* revoked or its successor got lost.
THEOREM KeyringStaysUsable == TransferSpec => []KeyringUsable
<1>1. TransferInv => KeyringUsable BY DEF TransferInv, KeyringInv
<1> QED BY <1>1, TransferInvariant, PTL

\* Rows written after uploads are of files that are on Drive, for every length
\* of the file and of its chunks.
THEOREM RowsStayReal == TransferSpec => []RowsAreReal
<1>1. TransferInv => RowsAreReal BY DEF TransferInv, JobInv
<1> QED BY <1>1, TransferInvariant, PTL

\* Over the whole run and for every kind of task, the files made on Drive are at
\* most the tasks enqueued and the answers lost after Drive had made a file: no
\* retry, no failed run and no restart makes a file of a task again.
THEOREM CopiesAreNeeded == TransferSpec => []NoNeedlessCopy
<1>1. TransferInv => NoNeedlessCopy
  <2> SUFFICES ASSUME TransferInv, NEW k \in Kind PROVE created[k] <= asked[k] + lost[k]
    BY DEF NoNeedlessCopy
  <2>1. created[k] \in Nat /\ todo[k] \in Nat /\ asked[k] \in Nat /\ lost[k] \in Nat
    BY DEF TransferInv, ClientTypeOK, TransferTypeOK
  <2>2. CASE job # None /\ job.kind = k
    <3>1. todo[k] > 0 BY <2>2 DEF TransferInv, TaskInv, TasksRun
    <3>2. created[k] + todo[k] <= asked[k] + lost[k] + 1
      BY <2>1, <2>2 DEF TransferInv, TaskInv, CopiesCounted
    <3> QED BY <2>1, <3>1, <3>2
  <2>3. CASE ~(job # None /\ job.kind = k)
    <3>1. created[k] + todo[k] <= asked[k] + lost[k]
      BY <2>1, <2>3 DEF TransferInv, TaskInv, CopiesCounted
    <3> QED BY <2>1, <3>1
  <2> QED BY <2>2, <2>3
<1> QED BY <1>1, TransferInvariant, PTL

=============================================================================
