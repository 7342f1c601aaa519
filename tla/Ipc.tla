--------------------------------- MODULE Ipc ---------------------------------
(***************************************************************************)
(* JSON-RPC over the socket: the daemon's connection tasks (ipc/server.rs),*)
(* the desktop application's DaemonClient (daemon_client.rs), which has    *)
(* any number of calls in flight, and the blocking IpcClient of the file   *)
(* manager extensions (gdriver-ipc/src/client.rs).                         *)
(*                                                                         *)
(* A request is a line that arrives in two parts; a push that comes        *)
(* between them cancels read_line, and the part it had is gone.  An answer *)
(* or a push is one message.  Ids are numbered over all connections.       *)
(***************************************************************************)
EXTENDS Handlers, Sequences

CONSTANTS
    App,            \* clients that are a DaemonClient
    Populations,    \* bound: the clients that are there together
    Capacity,       \* of the broadcast channel: 256 in the code
    MaxAttempts,    \* of connect_or_spawn: 6 in the code
    MaxPush,        \* bound: pushes
    MaxLoad         \* bound: connections, calls and pushes together

ASSUME IpcConstants ==
    /\ App \subseteq Client /\ Populations \subseteq SUBSET Client
    /\ {Capacity, MaxAttempts} \subseteq Nat \ {0} /\ {MaxPush, MaxLoad} \subseteq Nat

VARIABLES
    daemon,               \* is it running?
    attempt,              \* of connecting, made by each client
    link,                 \* each client's connection
    toServer, toClient,   \* what is in the socket's two directions
    line,                 \* what the server has read of the next request
    sent, pos,            \* pushes broadcast; the next for each connection
    shown,                \* the last push an application has seen
    call,                 \* the calls
    pending,              \* the pending map of each DaemonClient
    reader, writer,       \* its two tasks, alive or not
    load,
    cut,                  \* requests that lost their first part
    late                  \* connections on which a call has timed out

socketVars == <<link, toServer, toClient, line, pos>>
clientVars == <<attempt, shown, call, pending, reader, writer, late, load>>
ipcVars == <<handlerVars, daemon, socketVars, sent, clientVars, cut>>

-----------------------------------------------------------------------------
Ext == Client \ App

\* The application changes preferences; the extensions change files.
MethodsOf(c) == IF c \in App THEN {"save", "mode"} ELSE {"item", "pin"}

Part == [id : Id, part : {"head", "tail"}]
Message == [kind : {"answer"}, id : Id, ok : BOOLEAN] \cup [kind : {"parse_error"}]
           \cup [kind : {"push"}, n : 1..MaxPush]

\* alive: was the reader task running when the call was made?  behind: had a
\* call on the same connection timed out?
Call == [by : Client, method : Method, alive : BOOLEAN, behind : BOOLEAN,
         at : {"waiting", "returned", "failed"}, answer : Id \cup {None}]

IpcTypeOK ==
    /\ HandlersTypeOK
    /\ daemon \in BOOLEAN
    /\ attempt \in [Client -> 0..MaxAttempts]
    /\ link \in [Client -> {"off", "open", "eof"}]
    /\ toServer \in [Client -> Seq(Part)] /\ toClient \in [Client -> Seq(Message)]
    /\ line \in [Client -> Id \cup {None}] /\ pending \in [Client -> SUBSET Id]
    /\ sent \in 0..MaxPush /\ pos \in [Client -> 1..MaxPush + 1]
    /\ shown \in [Client -> 0..MaxPush]
    /\ call \in Seq(Call) /\ Len(call) <= MaxCalls
    /\ reader \in [Client -> BOOLEAN] /\ writer \in [Client -> BOOLEAN]
    /\ cut \subseteq Id /\ late \subseteq Client /\ load \in 0..MaxLoad

IpcInit ==
    /\ HandlersInit
    /\ daemon = FALSE
    /\ \E P \in Populations : attempt = [c \in Client |-> IF c \in P THEN 0 ELSE MaxAttempts]
    /\ link = [c \in Client |-> "off"]
    /\ toServer = [c \in Client |-> << >>] /\ toClient = [c \in Client |-> << >>]
    /\ line = [c \in Client |-> None]
    /\ sent = 0 /\ pos = [c \in Client |-> 1] /\ shown = [c \in Client |-> 0]
    /\ call = << >> /\ pending = [c \in Client |-> {}]
    /\ reader = [c \in Client |-> FALSE] /\ writer = [c \in Client |-> FALSE]
    /\ cut = {} /\ late = {} /\ load = 0

Load == load < MaxLoad /\ load' = load + 1

-----------------------------------------------------------------------------
\* Connecting.

\* accept, subscribe, and the task of the connection.
Accept(c) ==
    /\ Load
    /\ link' = [link EXCEPT ![c] = "open"]
    /\ toServer' = [toServer EXCEPT ![c] = << >>] /\ toClient' = [toClient EXCEPT ![c] = << >>]
    /\ line' = [line EXCEPT ![c] = None] /\ pos' = [pos EXCEPT ![c] = sent + 1]

\* Mutant: one attempt more than there are.
AttemptsLeftInclusive(c) == attempt[c] <= MaxAttempts

AttemptsLeft(c) == attempt[c] < MaxAttempts

\* connect_or_spawn: the application tries once in its life, a few times over,
\* and starts the daemon when the first attempt fails.
connect_or_spawn(c) ==
    /\ c \in App /\ ~reader[c] /\ ~writer[c] /\ AttemptsLeft(c)
    /\ attempt' = [attempt EXCEPT ![c] = IF daemon THEN MaxAttempts ELSE @ + 1]
    /\ \/ /\ daemon /\ Accept(c)
          /\ reader' = [reader EXCEPT ![c] = TRUE] /\ writer' = [writer EXCEPT ![c] = TRUE]
          /\ UNCHANGED <<daemon, handlerVars>>
       \/ /\ ~daemon
          /\ \/ attempt[c] = 0 /\ daemon' = TRUE /\ UNCHANGED handlerVars
             \/ attempt[c] = 0 /\ Fault /\ UNCHANGED <<daemon, configVars, rows, tasks, job,
                                                       overlapped, unsaved>>
             \/ attempt[c] > 0 /\ UNCHANGED <<daemon, handlerVars>>
          /\ UNCHANGED <<socketVars, reader, writer, load>>
    /\ UNCHANGED <<sent, shown, call, pending, late, cut>>

\* gdriver_connect, once the task of the last connection is gone.
gdriver_connect(c) ==
    /\ c \in Ext /\ link[c] = "off" /\ daemon /\ job[c] = None
    /\ AttemptsLeft(c) /\ attempt' = [attempt EXCEPT ![c] = @ + 1]
    /\ Accept(c)
    /\ late' = late \ {c}
    /\ UNCHANGED <<handlerVars, daemon, sent, shown, call, pending, reader, writer, cut>>

Idle(c) == \A i \in 1..Len(call) : call[i].by = c => call[i].at \in {"returned", "failed"}

gdriver_disconnect(c) ==
    /\ c \in Ext /\ link[c] # "off" /\ Idle(c)
    /\ link' = [link EXCEPT ![c] = "off"]
    /\ UNCHANGED <<handlerVars, daemon, toServer, toClient, line, pos, sent, clientVars, cut>>

-----------------------------------------------------------------------------
\* The connection task, handle_connection.

Serving(c) == daemon /\ link[c] = "open" /\ job[c] = None

Sends(c, msg) == toClient' = [toClient EXCEPT ![c] = Append(@, msg)]

\* A part that is not the end of a line is kept while read_line goes on.
ReadsPart(c) ==
    /\ Serving(c) /\ toServer[c] # << >> /\ Head(toServer[c]).part = "head"
    /\ line' = [line EXCEPT ![c] = Head(toServer[c]).id]
    /\ toServer' = [toServer EXCEPT ![c] = Tail(@)]
    /\ UNCHANGED <<handlerVars, daemon, link, toClient, pos, sent, clientVars, cut>>

\* The line is complete: a request, or what is left of one.
ReadsLine(c) ==
    /\ Serving(c) /\ toServer[c] # << >> /\ Head(toServer[c]).part = "tail"
    /\ LET id == Head(toServer[c]).id
       IN  IF line[c] = id
           THEN dispatch(c, id, call[id].method) /\ UNCHANGED toClient
           ELSE Sends(c, [kind |-> "parse_error"]) /\ UNCHANGED handlerVars
    /\ line' = [line EXCEPT ![c] = None]
    /\ toServer' = [toServer EXCEPT ![c] = Tail(@)]
    /\ UNCHANGED <<daemon, link, pos, sent, clientVars, cut>>

Oldest == IF sent > Capacity THEN sent - Capacity + 1 ELSE 1

\* Mutant: a receiver that lags subscribes again.
ForwardsPushResubscribing(c) ==
    /\ Serving(c) /\ pos[c] <= sent
    /\ cut' = IF line[c] = None THEN cut ELSE cut \cup {line[c]}
    /\ line' = [line EXCEPT ![c] = None]
    /\ IF pos[c] < Oldest
       THEN pos' = [pos EXCEPT ![c] = sent + 1] /\ UNCHANGED toClient
       ELSE pos' = [pos EXCEPT ![c] = @ + 1] /\ Sends(c, [kind |-> "push", n |-> pos[c]])
    /\ UNCHANGED <<handlerVars, daemon, link, toServer, sent, clientVars>>

\* push_rx.recv wins: a push, or the news that the oldest were skipped.
ForwardsPush(c) ==
    /\ Serving(c) /\ pos[c] <= sent
    /\ cut' = IF line[c] = None THEN cut ELSE cut \cup {line[c]}
    /\ line' = [line EXCEPT ![c] = None]
    /\ IF pos[c] < Oldest
       THEN pos' = [pos EXCEPT ![c] = Oldest] /\ UNCHANGED toClient
       ELSE pos' = [pos EXCEPT ![c] = @ + 1] /\ Sends(c, [kind |-> "push", n |-> pos[c]])
    /\ UNCHANGED <<handlerVars, daemon, link, toServer, sent, clientVars>>

Handles(c) ==
    /\ daemon /\ HandlerStep(c)
    /\ UNCHANGED <<daemon, socketVars, sent, clientVars, cut>>

\* The answer goes to the socket; a client that has left gets none.
Replies(c) ==
    /\ daemon /\ job[c] # None /\ job[c].at \in {"ok", "err"}
    /\ IF link[c] = "open"
       THEN Sends(c, [kind |-> "answer", id |-> job[c].id, ok |-> job[c].at = "ok"])
       ELSE UNCHANGED toClient
    /\ job' = [job EXCEPT ![c] = None]
    /\ UNCHANGED <<configVars, rows, tasks, faults, overlapped, unsaved, daemon, link, toServer,
                   line, pos, sent, clientVars, cut>>

Serve(c) == ReadsPart(c) \/ ReadsLine(c) \/ ForwardsPush(c) \/ Handles(c) \/ Replies(c)

-----------------------------------------------------------------------------
\* Calls.

Line(id) == << [id |-> id, part |-> "head"], [id |-> id, part |-> "tail"] >>

NewCall(c, m, at) ==
    /\ Len(call) < MaxCalls /\ Load
    /\ call' = Append(call, [by |-> c, method |-> m, alive |-> reader[c],
                             behind |-> c \in late, at |-> at, answer |-> None])

Server == <<handlerVars, daemon, line, pos, sent, cut>>

\* DaemonClient::call: into the pending map, and to the writer task, which takes
\* the line while it lives and dies of the first write that fails.  (What comes
\* between the two changes no more than how the call fails.)
DaemonCall(c, m) ==
    /\ c \in App /\ attempt[c] = MaxAttempts /\ (reader[c] \/ link[c] = "eof")
    /\ NewCall(c, m, IF writer[c] THEN "waiting" ELSE "failed")
    /\ pending' = [pending EXCEPT ![c] = @ \cup {Len(call')}]
    /\ toServer' = IF link[c] = "open" THEN [toServer EXCEPT ![c] = @ \o Line(Len(call'))]
                   ELSE toServer
    /\ writer' = [writer EXCEPT ![c] = @ /\ link[c] = "open"]
    /\ UNCHANGED <<Server, link, toClient, attempt, shown, reader, late>>

\* IpcClient::call: one at a time.
ExtCall(c, m) ==
    /\ c \in Ext /\ link[c] # "off" /\ Idle(c)
    /\ NewCall(c, m, IF link[c] = "open" THEN "waiting" ELSE "failed")
    /\ toServer' = IF link[c] = "open" THEN [toServer EXCEPT ![c] = @ \o Line(Len(call'))]
                   ELSE toServer
    /\ UNCHANGED <<Server, link, toClient, attempt, shown, pending, reader, writer, late>>

-----------------------------------------------------------------------------
\* What the clients read.

Got(c) == Head(toClient[c])

Sees(c) == shown' = IF c \in App /\ Got(c).kind = "push" THEN [shown EXCEPT ![c] = Got(c).n] ELSE shown

Answers(id, msg) ==
    call' = [call EXCEPT ![id].at = IF msg.ok THEN "returned" ELSE "failed",
                         ![id].answer = msg.id]

First(ids) == CHOOSE i \in ids : \A j \in ids : i <= j

\* Mutant: answers are taken to come in the order of the calls.
handle_message_in_order(c) ==
    /\ c \in App /\ reader[c] /\ toClient[c] # << >>
    /\ Sees(c)
    /\ IF Got(c).kind = "answer" /\ pending[c] # {}
       THEN /\ Answers(First(pending[c]), Got(c))
            /\ pending' = [pending EXCEPT ![c] = @ \ {First(pending[c])}]
       ELSE UNCHANGED <<call, pending>>
    /\ toClient' = [toClient EXCEPT ![c] = Tail(@)]
    /\ UNCHANGED <<Server, link, toServer, attempt, reader, writer, late, load>>

\* The reader task: a push becomes an event, an answer resolves the call of its
\* id, and a message with neither is dropped.
handle_message(c) ==
    /\ c \in App /\ reader[c] /\ toClient[c] # << >>
    /\ Sees(c)
    /\ IF Got(c).kind = "answer" /\ Got(c).id \in pending[c]
       THEN /\ Answers(Got(c).id, Got(c))
            /\ pending' = [pending EXCEPT ![c] = @ \ {Got(c).id}]
       ELSE UNCHANGED <<call, pending>>
    /\ toClient' = [toClient EXCEPT ![c] = Tail(@)]
    /\ UNCHANGED <<Server, link, toServer, attempt, reader, writer, late, load>>

\* Mutant: the reader task ends and leaves the map as it is.
ReaderEndsSilently(c) ==
    /\ c \in App /\ reader[c] /\ link[c] = "eof" /\ toClient[c] = << >>
    /\ reader' = [reader EXCEPT ![c] = FALSE]
    /\ UNCHANGED <<Server, link, toServer, toClient, attempt, shown, call, pending, writer, late,
                   load>>

\* The end of the stream fails what is pending.
ReaderEnds(c) ==
    /\ c \in App /\ reader[c] /\ link[c] = "eof" /\ toClient[c] = << >>
    /\ reader' = [reader EXCEPT ![c] = FALSE]
    /\ call' = [i \in 1..Len(call) |->
                  IF i \in pending[c] THEN [call[i] EXCEPT !.at = "failed"] ELSE call[i]]
    /\ pending' = [pending EXCEPT ![c] = {}]
    /\ UNCHANGED <<Server, link, toServer, toClient, attempt, shown, writer, late, load>>

Waiting(id) == id <= Len(call) /\ call[id].at = "waiting"

\* The blocking client: pushes and messages without an id are skipped, the
\* first answer is the call's, whatever its id.
ExtReads(id) ==
    /\ Waiting(id) /\ call[id].by \in Ext
    /\ LET c == call[id].by
       IN  /\ toClient[c] # << >>
           /\ Sees(c)
           /\ IF Got(c).kind = "answer" THEN Answers(id, Got(c)) ELSE UNCHANGED call
           /\ toClient' = [toClient EXCEPT ![c] = Tail(@)]
    /\ UNCHANGED <<Server, link, toServer, attempt, pending, reader, writer, late, load>>

\* Mutant: only the end of the stream ends the wait (no read timeout).
ExtWaitsOn(id) ==
    /\ Waiting(id) /\ call[id].by \in Ext
    /\ toClient[call[id].by] = << >> /\ link[call[id].by] = "eof"
    /\ call' = [call EXCEPT ![id].at = "failed"]
    /\ UNCHANGED late
    /\ UNCHANGED <<Server, link, toServer, toClient, attempt, shown, pending, reader, writer, load>>

\* Nothing to read: the end of the stream, or five seconds have passed.
ExtGivesUp(id) ==
    /\ Waiting(id) /\ call[id].by \in Ext
    /\ toClient[call[id].by] = << >>
    /\ call' = [call EXCEPT ![id].at = "failed"]
    /\ late' = IF link[call[id].by] = "open" THEN late \cup {call[id].by} ELSE late
    /\ UNCHANGED <<Server, link, toServer, toClient, attempt, shown, pending, reader, writer, load>>

-----------------------------------------------------------------------------
\* The rest of the daemon pushes; the daemon dies; somebody starts it again.

Push ==
    /\ daemon /\ sent < MaxPush /\ sent' = sent + 1 /\ Load
    /\ UNCHANGED <<handlerVars, daemon, socketVars, attempt, shown, call, pending, reader, writer,
                   late, cut>>

Crash ==
    /\ daemon /\ daemon' = FALSE /\ HandlersRestart
    /\ link' = [c \in Client |-> IF link[c] = "open" THEN "eof" ELSE link[c]]
    /\ toServer' = [c \in Client |-> << >>] /\ line' = [c \in Client |-> None]
    /\ UNCHANGED <<toClient, pos, sent, clientVars, cut>>

Start ==
    /\ ~daemon /\ daemon' = TRUE
    /\ UNCHANGED <<handlerVars, socketVars, sent, clientVars, cut>>

-----------------------------------------------------------------------------
AppReads(c) == handle_message(c) \/ ReaderEnds(c)

ExtWaits(id) == ExtReads(id) \/ ExtGivesUp(id)

IpcNext ==
    \/ \E c \in Client : connect_or_spawn(c) \/ gdriver_connect(c) \/ gdriver_disconnect(c)
    \/ \E c \in Client : Serve(c) \/ AppReads(c)
    \/ \E c \in Client : \E m \in MethodsOf(c) : DaemonCall(c, m) \/ ExtCall(c, m)
    \/ \E id \in Id : ExtWaits(id)
    \/ Push \/ Crash \/ Start

IpcSpec == IpcInit /\ [][IpcNext]_ipcVars

\* Connection tasks, reader tasks and callers run; a blocked read times out.
FairIpc ==
    /\ IpcSpec
    /\ \A c \in Client : WF_ipcVars(Serve(c)) /\ WF_ipcVars(AppReads(c))
    /\ \A id \in Id : WF_ipcVars(ExtWaits(id))

-----------------------------------------------------------------------------
\* Properties.

\* A call is answered with the answer to its own request, whatever was cut,
\* skipped or lost in between; on a blocking client this ends with the first call
\* that times out: the late answer is taken for that of the next call
\* (IpcClient::call does not compare the ids).
AnswerIsOwn ==
    \A i \in 1..Len(call) :
       call[i].answer # None => call[i].answer = i \/ call[i].behind

\* A file the client was told to be changed has its row and, for the File
\* Provider, its task, although the two are written without a transaction and
\* the daemon may die in between.
AnsweredIsDone ==
    \A i \in 1..Len(call) :
       (call[i].at = "returned" /\ call[i].answer = i /\ call[i].by \in Ext)
       => i \in rows /\ (call[i].method = "item" => i \in tasks)

\* "Fail all in-flight requests so callers don't hang": a call made while the
\* reader task runs returns, through pushes, other calls and the daemon's death,
\* unless a push cut its line: the parse error the daemon answers has no id.
CallsReturn ==
    \A id \in Id :
       (Waiting(id) /\ call[id].alive) ~> (~Waiting(id) \/ id \in cut)

\* The file manager is never blocked for good: a call of the blocking client
\* returns even when its request is cut or the daemon busy (on Unix: the timeout
\* of the named pipe is not set).
BlockingCallsReturn ==
    \A id \in Id : (Waiting(id) /\ call[id].by \in Ext) ~> ~Waiting(id)

\* A client that lags misses the oldest pushes, never the newest: the last
\* status pushed is what it shows in the end.
LastPushArrives ==
    \A c \in App :
       (link[c] = "open" /\ pos[c] <= sent) ~> (shown[c] = sent \/ link[c] # "open")
=============================================================================
