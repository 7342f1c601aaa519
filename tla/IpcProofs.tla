------------------------------ MODULE IpcProofs ------------------------------
(***************************************************************************)
(* Preferences, answers and calls, for any number of clients, requests,    *)
(* pushes and faults.                                                      *)
(***************************************************************************)
EXTENDS Ipc, TLAPS, SequenceTheorems

-----------------------------------------------------------------------------
\* The inductive invariant, in parts.

\* Request id is one that connection c has made.
Of(c, id) == id \in 1..Len(call) /\ call[id].by = c

\* What is on its way on a connection, in either direction or in a handler, is
\* of that connection's requests.
InFlight ==
    \A c \in Client :
        /\ \A k \in 1..Len(toServer[c]) : Of(c, toServer[c][k].id)
        /\ job[c] # None => Of(c, job[c].id) /\ job[c].method = call[job[c].id].method
        /\ \A k \in 1..Len(toClient[c]) :
              toClient[c][k].kind = "answer" => Of(c, toClient[c][k].id)
        /\ \A i \in pending[c] : Of(c, i)

\* Everybody calls its own methods.
Methods == \A i \in 1..Len(call) : call[i].method \in MethodsOf(call[i].by)

\* The places a handler can be at, by its method.
Places(m) ==
    CASE m = "save" -> {"open", "write", "rename", "swap", "ok", "err"}
      [] m = "mode" -> {"begin", "send", "open", "write", "rename", "ok"}
      [] m = "item" -> {"begin", "enqueue", "ok", "err"}
      [] OTHER      -> {"begin", "ok", "err"}

InPlace == \A c \in Client : job[c] # None => job[c].at \in Places(job[c].method)

\* A request is handled once, and before it opens the temporary file no name
\* stands for the inode that is called by its id.
FreshNames == tmp # toml /\ toml <= Len(call) /\ (tmp # None => tmp <= Len(call))

FreshFor(c) ==
    /\ \A k \in 1..Len(toServer[c]) : toServer[c][k].part = "tail" =>
          /\ toServer[c][k].id # toml /\ toServer[c][k].id # tmp
          /\ job[c] # None => job[c].id # toServer[c][k].id
          /\ \A l \in 1..Len(toServer[c]) :
                toServer[c][l].part = "tail" /\ toServer[c][l].id = toServer[c][k].id
                => l = k
    /\ (job[c] # None /\ job[c].at \in {"begin", "send", "open"}) =>
          job[c].id # toml /\ job[c].id # tmp

Fresh == FreshNames /\ \A c \in Client : FreshFor(c)

\* The one request for the preferences, when there are never two: where it is
\* tells what the two files and the memory hold.
Saving(c) ==
    /\ job[c].at = "write" => tmp = job[c].fd /\ content[tmp] = Torn
    /\ job[c].at = "rename" => tmp = job[c].fd /\ content[tmp] = job[c].prefs
    /\ job[c].at = "swap" => content[toml] = job[c].prefs
    /\ (job[c].method = "mode" /\ job[c].at \in {"open", "write", "rename"}) =>
          job[c].prefs = memory
    /\ \/ unsaved \/ content[toml] = memory
       \/ job[c].at = "swap"
       \/ job[c].method = "mode" /\ job[c].at \in {"send", "open", "write", "rename"}

OneSaver ==
    ~overlapped =>
        /\ \A c, d \in Client : OfPreferences(c) /\ OfPreferences(d) => c = d
        /\ \A c \in Client : OfPreferences(c) => Saving(c)

\* What a handler of a file has done by the time it says so.
Done(i) == i \in rows /\ (call[i].method = "item" => i \in tasks)

HandlerDone ==
    \A c \in Client : job[c] # None =>
        /\ job[c].at = "enqueue" => job[c].id \in rows
        /\ (job[c].at = "ok" /\ job[c].method \in {"item", "pin"}) => Done(job[c].id)

AnswerDone ==
    \A c \in Ext : \A k \in 1..Len(toClient[c]) :
        (toClient[c][k].kind = "answer" /\ toClient[c][k].ok) => Done(toClient[c][k].id)

\* A blocking client waits for one call at a time, on a connection ...
OneCall ==
    \A i \in 1..Len(call) : (call[i].at = "waiting" /\ call[i].by \in Ext) =>
        /\ link[call[i].by] # "off"
        /\ call[i].behind \/ call[i].by \notin late
        /\ \A j \in 1..Len(call) :
              call[j].at = "waiting" /\ call[j].by = call[i].by => j = i

\* ... and until one has timed out there is one thing on its way: the request,
\* its handler or its answer.
IsAnswer(m) == m.kind = "answer"

Asked(c) == toServer[c] # << >>
Answered(c) == \E k \in 1..Len(toClient[c]) : IsAnswer(toClient[c][k])

AtEof ==
    \A c \in Client : link[c] = "eof" => ~Asked(c) /\ job[c] = None

OneThingFor(c) ==
    /\ \A k \in 1..Len(toServer[c]) :
          /\ call[toServer[c][k].id].at = "waiting"
          /\ toServer[c][k].part = "tail" => k = Len(toServer[c])
    /\ job[c] # None => call[job[c].id].at = "waiting" /\ ~Asked(c)
    /\ \A k \in 1..Len(toClient[c]) : IsAnswer(toClient[c][k]) =>
          /\ call[toClient[c][k].id].at = "waiting"
          /\ ~Asked(c) /\ job[c] = None
          /\ \A l \in 1..Len(toClient[c]) : IsAnswer(toClient[c][l]) => l = k

OneThing == \A c \in Ext : (link[c] # "off" /\ c \notin late) => OneThingFor(c)

IpcInv ==
    /\ IpcTypeOK /\ InFlight /\ Methods /\ InPlace
    /\ Fresh /\ DiskNeverTorn /\ OneSaver /\ PreferencesAgree
    /\ HandlerDone /\ AnswerDone /\ AnsweredIsDone
    /\ AtEof /\ OneCall /\ OneThing /\ AnswerIsOwn

-----------------------------------------------------------------------------
\* Types.

\* The bounds, each by itself.
LEMMA Bounds ==
    /\ MaxCalls \in Nat /\ MaxFaults \in Nat /\ MaxPush \in Nat /\ MaxLoad \in Nat
    /\ Capacity \in Nat \ {0} /\ MaxAttempts \in Nat \ {0} /\ App \subseteq Client
BY HandlerConstants, IpcConstants

\* What a save request carries are preferences.
LEMMA RequestedType == ASSUME NEW id \in Id PROVE Requested(id) \in Preferences
BY HandlerConstants DEF Requested, Preferences, Id

\* The handlers keep the types of what they share.
LEMMA HandlersStepType ==
    ASSUME HandlersTypeOK, NEW c \in Client, HandlerStep(c)
    PROVE  HandlersTypeOK'
<1> USE HandlerConstants DEF HandlersTypeOK, configVars, At, GoTo
<1>j. job[c] # None => job[c] \in Job
  OBVIOUS
<1>f. Fault => faults' \in 0..MaxFaults
  BY DEF Fault
<1>g. ASSUME NEW p \in {"ok", "err", "swap", "rename", "send", "enqueue"},
             job[c] # None, GoTo(c, p)
      PROVE  job' \in [Client -> Job \cup {None}]
  BY <1>j, <1>g DEF Job
<1>1. ASSUME OpenTmp(c) PROVE HandlersTypeOK'
  <2>1. job[c] \in Job /\ job[c].id \in Inode
    BY <1>1, <1>j DEF OpenTmp, Job, Id, Inode
  <2>2. tmp' \in Inode /\ content' \in [Inode -> Preferences \cup {Torn}]
    BY <1>1, <2>1 DEF OpenTmp
  <2>3. job' \in [Client -> Job \cup {None}]
    BY <1>1, <2>1 DEF OpenTmp, Job
  <2>4. QED
    BY <1>1, <2>2, <2>3 DEF OpenTmp
<1>2. ASSUME WriteTmp(c) PROVE HandlersTypeOK'
  <2>1. job[c] \in Job /\ job[c].prefs \in Preferences
    BY <1>2, <1>j DEF WriteTmp, Job
  <2>2. content' \in [Inode -> Preferences \cup {Torn}]
    BY <1>2, <2>1 DEF WriteTmp
  <2>3. QED
    BY <1>2, <1>g, <2>2 DEF WriteTmp
<1>3. ASSUME RenameTmp(c) PROVE HandlersTypeOK'
  <2>1. toml' \in Inode /\ tmp' = None /\ content' \in [Inode -> Preferences \cup {Torn}]
    BY <1>3 DEF RenameTmp
  <2>2. QED
    BY <1>3, <1>g, <2>1 DEF RenameTmp
<1>4. ASSUME SaveFails(c) PROVE HandlersTypeOK'
  <2>1. job' \in [Client -> Job \cup {None}] /\ faults' \in 0..MaxFaults
    BY <1>4, <1>f, <1>g DEF SaveFails
  <2>2. QED
    BY <1>4, <2>1 DEF SaveFails
<1>5. ASSUME SwapMemory(c) PROVE HandlersTypeOK'
  BY <1>5, <1>g, <1>j DEF SwapMemory, Job
<1>6. ASSUME SetMode(c) PROVE HandlersTypeOK'
  BY <1>6, <1>g DEF SetMode, Preferences
<1>7. ASSUME SendSwitchMode(c) PROVE HandlersTypeOK'
  BY <1>7, <1>j DEF SendSwitchMode, Job
<1>8. ASSUME ItemRow(c) \/ SetOffline(c) PROVE HandlersTypeOK'
  <2>1. job[c] # None /\ job[c].id \in Id
    BY <1>8, <1>j DEF ItemRow, SetOffline, Job
  <2>2. rows' \subseteq Id /\ faults' \in 0..MaxFaults /\ UNCHANGED <<configVars, tasks, overlapped, unsaved>>
    BY <1>8, <1>f, <2>1 DEF ItemRow, SetOffline
  <2>3. job' \in [Client -> Job \cup {None}]
    BY <1>8, <1>g, <2>1 DEF ItemRow, SetOffline
  <2>4. QED
    BY <2>2, <2>3
<1>9. ASSUME ItemTask(c) PROVE HandlersTypeOK'
  <2>1. job[c] # None /\ job[c].id \in Id
    BY <1>9, <1>j DEF ItemTask, Job
  <2>2. tasks' \subseteq Id /\ faults' \in 0..MaxFaults
    BY <1>9, <1>f, <2>1 DEF ItemTask
  <2>3. QED
    BY <1>9, <1>g, <2>1, <2>2 DEF ItemTask
<1>10. QED
  BY <1>1, <1>2, <1>3, <1>4, <1>5, <1>6, <1>7, <1>8, <1>9 DEF HandlerStep

\* The head and the tail of a queue.
LEMMA HeadTail ==
    ASSUME NEW S, NEW q \in Seq(S), q # << >>
    PROVE  /\ Head(q) \in S /\ Head(q) = q[1] /\ Tail(q) \in Seq(S)
           /\ Len(q) \in Nat /\ Len(q) > 0 /\ Len(Tail(q)) = Len(q) - 1
           /\ \A k \in 1..Len(Tail(q)) : Tail(q)[k] = q[k + 1]
BY HeadTailProperties, LenProperties, EmptySeq

\* A queue with one more element.
LEMMA Appended ==
    ASSUME NEW S, NEW q \in Seq(S), NEW e \in S
    PROVE  /\ Append(q, e) \in Seq(S) /\ Len(q) \in Nat
           /\ Len(Append(q, e)) = Len(q) + 1 /\ Append(q, e)[Len(q) + 1] = e
           /\ \A k \in 1..Len(q) : Append(q, e)[k] = q[k]
BY AppendProperties, LenProperties

\* A request's line after what the socket holds already.
LEMMA LineAppended ==
    ASSUME NEW q \in Seq(Part), NEW id \in Id
    PROVE  /\ q \o Line(id) \in Seq(Part) /\ Len(q) \in Nat
           /\ Len(q \o Line(id)) = Len(q) + 2
           /\ \A k \in 1..Len(q) : (q \o Line(id))[k] = q[k]
           /\ (q \o Line(id))[Len(q) + 1] = [id |-> id, part |-> "head"]
           /\ (q \o Line(id))[Len(q) + 2] = [id |-> id, part |-> "tail"]
<1>1. Line(id) \in Seq(Part) /\ Len(Line(id)) = 2
  BY DEF Line, Part
<1>2. Line(id)[1] = [id |-> id, part |-> "head"] /\ Line(id)[2] = [id |-> id, part |-> "tail"]
  BY DEF Line
<1>3. Len(q) \in Nat
  BY LenProperties
<1>4. /\ q \o Line(id) \in Seq(Part) /\ Len(q \o Line(id)) = Len(q) + 2
      /\ \A i \in 1..Len(q) + 2 :
            (q \o Line(id))[i] = IF i <= Len(q) THEN q[i] ELSE Line(id)[i - Len(q)]
  <2>1. /\ q \o Line(id) \in Seq(Part) /\ Len(q \o Line(id)) = Len(q) + Len(Line(id))
        /\ \A i \in 1..Len(q) + Len(Line(id)) :
              (q \o Line(id))[i] = IF i <= Len(q) THEN q[i] ELSE Line(id)[i - Len(q)]
    BY <1>1, ConcatProperties, Zenon
  <2>2. QED
    BY <1>1, <2>1, Zenon
<1>5. (Len(q) + 1) - Len(q) = 1 /\ (Len(q) + 2) - Len(q) = 2
  BY <1>3
<1>6. QED
  BY <1>2, <1>3, <1>4, <1>5

\* The types, at first.
LEMMA InitType == IpcInit => IpcTypeOK
<1> SUFFICES ASSUME IpcInit PROVE IpcTypeOK
  OBVIOUS
<1> USE Bounds DEF IpcInit
<1>1. HandlersTypeOK
  <2>1. memory \in Preferences /\ toml \in Inode
    BY DEF HandlersInit, Preferences, Inode
  <2>2. content \in [Inode -> Preferences \cup {Torn}]
    BY <2>1 DEF HandlersInit
  <2>3. job \in [Client -> Job \cup {None}] /\ faults \in 0..MaxFaults
    BY DEF HandlersInit
  <2>4. overlapped \in BOOLEAN /\ unsaved \in BOOLEAN /\ rows \subseteq Id /\ tasks \subseteq Id
    BY DEF HandlersInit
  <2>5. tmp \in Inode \cup {None}
    BY DEF HandlersInit
  <2>6. QED
    BY <2>1, <2>2, <2>3, <2>4, <2>5 DEF HandlersTypeOK
<1>2. attempt \in [Client -> 0..MaxAttempts]
  OBVIOUS
<1>3. /\ toServer \in [Client -> Seq(Part)] /\ toClient \in [Client -> Seq(Message)]
      /\ call \in Seq(Call) /\ Len(call) <= MaxCalls
  BY EmptySeq
<1>4. reader \in [Client -> BOOLEAN] /\ writer \in [Client -> BOOLEAN] /\ daemon \in BOOLEAN
  OBVIOUS
<1>5. pos \in [Client -> 1..MaxPush + 1] /\ shown \in [Client -> 0..MaxPush] /\ sent \in 0..MaxPush
  OBVIOUS
<1>6. /\ link \in [Client -> {"off", "open", "eof"}] /\ line \in [Client -> Id \cup {None}]
      /\ pending \in [Client -> SUBSET Id]
  OBVIOUS
<1>7. cut \subseteq Id /\ late \subseteq Client /\ load \in 0..MaxLoad
  OBVIOUS
<1>8. QED
  BY <1>1, <1>2, <1>3, <1>4, <1>5, <1>6, <1>7 DEF IpcTypeOK

\* A call that is made is one.
LEMMA NewCallType ==
    ASSUME IpcTypeOK, NEW c \in Client, NEW m \in MethodsOf(c),
           NEW at \in {"waiting", "failed"}, NewCall(c, m, at)
    PROVE  /\ call' \in Seq(Call) /\ Len(call') <= MaxCalls
           /\ Len(call') \in Id /\ Len(call') = Len(call) + 1 /\ Len(call) \in Nat
           /\ load' \in 0..MaxLoad
           /\ call'[Len(call')].by = c /\ call'[Len(call')].method = m
           /\ call'[Len(call')].at = at /\ call'[Len(call')].answer = None
           /\ call'[Len(call')].behind = (c \in late)
           /\ \A i \in 1..Len(call) : call'[i] = call[i]
<1> DEFINE new == [by |-> c, method |-> m, alive |-> reader[c], behind |-> c \in late,
                   at |-> at, answer |-> None]
<1>1. new \in Call
  BY DEF Call, Method, MethodsOf, IpcTypeOK
<1>2. call \in Seq(Call) /\ call' = Append(call, new)
  BY DEF IpcTypeOK, NewCall
<1>b. new.by = c /\ new.method = m /\ new.at = at /\ new.answer = None
      /\ new.behind = (c \in late)
  OBVIOUS
<1> HIDE DEF new
<1>3. /\ call' \in Seq(Call) /\ Len(call) \in Nat /\ Len(call') = Len(call) + 1
      /\ call'[Len(call) + 1] = new /\ \A i \in 1..Len(call) : call'[i] = call[i]
  BY <1>1, <1>2, Appended
<1>4. Len(call) < MaxCalls /\ load' \in 0..MaxLoad
  BY Bounds DEF NewCall, Load, IpcTypeOK
<1>5. Len(call') \in Id /\ Len(call') <= MaxCalls
  BY <1>3, <1>4, HandlerConstants DEF Id
<1>6. call'[Len(call')] = new
  BY <1>3
<1>7. QED
  BY <1>3, <1>4, <1>5, <1>6, <1>b

\* An answer changes the call it is taken for, and nothing else of it than its
\* end and the answer.
LEMMA AnswersType ==
    ASSUME IpcTypeOK, NEW id \in 1..Len(call), NEW msg \in Message, msg.kind = "answer",
           Answers(id, msg)
    PROVE  /\ call' \in Seq(Call) /\ Len(call') = Len(call) /\ Len(call') <= MaxCalls
           /\ call'[id] = [call[id] EXCEPT !.at = IF msg.ok THEN "returned" ELSE "failed",
                                           !.answer = msg.id]
           /\ \A i \in 1..Len(call) : i # id => call'[i] = call[i]
<1> DEFINE new == [call[id] EXCEPT !.at = IF msg.ok THEN "returned" ELSE "failed",
                                   !.answer = msg.id]
<1>1. call \in Seq(Call) /\ call[id] \in Call
  BY ElementOfSeq DEF IpcTypeOK
<1>2. new \in Call
  BY <1>1 DEF Call, Message
<1>3. call' = [call EXCEPT ![id] = new]
  BY DEF Answers
<1> HIDE DEF new
<1>4. /\ call' \in Seq(Call) /\ Len(call') = Len(call)
      /\ \A j \in 1..Len(call) : call'[j] = IF j = id THEN new ELSE call[j]
  BY <1>1, <1>2, <1>3, ExceptSeq
<1>5. call'[id] = new /\ Len(call') <= MaxCalls
  BY <1>4 DEF IpcTypeOK
<1>6. QED
  BY <1>4, <1>5 DEF new

\* The end of the reader fails the pending calls and leaves the others alone.
LEMMA ReaderEndsCalls ==
    ASSUME IpcTypeOK, NEW c \in Client, ReaderEnds(c)
    PROVE  /\ call' \in Seq(Call) /\ Len(call') = Len(call) /\ Len(call') <= MaxCalls
           /\ \A i \in 1..Len(call) :
                 call'[i] = IF i \in pending[c] THEN [call[i] EXCEPT !.at = "failed"] ELSE call[i]
<1> DEFINE new(i) == IF i \in pending[c] THEN [call[i] EXCEPT !.at = "failed"] ELSE call[i]
<1>1. call \in Seq(Call) /\ Len(call) \in Nat /\ \A i \in 1..Len(call) : call[i] \in Call
  BY LenProperties, ElementOfSeq DEF IpcTypeOK
<1>2. \A i \in 1..Len(call) : new(i) \in Call
  BY <1>1 DEF Call
<1>3. call' = [i \in 1..Len(call) |-> new(i)]
  BY DEF ReaderEnds
<1> HIDE DEF new
<1>4. call' \in Seq(Call) /\ Len(call') = Len(call)
  BY <1>1, <1>2, <1>3
<1>5. QED
  BY <1>3, <1>4 DEF IpcTypeOK, new

\* A new connection is one.
LEMMA AcceptType ==
    ASSUME IpcTypeOK, NEW c \in Client, Accept(c)
    PROVE  /\ link' \in [Client -> {"off", "open", "eof"}]
           /\ toServer' \in [Client -> Seq(Part)] /\ toClient' \in [Client -> Seq(Message)]
           /\ line' \in [Client -> Id \cup {None}]
           /\ pos' \in [Client -> 1..MaxPush + 1] /\ load' \in 0..MaxLoad
BY Bounds, EmptySeq DEF IpcTypeOK, Accept, Load

\* A call one waits for has been made.
LEMMA WaitingIsCall ==
    ASSUME IpcTypeOK, NEW id \in Id, Waiting(id)
    PROVE  id \in 1..Len(call) /\ call[id] \in Call /\ call[id].by \in Client
<1>1. call \in Seq(Call) /\ Len(call) \in Nat
  BY LenProperties DEF IpcTypeOK
<1>2. id \in 1..Len(call)
  BY <1>1, Bounds DEF Waiting, Id
<1>3. call[id] \in Call
  BY <1>1, <1>2, ElementOfSeq
<1>4. QED
  BY <1>2, <1>3 DEF Call

\* Every step keeps the types.
LEMMA NextType == IpcTypeOK /\ InFlight /\ IpcNext => IpcTypeOK'
<1> SUFFICES ASSUME IpcTypeOK, InFlight, IpcNext PROVE IpcTypeOK'
  OBVIOUS
<1> USE Bounds DEF handlerVars, configVars, socketVars, clientVars, Server
<1>a. ASSUME NEW c \in Client, NEW msg \in Message, Sends(c, msg)
      PROVE  toClient' \in [Client -> Seq(Message)]
  BY <1>a, Appended DEF IpcTypeOK, Sends
<1>b. ASSUME NEW c \in Client, toServer[c] # << >>,
             toServer' = [toServer EXCEPT ![c] = Tail(@)]
      PROVE  toServer' \in [Client -> Seq(Part)] /\ Head(toServer[c]) \in Part
  BY <1>b, HeadTail DEF IpcTypeOK
<1>c. ASSUME NEW c \in Client, toClient[c] # << >>,
             toClient' = [toClient EXCEPT ![c] = Tail(@)]
      PROVE  toClient' \in [Client -> Seq(Message)] /\ Got(c) \in Message
  BY <1>c, HeadTail DEF IpcTypeOK, Got
<1>1. ASSUME NEW c \in Client, connect_or_spawn(c) PROVE IpcTypeOK'
  <2>1. attempt' \in [Client -> 0..MaxAttempts]
    BY <1>1 DEF connect_or_spawn, IpcTypeOK, AttemptsLeft
  <2>2. CASE daemon
    <3>1. Accept(c) /\ UNCHANGED <<daemon, handlerVars>>
      BY <1>1, <2>2 DEF connect_or_spawn
    <3>2. QED
      BY <1>1, <2>1, <2>2, <3>1, AcceptType DEF connect_or_spawn, IpcTypeOK, HandlersTypeOK
  <2>3. CASE ~daemon
    <3>1. daemon' \in BOOLEAN /\ faults' \in 0..MaxFaults
      <4>1. faults \in 0..MaxFaults /\ daemon \in BOOLEAN
        BY DEF IpcTypeOK, HandlersTypeOK
      <4>2. daemon' \in BOOLEAN /\ (Fault \/ faults' = faults)
        BY <1>1, <2>3, <4>1 DEF connect_or_spawn
      <4>3. QED
        BY <4>1, <4>2 DEF Fault
    <3>2. QED
      BY <1>1, <2>1, <2>3, <3>1 DEF connect_or_spawn, IpcTypeOK, HandlersTypeOK
  <2>4. QED
    BY <2>2, <2>3
<1>2. ASSUME NEW c \in Client, gdriver_connect(c) PROVE IpcTypeOK'
  <2>1. attempt' \in [Client -> 0..MaxAttempts]
    BY <1>2 DEF gdriver_connect, IpcTypeOK, AttemptsLeft
  <2>2. QED
    BY <1>2, <2>1, AcceptType DEF gdriver_connect, IpcTypeOK, HandlersTypeOK
<1>3. ASSUME NEW c \in Client, gdriver_disconnect(c) PROVE IpcTypeOK'
  BY <1>3 DEF gdriver_disconnect, IpcTypeOK, HandlersTypeOK
<1>4. ASSUME NEW c \in Client, ReadsPart(c) PROVE IpcTypeOK'
  <2>1. toServer' \in [Client -> Seq(Part)] /\ line' \in [Client -> Id \cup {None}]
    BY <1>4, <1>b DEF ReadsPart, IpcTypeOK, Part
  <2>2. QED
    BY <1>4, <2>1 DEF ReadsPart, IpcTypeOK, HandlersTypeOK
<1>5. ASSUME NEW c \in Client, ReadsLine(c) PROVE IpcTypeOK'
  <2> DEFINE id == Head(toServer[c]).id
  <2>1. toServer' \in [Client -> Seq(Part)] /\ line' \in [Client -> Id \cup {None}] /\ id \in Id
    BY <1>5, <1>b DEF ReadsLine, IpcTypeOK, Part
  <2>2. id \in 1..Len(call) /\ call[id] \in Call
    <3>1. toServer[c] \in Seq(Part) /\ call \in Seq(Call)
      BY DEF IpcTypeOK
    <3>2. Head(toServer[c]) = toServer[c][1] /\ 1 \in 1..Len(toServer[c])
      BY <1>5, <3>1, HeadTail DEF ReadsLine
    <3>3. QED
      BY <3>1, <3>2, ElementOfSeq DEF InFlight, Of
  <2>3. CASE line[c] = id
    <3>1. dispatch(c, id, call[id].method) /\ UNCHANGED toClient
      BY <1>5, <2>3 DEF ReadsLine
    <3>2. call[id].method \in Method
      BY <2>2 DEF Call
    <3>3. job' \in [Client -> Job \cup {None}]
      <4> DEFINE new == [id |-> id, method |-> call[id].method, prefs |-> Requested(id),
                         at |-> IF call[id].method = "save" THEN "open" ELSE "begin", fd |-> 0]
      <4>1. Requested(id) \in Preferences /\ 0 \in Inode
        BY <2>1, RequestedType DEF Inode
      <4>2. new \in Job
        BY <2>1, <3>2, <4>1 DEF Job
      <4>3. job' = [job EXCEPT ![c] = new] /\ job \in [Client -> Job \cup {None}]
        BY <3>1 DEF dispatch, IpcTypeOK, HandlersTypeOK
      <4> HIDE DEF new
      <4>4. QED
        BY <4>2, <4>3
    <3>4. QED
      BY <1>5, <2>1, <3>1, <3>3 DEF ReadsLine, dispatch, IpcTypeOK, HandlersTypeOK
  <2>4. CASE line[c] # id
    <3>1. toClient' \in [Client -> Seq(Message)] /\ UNCHANGED handlerVars
      BY <1>5, <1>a, <2>4 DEF ReadsLine, Message
    <3>2. QED
      BY <1>5, <2>1, <3>1 DEF ReadsLine, IpcTypeOK, HandlersTypeOK
  <2>5. QED
    BY <2>3, <2>4
<1>6. ASSUME NEW c \in Client, ForwardsPush(c) PROVE IpcTypeOK'
  <2>1. pos[c] \in 1..MaxPush /\ Oldest \in 1..MaxPush + 1 /\ pos[c] + 1 \in 1..MaxPush + 1
    <3>1. pos[c] \in 1..MaxPush + 1 /\ sent \in 0..MaxPush /\ pos[c] <= sent
      BY <1>6 DEF ForwardsPush, IpcTypeOK
    <3>2. QED
      BY <3>1 DEF Oldest
  <2>2. [kind |-> "push", n |-> pos[c]] \in Message
    BY <2>1 DEF Message
  <2>3. toClient' \in [Client -> Seq(Message)]
    BY <1>6, <1>a, <2>2 DEF ForwardsPush, IpcTypeOK
  <2>4. pos' \in [Client -> 1..MaxPush + 1]
    BY <1>6, <2>1 DEF ForwardsPush, IpcTypeOK
  <2>5. cut' \subseteq Id /\ line' \in [Client -> Id \cup {None}]
    BY <1>6 DEF ForwardsPush, IpcTypeOK
  <2>6. QED
    BY <1>6, <2>3, <2>4, <2>5 DEF ForwardsPush, IpcTypeOK, HandlersTypeOK
<1>7. ASSUME NEW c \in Client, Handles(c) PROVE IpcTypeOK'
  BY <1>7, HandlersStepType DEF Handles, IpcTypeOK
<1>8. ASSUME NEW c \in Client, Replies(c) PROVE IpcTypeOK'
  <2>1. job[c] \in Job
    BY <1>8 DEF Replies, IpcTypeOK, HandlersTypeOK
  <2>2. [kind |-> "answer", id |-> job[c].id, ok |-> job[c].at = "ok"] \in Message
    BY <2>1 DEF Message, Job
  <2>3. toClient' \in [Client -> Seq(Message)]
    BY <1>8, <1>a, <2>2 DEF Replies, IpcTypeOK
  <2>4. job' \in [Client -> Job \cup {None}]
    BY <1>8 DEF Replies, IpcTypeOK, HandlersTypeOK
  <2>5. QED
    BY <1>8, <2>3, <2>4 DEF Replies, IpcTypeOK, HandlersTypeOK
<1>9. ASSUME NEW c \in Client, NEW m \in MethodsOf(c), DaemonCall(c, m) PROVE IpcTypeOK'
  <2>1. /\ call' \in Seq(Call) /\ Len(call') <= MaxCalls /\ Len(call') \in Id
        /\ load' \in 0..MaxLoad
    BY <1>9, NewCallType DEF DaemonCall
  <2>2. toServer' \in [Client -> Seq(Part)]
    BY <1>9, <2>1, LineAppended DEF DaemonCall, IpcTypeOK
  <2>3. pending' \in [Client -> SUBSET Id] /\ writer' \in [Client -> BOOLEAN]
    BY <1>9, <2>1 DEF DaemonCall, IpcTypeOK
  <2>4. QED
    BY <1>9, <2>1, <2>2, <2>3 DEF DaemonCall, IpcTypeOK, HandlersTypeOK
<1>10. ASSUME NEW c \in Client, NEW m \in MethodsOf(c), ExtCall(c, m) PROVE IpcTypeOK'
  <2>1. /\ call' \in Seq(Call) /\ Len(call') <= MaxCalls /\ Len(call') \in Id
        /\ load' \in 0..MaxLoad
    BY <1>10, NewCallType DEF ExtCall
  <2>2. toServer' \in [Client -> Seq(Part)]
    BY <1>10, <2>1, LineAppended DEF ExtCall, IpcTypeOK
  <2>3. QED
    BY <1>10, <2>1, <2>2 DEF ExtCall, IpcTypeOK, HandlersTypeOK
<1>s. ASSUME NEW c \in Client, Got(c) \in Message, Sees(c) PROVE shown' \in [Client -> 0..MaxPush]
  BY <1>s DEF Sees, IpcTypeOK, Message
<1>11. ASSUME NEW c \in Client, handle_message(c) PROVE IpcTypeOK'
  <2>1. toClient' \in [Client -> Seq(Message)] /\ Got(c) \in Message
    BY <1>11, <1>c DEF handle_message
  <2>2. shown' \in [Client -> 0..MaxPush]
    BY <1>11, <2>1, <1>s DEF handle_message
  <2>3. CASE Got(c).kind = "answer" /\ Got(c).id \in pending[c]
    <3>1. Answers(Got(c).id, Got(c)) /\ pending' = [pending EXCEPT ![c] = @ \ {Got(c).id}]
      BY <1>11, <2>3 DEF handle_message
    <3>2. call' \in Seq(Call) /\ Len(call') <= MaxCalls
      <4>1. Got(c).id \in 1..Len(call)
        BY <2>3 DEF InFlight, Of
      <4>2. QED
        BY <2>1, <2>3, <3>1, <4>1, AnswersType
    <3>3. QED
      BY <1>11, <2>1, <2>2, <3>1, <3>2 DEF handle_message, IpcTypeOK, HandlersTypeOK
  <2>4. CASE ~(Got(c).kind = "answer" /\ Got(c).id \in pending[c])
    BY <1>11, <2>1, <2>2, <2>4 DEF handle_message, IpcTypeOK, HandlersTypeOK
  <2>5. QED
    BY <2>3, <2>4
<1>12. ASSUME NEW c \in Client, ReaderEnds(c) PROVE IpcTypeOK'
  <2>1. call' \in Seq(Call) /\ Len(call') <= MaxCalls
    BY <1>12, ReaderEndsCalls
  <2>2. QED
    BY <1>12, <2>1 DEF ReaderEnds, IpcTypeOK, HandlersTypeOK
<1>13. ASSUME NEW id \in Id, ExtReads(id) PROVE IpcTypeOK'
  <2> DEFINE c == call[id].by
  <2>1. id \in 1..Len(call) /\ c \in Client
    BY <1>13, WaitingIsCall DEF ExtReads
  <2>2. toClient' \in [Client -> Seq(Message)] /\ Got(c) \in Message
    BY <1>13, <1>c, <2>1 DEF ExtReads
  <2>3. shown' \in [Client -> 0..MaxPush]
    BY <1>13, <2>1, <2>2, <1>s DEF ExtReads
  <2>4. call' \in Seq(Call) /\ Len(call') <= MaxCalls
    BY <1>13, <2>1, <2>2, AnswersType DEF ExtReads, IpcTypeOK
  <2>5. QED
    BY <1>13, <2>2, <2>3, <2>4 DEF ExtReads, IpcTypeOK, HandlersTypeOK
<1>14. ASSUME NEW id \in Id, ExtGivesUp(id) PROVE IpcTypeOK'
  <2>1. id \in 1..Len(call) /\ call[id] \in Call /\ call \in Seq(Call) /\ call[id].by \in Client
    BY <1>14, WaitingIsCall DEF ExtGivesUp, IpcTypeOK
  <2>2. [call[id] EXCEPT !.at = "failed"] \in Call
    BY <2>1 DEF Call
  <2>3. call' \in Seq(Call) /\ Len(call') = Len(call)
    BY <1>14, <2>1, <2>2, ExceptSeq DEF ExtGivesUp
  <2>4. QED
    BY <1>14, <2>1, <2>3 DEF ExtGivesUp, IpcTypeOK, HandlersTypeOK
<1>15. ASSUME Push PROVE IpcTypeOK'
  BY <1>15 DEF Push, Load, IpcTypeOK, HandlersTypeOK
<1>16. ASSUME Crash PROVE IpcTypeOK'
  <2>1. HandlersTypeOK'
    <3>1. HandlersTypeOK /\ HandlersRestart /\ DefaultPreferences \in Preferences
      BY <1>16 DEF Crash, IpcTypeOK, DefaultPreferences, Preferences
    <3>2. memory' \in Preferences
      <4>1. content[toml] \in Preferences \cup {Torn}
        BY <3>1 DEF HandlersTypeOK
      <4>2. QED
        BY <3>1, <4>1 DEF HandlersRestart
    <3>3. faults' \in 0..MaxFaults
      BY <3>1 DEF HandlersRestart, Fault, HandlersTypeOK
    <3>4. QED
      BY <3>1, <3>2, <3>3 DEF HandlersRestart, HandlersTypeOK
  <2>2. QED
    BY <1>16, <2>1, EmptySeq DEF Crash, IpcTypeOK
<1>17. ASSUME Start PROVE IpcTypeOK'
  BY <1>17 DEF Start, IpcTypeOK, HandlersTypeOK
<1>18. QED
  BY <1>1, <1>2, <1>3, <1>4, <1>5, <1>6, <1>7, <1>8, <1>9, <1>10, <1>11, <1>12, <1>13,
     <1>14, <1>15, <1>16, <1>17 DEF IpcNext, Serve, AppReads, ExtWaits

-----------------------------------------------------------------------------
\* What the steps do to the calls and to what is on its way.

\* The fields of a call that stay as they were when it was made.
Kept(i) == /\ call'[i].by = call[i].by /\ call'[i].method = call[i].method
           /\ call'[i].behind = call[i].behind

\* Giving up fails the call and leaves the others alone.
LEMMA GivesUpCalls ==
    ASSUME IpcTypeOK, NEW id \in Id, ExtGivesUp(id)
    PROVE  /\ call' \in Seq(Call) /\ Len(call') = Len(call)
           /\ call'[id].at = "failed" /\ call'[id].answer = call[id].answer
           /\ \A i \in 1..Len(call) : Kept(i) /\ (i # id => call'[i] = call[i])
<1> DEFINE new == [call[id] EXCEPT !.at = "failed"]
<1>1. id \in 1..Len(call) /\ call[id] \in Call /\ call \in Seq(Call)
  BY WaitingIsCall DEF ExtGivesUp, IpcTypeOK
<1>2. /\ new \in Call /\ new.at = "failed" /\ new.answer = call[id].answer
      /\ new.by = call[id].by /\ new.method = call[id].method /\ new.behind = call[id].behind
  BY <1>1 DEF Call
<1>3. call' = [call EXCEPT ![id] = new]
  BY DEF ExtGivesUp
<1> HIDE DEF new
<1>4. /\ call' \in Seq(Call) /\ Len(call') = Len(call)
      /\ \A j \in 1..Len(call) : call'[j] = IF j = id THEN new ELSE call[j]
  BY <1>1, <1>2, <1>3, ExceptSeq
<1>5. QED
  BY <1>1, <1>2, <1>4 DEF Kept

\* The same of an answer ...
LEMMA AnswersCalls ==
    ASSUME IpcTypeOK, NEW id \in 1..Len(call), NEW msg \in Message, msg.kind = "answer",
           Answers(id, msg)
    PROVE  /\ Len(call') = Len(call) /\ call'[id].answer = msg.id
           /\ call'[id].at = IF msg.ok THEN "returned" ELSE "failed"
           /\ \A i \in 1..Len(call) : Kept(i) /\ (i # id => call'[i] = call[i])
<1>1. call[id] \in Call
  BY ElementOfSeq DEF IpcTypeOK
<1>2. call'[id] = [call[id] EXCEPT !.at = IF msg.ok THEN "returned" ELSE "failed",
                                   !.answer = msg.id]
  BY AnswersType
<1>3. /\ call'[id].answer = msg.id /\ call'[id].at = IF msg.ok THEN "returned" ELSE "failed"
      /\ Kept(id)
  BY <1>1, <1>2 DEF Call, Kept
<1>4. QED
  BY <1>3, AnswersType DEF Kept

\* ... and of the end of a reader.
LEMMA EndedCalls ==
    ASSUME IpcTypeOK, NEW c \in Client, ReaderEnds(c)
    PROVE  /\ Len(call') = Len(call)
           /\ \A i \in 1..Len(call) :
                 /\ Kept(i) /\ call'[i].answer = call[i].answer
                 /\ call'[i].at = call[i].at \/ (i \in pending[c] /\ call'[i].at = "failed")
<1>1. \A i \in 1..Len(call) : call[i] \in Call
  BY ElementOfSeq DEF IpcTypeOK
<1>2. /\ Len(call') = Len(call)
      /\ \A i \in 1..Len(call) :
            call'[i] = IF i \in pending[c] THEN [call[i] EXCEPT !.at = "failed"] ELSE call[i]
  BY ReaderEndsCalls
<1>3. ASSUME NEW i \in 1..Len(call)
      PROVE  /\ Kept(i) /\ call'[i].answer = call[i].answer
             /\ call'[i].at = call[i].at \/ (i \in pending[c] /\ call'[i].at = "failed")
  <2>1. call[i] \in Call
    BY <1>1
  <2>2. CASE i \in pending[c]
    BY <1>2, <2>1, <2>2 DEF Call, Kept
  <2>3. CASE i \notin pending[c]
    BY <1>2, <2>3 DEF Kept
  <2>4. QED
    BY <2>2, <2>3
<1>4. QED
  BY <1>2, <1>3

\* The steps that leave the calls alone.
Elsewhere ==
    \/ \E c \in Client : connect_or_spawn(c) \/ gdriver_connect(c) \/ gdriver_disconnect(c)
    \/ \E c \in Client : Serve(c)
    \/ Push \/ Crash \/ Start

\* They do.
LEMMA ElsewhereCalls == Elsewhere => UNCHANGED call
BY DEF Elsewhere, connect_or_spawn, gdriver_connect, gdriver_disconnect, Serve, ReadsPart,
       ReadsLine, ForwardsPush, Handles, Replies, Push, Crash, Start, clientVars

\* A blocking client's read is of a call that waits, and of the first message.
LEMMA ExtReadsWhat ==
    ASSUME IpcTypeOK, NEW id \in Id, ExtReads(id)
    PROVE  /\ id \in 1..Len(call) /\ call[id].by \in Ext /\ call[id].by \in Client
           /\ call[id].at = "waiting" /\ toClient[call[id].by] # << >>
           /\ Got(call[id].by) \in Message
           /\ Got(call[id].by) = toClient[call[id].by][1]
           /\ 1 \in 1..Len(toClient[call[id].by])
           /\ IF Got(call[id].by).kind = "answer" THEN Answers(id, Got(call[id].by))
              ELSE UNCHANGED call
<1>1. /\ id \in 1..Len(call) /\ call[id].by \in Client
      /\ call[id].at = "waiting" /\ call[id].by \in Ext /\ toClient[call[id].by] # << >>
      /\ IF Got(call[id].by).kind = "answer" THEN Answers(id, Got(call[id].by))
         ELSE UNCHANGED call
  BY WaitingIsCall DEF ExtReads, Waiting
<1>2. toClient[call[id].by] \in Seq(Message)
  BY <1>1 DEF IpcTypeOK
<1>3. QED
  BY <1>1, <1>2, HeadTail DEF Got

\* The application's read, likewise.
LEMMA MessageWhat ==
    ASSUME IpcTypeOK, InFlight, NEW c \in Client, handle_message(c)
    PROVE  /\ c \in App /\ toClient[c] # << >> /\ Got(c) \in Message
           /\ Got(c) = toClient[c][1] /\ 1 \in 1..Len(toClient[c])
           /\ \/ UNCHANGED <<call, pending>>
              \/ /\ Got(c).kind = "answer" /\ Got(c).id \in pending[c]
                 /\ Got(c).id \in 1..Len(call) /\ call[Got(c).id].by = c
                 /\ Answers(Got(c).id, Got(c))
                 /\ pending' = [pending EXCEPT ![c] = @ \ {Got(c).id}]
<1>1. /\ c \in App /\ toClient[c] # << >>
      /\ \/ UNCHANGED <<call, pending>>
         \/ /\ Got(c).kind = "answer" /\ Got(c).id \in pending[c]
            /\ Answers(Got(c).id, Got(c))
            /\ pending' = [pending EXCEPT ![c] = @ \ {Got(c).id}]
  BY DEF handle_message
<1>2. toClient[c] \in Seq(Message)
  BY DEF IpcTypeOK
<1>3. Got(c) \in Message /\ Got(c) = toClient[c][1] /\ 1 \in 1..Len(toClient[c])
  BY <1>1, <1>2, HeadTail DEF Got
<1>4. QED
  BY <1>1, <1>3 DEF InFlight, Of

\* Only a new call adds to the calls; the others keep them as they are, up to
\* their ends.
LEMMA SameCalls ==
    ASSUME IpcTypeOK, InFlight, IpcNext,
           ~\E c \in Client : \E m \in MethodsOf(c) : DaemonCall(c, m) \/ ExtCall(c, m)
    PROVE  Len(call') = Len(call) /\ \A i \in 1..Len(call) : Kept(i)
<1>a. UNCHANGED call => Len(call') = Len(call) /\ \A i \in 1..Len(call) : Kept(i)
  BY DEF Kept
<1>1. CASE Elsewhere
  BY <1>1, <1>a, ElsewhereCalls
<1>2. ASSUME NEW c \in Client, handle_message(c)
      PROVE  Len(call') = Len(call) /\ \A i \in 1..Len(call) : Kept(i)
  <2>1. CASE UNCHANGED call
    BY <1>a, <2>1
  <2>2. CASE ~UNCHANGED call
    BY <1>2, <2>2, MessageWhat, AnswersCalls
  <2>3. QED
    BY <2>1, <2>2
<1>3. ASSUME NEW c \in Client, ReaderEnds(c)
      PROVE  Len(call') = Len(call) /\ \A i \in 1..Len(call) : Kept(i)
  BY <1>3, EndedCalls
<1>4. ASSUME NEW id \in Id, ExtReads(id)
      PROVE  Len(call') = Len(call) /\ \A i \in 1..Len(call) : Kept(i)
  <2>1. CASE UNCHANGED call
    BY <1>a, <2>1
  <2>2. CASE ~UNCHANGED call
    BY <1>4, <2>2, ExtReadsWhat, AnswersCalls
  <2>3. QED
    BY <2>1, <2>2
<1>5. ASSUME NEW id \in Id, ExtGivesUp(id)
      PROVE  Len(call') = Len(call) /\ \A i \in 1..Len(call) : Kept(i)
  BY <1>5, GivesUpCalls
<1>6. QED
  BY <1>1, <1>2, <1>3, <1>4, <1>5 DEF IpcNext, Elsewhere, AppReads, ExtWaits

\* A new call is made by either client.
LEMMA NewCallMade ==
    ASSUME NEW c \in Client, NEW m \in MethodsOf(c), DaemonCall(c, m) \/ ExtCall(c, m)
    PROVE  \E at \in {"waiting", "failed"} : NewCall(c, m, at)
BY DEF DaemonCall, ExtCall

\* No call is ever taken back.
LEMMA CallsKept ==
    ASSUME IpcTypeOK, InFlight, IpcNext
    PROVE  /\ Len(call) \in Nat /\ Len(call') \in Nat /\ Len(call) <= Len(call')
           /\ \A i \in 1..Len(call) : i \in 1..Len(call') /\ Kept(i)
<1>0. Len(call) \in Nat
  BY LenProperties DEF IpcTypeOK
<1>1. CASE ~\E c \in Client : \E m \in MethodsOf(c) : DaemonCall(c, m) \/ ExtCall(c, m)
  BY <1>0, <1>1, SameCalls
<1>2. ASSUME NEW c \in Client, NEW m \in MethodsOf(c), DaemonCall(c, m) \/ ExtCall(c, m)
      PROVE  /\ Len(call') \in Nat /\ Len(call) <= Len(call')
             /\ \A i \in 1..Len(call) : i \in 1..Len(call') /\ Kept(i)
  <2>1. Len(call') = Len(call) + 1 /\ \A i \in 1..Len(call) : call'[i] = call[i]
    BY <1>2, NewCallMade, NewCallType
  <2>2. QED
    BY <1>0, <2>1 DEF Kept
<1>3. QED
  BY <1>0, <1>1, <1>2

\* A part on its way to the daemon was so before, or is of a new call.
LEMMA ServerQueue ==
    ASSUME IpcTypeOK, IpcNext, NEW d \in Client, NEW k \in 1..Len(toServer'[d])
    PROVE  \/ \E l \in 1..Len(toServer[d]) : toServer'[d][k] = toServer[d][l]
           \/ /\ toServer'[d][k].id = Len(call') /\ Len(call') = Len(call) + 1
              /\ call'[Len(call')].by = d /\ Len(call) \in Nat
<1>0. toServer[d] \in Seq(Part) /\ Len(toServer[d]) \in Nat /\ toServer \in [Client -> Seq(Part)]
  BY LenProperties DEF IpcTypeOK
<1>1. CASE UNCHANGED toServer
  BY <1>1
<1>2. CASE toServer'[d] = << >>
  BY <1>2, EmptySeq
<1>3. ASSUME NEW c \in Client, toServer[c] # << >>, toServer' = [toServer EXCEPT ![c] = Tail(@)]
      PROVE  \E l \in 1..Len(toServer[d]) : toServer'[d][k] = toServer[d][l]
  <2>1. CASE c = d
    <3>1. toServer'[d] = Tail(toServer[d])
      BY <1>0, <1>3, <2>1
    <3>2. /\ Len(Tail(toServer[d])) = Len(toServer[d]) - 1
          /\ \A l \in 1..Len(Tail(toServer[d])) : Tail(toServer[d])[l] = toServer[d][l + 1]
      BY <1>0, <1>3, <2>1, HeadTail
    <3>3. k + 1 \in 1..Len(toServer[d]) /\ toServer'[d][k] = toServer[d][k + 1]
      BY <1>0, <3>1, <3>2
    <3>4. QED
      BY <3>3
  <2>2. CASE c # d
    BY <1>0, <1>3, <2>2
  <2>3. QED
    BY <2>1, <2>2
<1>4. ASSUME NEW c \in Client, NEW m \in MethodsOf(c), NEW at \in {"waiting", "failed"},
             NewCall(c, m, at),
             toServer' = [toServer EXCEPT ![c] = @ \o Line(Len(call'))]
      PROVE  \/ \E l \in 1..Len(toServer[d]) : toServer'[d][k] = toServer[d][l]
             \/ /\ toServer'[d][k].id = Len(call') /\ Len(call') = Len(call) + 1
                /\ call'[Len(call')].by = d /\ Len(call) \in Nat
  <2>1. CASE c = d
    <3> DEFINE id == Len(call')  q == toServer[d]
    <3>1. id \in Id /\ id = Len(call) + 1 /\ call'[id].by = c /\ Len(call) \in Nat
      BY <1>4, NewCallType
    <3>2. toServer'[d] = q \o Line(id)
      BY <1>0, <1>4, <2>1
    <3> HIDE DEF id
    <3>3. /\ Len(q \o Line(id)) = Len(q) + 2
          /\ \A l \in 1..Len(q) : (q \o Line(id))[l] = q[l]
          /\ (q \o Line(id))[Len(q) + 1] = [id |-> id, part |-> "head"]
          /\ (q \o Line(id))[Len(q) + 2] = [id |-> id, part |-> "tail"]
      BY <1>0, <3>1, LineAppended
    <3>4. k \in 1..Len(q) \/ k = Len(q) + 1 \/ k = Len(q) + 2
      BY <1>0, <3>2, <3>3
    <3>5. CASE k \in 1..Len(q)
      BY <3>2, <3>3, <3>5
    <3>6. CASE k = Len(q) + 1 \/ k = Len(q) + 2
      <4>1. toServer'[d][k].id = id
        BY <3>2, <3>3, <3>6
      <4>2. QED
        BY <4>1, <3>1, <2>1 DEF id
    <3>7. QED
      BY <3>4, <3>5, <3>6
  <2>2. CASE c # d
    BY <1>0, <1>4, <2>2
  <2>3. QED
    BY <2>1, <2>2
<1>5. ASSUME NEW c \in Client, Accept(c)
      PROVE  toServer'[d] = << >> \/ toServer'[d] = toServer[d]
  BY <1>0, <1>5 DEF Accept
<1>6. ASSUME NEW c \in Client,
             connect_or_spawn(c) \/ gdriver_connect(c) \/ gdriver_disconnect(c)
      PROVE  toServer'[d] = << >> \/ toServer'[d] = toServer[d]
  BY <1>5, <1>6 DEF connect_or_spawn, gdriver_connect, gdriver_disconnect, socketVars
<1>7. ASSUME NEW c \in Client, Serve(c) \/ AppReads(c)
      PROVE  \/ UNCHANGED toServer
             \/ toServer[c] # << >> /\ toServer' = [toServer EXCEPT ![c] = Tail(@)]
  BY <1>7 DEF Serve, ReadsPart, ReadsLine, ForwardsPush, Handles, Replies, AppReads,
              handle_message, ReaderEnds, socketVars
<1>8. ASSUME NEW c \in Client, NEW m \in MethodsOf(c), DaemonCall(c, m) \/ ExtCall(c, m)
      PROVE  \E at \in {"waiting", "failed"} :
                NewCall(c, m, at) /\ \/ UNCHANGED toServer
                                     \/ toServer' = [toServer EXCEPT ![c] = @ \o Line(Len(call'))]
  BY <1>8 DEF DaemonCall, ExtCall
<1>9. ASSUME NEW id \in Id, ExtWaits(id) PROVE UNCHANGED toServer
  BY <1>9 DEF ExtWaits, ExtReads, ExtGivesUp
<1>10. ASSUME Push \/ Crash \/ Start PROVE UNCHANGED toServer \/ toServer'[d] = << >>
  BY <1>10 DEF Push, Crash, Start, socketVars
<1>11. QED
  BY <1>1, <1>2, <1>3, <1>4, <1>6, <1>7, <1>8, <1>9, <1>10 DEF IpcNext

\* A message on its way to a client was so before, or is the answer of the
\* handler, or is none.
LEMMA ClientQueue ==
    ASSUME IpcTypeOK, IpcNext, NEW d \in Client, NEW k \in 1..Len(toClient'[d])
    PROVE  \/ \E l \in 1..Len(toClient[d]) : toClient'[d][k] = toClient[d][l]
           \/ /\ job[d] # None /\ job[d].at \in {"ok", "err"}
              /\ toClient'[d][k] = [kind |-> "answer", id |-> job[d].id, ok |-> job[d].at = "ok"]
           \/ toClient'[d][k].kind # "answer"
<1>0. toClient[d] \in Seq(Message) /\ Len(toClient[d]) \in Nat
      /\ toClient \in [Client -> Seq(Message)]
  BY LenProperties DEF IpcTypeOK
<1>1. CASE UNCHANGED toClient
  BY <1>1
<1>2. CASE toClient'[d] = << >>
  BY <1>2, EmptySeq
<1>3. ASSUME NEW c \in Client, toClient[c] # << >>, toClient' = [toClient EXCEPT ![c] = Tail(@)]
      PROVE  \E l \in 1..Len(toClient[d]) : toClient'[d][k] = toClient[d][l]
  <2>1. CASE c = d
    <3>1. toClient'[d] = Tail(toClient[d])
      BY <1>0, <1>3, <2>1
    <3>2. /\ Len(Tail(toClient[d])) = Len(toClient[d]) - 1
          /\ \A l \in 1..Len(Tail(toClient[d])) : Tail(toClient[d])[l] = toClient[d][l + 1]
      BY <1>0, <1>3, <2>1, HeadTail
    <3>3. k + 1 \in 1..Len(toClient[d]) /\ toClient'[d][k] = toClient[d][k + 1]
      BY <1>0, <3>1, <3>2
    <3>4. QED
      BY <3>3
  <2>2. CASE c # d
    BY <1>0, <1>3, <2>2
  <2>3. QED
    BY <2>1, <2>2
<1>4. ASSUME NEW c \in Client, NEW msg \in Message, Sends(c, msg)
      PROVE  \/ \E l \in 1..Len(toClient[d]) : toClient'[d][k] = toClient[d][l]
             \/ c = d /\ toClient'[d][k] = msg
  <2>1. CASE c = d
    <3>1. toClient'[d] = Append(toClient[d], msg)
      BY <1>0, <1>4, <2>1 DEF Sends
    <3>2. /\ Len(Append(toClient[d], msg)) = Len(toClient[d]) + 1
          /\ \A l \in 1..Len(toClient[d]) : Append(toClient[d], msg)[l] = toClient[d][l]
          /\ Append(toClient[d], msg)[Len(toClient[d]) + 1] = msg
      BY <1>0, Appended
    <3>3. k \in 1..Len(toClient[d]) \/ k = Len(toClient[d]) + 1
      BY <1>0, <3>1, <3>2
    <3>4. QED
      BY <2>1, <3>1, <3>2, <3>3
  <2>2. CASE c # d
    BY <1>0, <1>4, <2>2 DEF Sends
  <2>3. QED
    BY <2>1, <2>2
<1>5. ASSUME NEW c \in Client, Accept(c)
      PROVE  toClient'[d] = << >> \/ toClient'[d] = toClient[d]
  BY <1>0, <1>5 DEF Accept
<1>6. ASSUME NEW c \in Client,
             connect_or_spawn(c) \/ gdriver_connect(c) \/ gdriver_disconnect(c)
      PROVE  toClient'[d] = << >> \/ toClient'[d] = toClient[d]
  BY <1>5, <1>6 DEF connect_or_spawn, gdriver_connect, gdriver_disconnect, socketVars
<1>7. ASSUME NEW c \in Client, ReadsLine(c)
      PROVE  UNCHANGED toClient \/ Sends(c, [kind |-> "parse_error"])
  BY <1>7 DEF ReadsLine
<1>8. ASSUME NEW c \in Client, ForwardsPush(c)
      PROVE  UNCHANGED toClient \/ \E n \in 1..MaxPush : Sends(c, [kind |-> "push", n |-> n])
  <2>1. pos[c] \in 1..MaxPush
    BY <1>8, Bounds DEF ForwardsPush, IpcTypeOK
  <2>2. QED
    BY <1>8, <2>1 DEF ForwardsPush
<1>9. ASSUME NEW c \in Client, Replies(c)
      PROVE  /\ job[c] # None /\ job[c].at \in {"ok", "err"} /\ job[c].id \in Id
             /\ \/ UNCHANGED toClient
                \/ Sends(c, [kind |-> "answer", id |-> job[c].id, ok |-> job[c].at = "ok"])
  <2>1. job[c] \in Job
    BY <1>9 DEF Replies, IpcTypeOK, HandlersTypeOK
  <2>2. QED
    BY <1>9, <2>1 DEF Replies, Job
<1>10. /\ [kind |-> "parse_error"] \in Message
       /\ \A n \in 1..MaxPush : [kind |-> "push", n |-> n] \in Message
       /\ \A i \in Id, b \in BOOLEAN : [kind |-> "answer", id |-> i, ok |-> b] \in Message
  BY DEF Message
<1>11. ASSUME NEW c \in Client, ReadsPart(c) \/ Handles(c) \/ ReaderEnds(c)
       PROVE  UNCHANGED toClient
  BY <1>11 DEF ReadsPart, Handles, ReaderEnds, socketVars
<1>12. ASSUME NEW c \in Client, handle_message(c)
       PROVE  toClient[c] # << >> /\ toClient' = [toClient EXCEPT ![c] = Tail(@)]
  BY <1>12 DEF handle_message
<1>13. ASSUME NEW id \in Id, ExtReads(id)
       PROVE  \E c \in Client : toClient[c] # << >> /\ toClient' = [toClient EXCEPT ![c] = Tail(@)]
  BY <1>13, ExtReadsWhat DEF ExtReads
<1>14. ASSUME \/ \E id \in Id : ExtGivesUp(id)
              \/ \E c \in Client : \E m \in MethodsOf(c) : DaemonCall(c, m) \/ ExtCall(c, m)
              \/ Push \/ Crash \/ Start
       PROVE  UNCHANGED toClient
  BY <1>14 DEF ExtGivesUp, DaemonCall, ExtCall, Push, Crash, Start, socketVars
<1>15. CASE \E c \in Client : Serve(c) \/ AppReads(c)
  <2>1. PICK c \in Client : Serve(c) \/ AppReads(c)
    BY <1>15
  <2>2. CASE ReadsLine(c)
    BY <1>1, <1>4, <1>7, <1>10, <2>2
  <2>3. CASE ForwardsPush(c)
    <3>1. ASSUME NEW n \in 1..MaxPush, Sends(c, [kind |-> "push", n |-> n])
          PROVE  \/ \E l \in 1..Len(toClient[d]) : toClient'[d][k] = toClient[d][l]
                 \/ toClient'[d][k].kind # "answer"
      BY <1>4, <1>10, <3>1
    <3>2. QED
      BY <1>1, <1>8, <2>3, <3>1
  <2>4. CASE Replies(c)
    <3>1. (job[c].at = "ok") \in BOOLEAN
      OBVIOUS
    <3>2. [kind |-> "answer", id |-> job[c].id, ok |-> job[c].at = "ok"] \in Message
      BY <1>9, <1>10, <2>4, <3>1
    <3>3. QED
      BY <1>1, <1>4, <1>9, <2>4, <3>2
  <2>5. QED
    BY <1>1, <1>3, <1>11, <1>12, <2>1, <2>2, <2>3, <2>4 DEF Serve, AppReads
<1>16. QED
  BY <1>1, <1>2, <1>3, <1>6, <1>13, <1>14, <1>15 DEF IpcNext, ExtWaits

\* A step of a handler moves that handler on, and only it.
LEMMA HandlerJob ==
    ASSUME HandlersTypeOK, NEW c \in Client, HandlerStep(c)
    PROVE  /\ job[c] \in Job /\ job[c] # None /\ job'[c] \in Job /\ job'[c] # None
           /\ job'[c].id = job[c].id /\ job'[c].method = job[c].method
           /\ \A d \in Client : d # c => job'[d] = job[d]
           /\ job[c].at \in Places(job[c].method) => job'[c].at \in Places(job[c].method)
<1>1. job[c] # None
  BY DEF HandlerStep, OpenTmp, WriteTmp, RenameTmp, SaveFails, SwapMemory, SetMode,
         SendSwitchMode, ItemRow, ItemTask, SetOffline, At
<1>2. job[c] \in Job /\ job \in [Client -> Job \cup {None}] /\ job[c].method \in Method
  BY <1>1 DEF HandlersTypeOK, Job
<1>3. ASSUME NEW p, GoTo(c, p)
      PROVE  /\ job'[c].id = job[c].id /\ job'[c].method = job[c].method /\ job'[c].at = p
             /\ \A d \in Client : d # c => job'[d] = job[d]
  BY <1>2, <1>3 DEF GoTo, Job
<1>4. ASSUME NEW fd \in Inode, job' = [job EXCEPT ![c].fd = fd, ![c].at = "write"]
      PROVE  /\ job'[c].id = job[c].id /\ job'[c].method = job[c].method /\ job'[c].at = "write"
             /\ \A d \in Client : d # c => job'[d] = job[d]
  BY <1>2, <1>4 DEF Job
<1>5. ASSUME NEW p, job' = [job EXCEPT ![c].prefs = p, ![c].at = "open"]
      PROVE  /\ job'[c].id = job[c].id /\ job'[c].method = job[c].method /\ job'[c].at = "open"
             /\ \A d \in Client : d # c => job'[d] = job[d]
  BY <1>2, <1>5 DEF Job
<1>6. /\ job'[c].id = job[c].id /\ job'[c].method = job[c].method
      /\ \A d \in Client : d # c => job'[d] = job[d]
      /\ job[c].at \in Places(job[c].method) => job'[c].at \in Places(job[c].method)
  <2> USE <1>2 DEF Method, At, Places
  <2>1. CASE OpenTmp(c)
    <3>1. job[c].id \in Inode
      BY DEF Job, Id, Inode
    <3>2. \E fd \in Inode : job' = [job EXCEPT ![c].fd = fd, ![c].at = "write"]
      BY <2>1, <3>1 DEF OpenTmp, HandlersTypeOK
    <3>3. /\ job'[c].id = job[c].id /\ job'[c].method = job[c].method /\ job'[c].at = "write"
          /\ \A d \in Client : d # c => job'[d] = job[d]
      BY <1>4, <3>2
    <3>4. QED
      BY <2>1, <3>3 DEF OpenTmp
  <2>2. CASE WriteTmp(c)
    BY <1>3, <2>2 DEF WriteTmp
  <2>3. CASE RenameTmp(c)
    BY <1>3, <2>3 DEF RenameTmp
  <2>4. CASE SaveFails(c)
    BY <1>3, <2>4 DEF SaveFails
  <2>5. CASE SwapMemory(c)
    BY <1>3, <2>5 DEF SwapMemory
  <2>6. CASE SetMode(c)
    BY <1>3, <2>6 DEF SetMode
  <2>7. CASE SendSwitchMode(c)
    <3>1. /\ job'[c].id = job[c].id /\ job'[c].method = job[c].method /\ job'[c].at = "open"
          /\ \A d \in Client : d # c => job'[d] = job[d]
      BY <1>5, <2>7 DEF SendSwitchMode
    <3>2. QED
      BY <2>7, <3>1 DEF SendSwitchMode
  <2>8. CASE ItemRow(c)
    BY <1>3, <2>8 DEF ItemRow
  <2>9. CASE ItemTask(c)
    BY <1>3, <2>9 DEF ItemTask
  <2>10. CASE SetOffline(c)
    BY <1>3, <2>10 DEF SetOffline
  <2>11. QED
    BY <2>1, <2>2, <2>3, <2>4, <2>5, <2>6, <2>7, <2>8, <2>9, <2>10 DEF HandlerStep
<1>7. job'[c] # None
  <2>1. ASSUME NEW j, j \in Job PROVE j # None
    BY <2>1, NoneIsNoRecord
  <2>2. ASSUME NEW p \in {"ok", "err", "swap", "rename", "send", "enqueue"}, GoTo(c, p)
        PROVE  job'[c] \in Job
    BY <1>2, <2>2 DEF GoTo, Job
  <2>3. ASSUME NEW fd \in Inode, job' = [job EXCEPT ![c].fd = fd, ![c].at = "write"]
        PROVE  job'[c] \in Job
    BY <1>2, <2>3 DEF Job
  <2>4. ASSUME NEW p \in Preferences, job' = [job EXCEPT ![c].prefs = p, ![c].at = "open"]
        PROVE  job'[c] \in Job
    BY <1>2, <2>4 DEF Job
  <2>5. job[c].id \in Inode
    BY <1>2 DEF Job, Id, Inode
  <2>6. CASE OpenTmp(c)
    <3>1. \E fd \in Inode : job' = [job EXCEPT ![c].fd = fd, ![c].at = "write"]
      BY <2>5, <2>6 DEF OpenTmp, HandlersTypeOK
    <3>2. QED
      BY <2>1, <2>3, <3>1
  <2>7. CASE SendSwitchMode(c)
    <3>1. \E p \in Preferences : job' = [job EXCEPT ![c].prefs = p, ![c].at = "open"]
      BY <2>7 DEF SendSwitchMode, HandlersTypeOK
    <3>2. QED
      BY <2>1, <2>4, <3>1
  <2>8. CASE ~OpenTmp(c) /\ ~SendSwitchMode(c)
    <3>1. \E p \in {"ok", "err", "swap", "rename", "send", "enqueue"} : GoTo(c, p)
      BY <2>8 DEF HandlerStep, WriteTmp, RenameTmp, SaveFails, SwapMemory, SetMode, ItemRow,
                  ItemTask, SetOffline
    <3>2. QED
      BY <2>1, <2>2, <3>1
  <2>9. QED
    BY <2>6, <2>7, <2>8
<1>8. job'[c] \in Job
  BY <1>7, HandlersStepType DEF HandlersTypeOK
<1>9. QED
  BY <1>1, <1>2, <1>6, <1>7, <1>8

\* What a completed line starts.
LEMMA DispatchJob ==
    ASSUME IpcTypeOK, InFlight, NEW c \in Client, ReadsLine(c), ~UNCHANGED handlerVars
    PROVE  /\ job[c] = None /\ toServer[c] # << >> /\ 1 \in 1..Len(toServer[c])
           /\ toServer[c][1].part = "tail" /\ job'[c] \in Job /\ job'[c] # None
           /\ toServer[c][1].id \in Id /\ job'[c].id = toServer[c][1].id
           /\ Of(c, job'[c].id) /\ job'[c].method = call[job'[c].id].method
           /\ job'[c].at = IF job'[c].method = "save" THEN "open" ELSE "begin"
           /\ job'[c].method \in Method
           /\ \A d \in Client : d # c => job'[d] = job[d]
           /\ dispatch(c, job'[c].id, job'[c].method)
<1> DEFINE id == Head(toServer[c]).id
           m == call[id].method
           new == [id |-> id, method |-> m, prefs |-> Requested(id),
                   at |-> IF m = "save" THEN "open" ELSE "begin", fd |-> 0]
<1>1. toServer[c] \in Seq(Part) /\ call \in Seq(Call) /\ job \in [Client -> Job \cup {None}]
  BY DEF IpcTypeOK, HandlersTypeOK
<1>2. /\ toServer[c] # << >> /\ Head(toServer[c]).part = "tail"
      /\ dispatch(c, id, m)
  BY DEF ReadsLine
<1>3. Head(toServer[c]) = toServer[c][1] /\ 1 \in 1..Len(toServer[c]) /\ Head(toServer[c]) \in Part
  BY <1>1, <1>2, HeadTail
<1>4. id \in Id /\ Of(c, id)
  BY <1>3 DEF InFlight, Part
<1>5. call[id] \in Call
  BY <1>1, <1>4, ElementOfSeq DEF Of
<1>6. m \in Method
  BY <1>5 DEF Call
<1>7. Requested(id) \in Preferences /\ 0 \in Inode
  BY <1>4, RequestedType, HandlerConstants DEF Inode
<1>8. new \in Job /\ new.id = id /\ new.method = m
      /\ new.at = IF m = "save" THEN "open" ELSE "begin"
  BY <1>4, <1>6, <1>7 DEF Job
<1>9. job[c] = None /\ job' = [job EXCEPT ![c] = new]
  BY <1>2 DEF dispatch
<1> HIDE DEF new
<1>10. job'[c] = new /\ \A d \in Client : d # c => job'[d] = job[d]
  BY <1>1, <1>9
<1>11. new # None
  BY <1>8, NoneIsNoRecord
<1>12. QED
  BY <1>2, <1>3, <1>4, <1>6, <1>8, <1>9, <1>10, <1>11

\* A handler is gone, goes on, or has just started.
LEMMA JobStep ==
    ASSUME IpcTypeOK, InFlight, IpcNext, NEW d \in Client, job'[d] # None
    PROVE  \/ /\ job[d] # None /\ job'[d].id = job[d].id /\ job'[d].method = job[d].method
              /\ job[d].at \in Places(job[d].method) => job'[d].at \in Places(job[d].method)
           \/ /\ job[d] = None /\ Of(d, job'[d].id) /\ job'[d].method = call[job'[d].id].method
              /\ job'[d].method \in Method
              /\ job'[d].at = IF job'[d].method = "save" THEN "open" ELSE "begin"
<1>1. CASE job'[d] = job[d]
  BY <1>1
<1>2. CASE \E c \in Client : ReadsLine(c) /\ ~UNCHANGED handlerVars
  <2>1. PICK c \in Client : ReadsLine(c) /\ ~UNCHANGED handlerVars
    BY <1>2
  <2>2. CASE c = d
    BY <2>1, <2>2, DispatchJob
  <2>3. CASE c # d
    <3>1. job'[d] = job[d]
      BY <2>1, <2>3, DispatchJob
    <3>2. QED
      BY <1>1, <3>1
  <2>4. QED
    BY <2>2, <2>3
<1>3. CASE \E c \in Client : Handles(c)
  <2>1. PICK c \in Client : Handles(c)
    BY <1>3
  <2>2. HandlersTypeOK /\ HandlerStep(c)
    BY <2>1 DEF IpcTypeOK, Handles
  <2>3. CASE c = d
    BY <2>2, <2>3, HandlerJob
  <2>4. CASE c # d
    <3>1. job'[d] = job[d]
      BY <2>2, <2>4, HandlerJob
    <3>2. QED
      BY <1>1, <3>1
  <2>5. QED
    BY <2>3, <2>4
<1>4. ASSUME NEW c \in Client, Replies(c) PROVE job'[d] = job[d]
  BY <1>4 DEF Replies, IpcTypeOK, HandlersTypeOK
<1>5. ~Crash
  BY DEF Crash, HandlersRestart
<1>6. UNCHANGED handlerVars => job'[d] = job[d]
  BY DEF handlerVars
<1>7. ASSUME NEW c \in Client,
             \/ connect_or_spawn(c) \/ gdriver_connect(c) \/ gdriver_disconnect(c)
             \/ ReadsPart(c) \/ ForwardsPush(c) \/ AppReads(c)
      PROVE  UNCHANGED job
  BY <1>7 DEF connect_or_spawn, gdriver_connect, gdriver_disconnect, ReadsPart, ForwardsPush,
              AppReads, handle_message, ReaderEnds, Server, handlerVars
<1>8. ASSUME \/ \E c \in Client : \E m \in MethodsOf(c) : DaemonCall(c, m) \/ ExtCall(c, m)
             \/ \E id \in Id : ExtWaits(id)
             \/ Push \/ Start
      PROVE  UNCHANGED job
  BY <1>8 DEF DaemonCall, ExtCall, ExtWaits, ExtReads, ExtGivesUp, Push, Start, Server, handlerVars
<1>9. QED
  BY <1>1, <1>2, <1>3, <1>4, <1>5, <1>6, <1>7, <1>8 DEF IpcNext, Serve

\* The pending calls were so before, or are new.
LEMMA PendingStep ==
    ASSUME IpcTypeOK, InFlight, IpcNext, NEW d \in Client, NEW i \in pending'[d]
    PROVE  \/ i \in pending[d]
           \/ i = Len(call') /\ Len(call') = Len(call) + 1 /\ call'[i].by = d /\ Len(call) \in Nat
<1>0. pending \in [Client -> SUBSET Id]
  BY DEF IpcTypeOK
<1>1. ASSUME NEW c \in Client, NEW m \in MethodsOf(c), DaemonCall(c, m)
      PROVE  \/ i \in pending[d]
             \/ i = Len(call') /\ Len(call') = Len(call) + 1 /\ call'[i].by = d /\ Len(call) \in Nat
  <2>1. \E at \in {"waiting", "failed"} : NewCall(c, m, at)
    BY <1>1 DEF DaemonCall
  <2>2. Len(call') = Len(call) + 1 /\ call'[Len(call')].by = c /\ Len(call) \in Nat
    BY <2>1, NewCallType
  <2>3. pending' = [pending EXCEPT ![c] = @ \cup {Len(call')}]
    BY <1>1 DEF DaemonCall
  <2>4. QED
    BY <1>0, <2>2, <2>3
<1>2. ASSUME NEW c \in Client, handle_message(c) PROVE i \in pending[d]
  <2>1. UNCHANGED pending \/ pending' = [pending EXCEPT ![c] = @ \ {Got(c).id}]
    BY <1>2 DEF handle_message
  <2>2. QED
    BY <1>0, <2>1
<1>3. ASSUME NEW c \in Client, ReaderEnds(c) PROVE i \in pending[d]
  BY <1>0, <1>3 DEF ReaderEnds
<1>4. ASSUME Elsewhere PROVE UNCHANGED pending
  BY <1>4 DEF Elsewhere, connect_or_spawn, gdriver_connect, gdriver_disconnect, Serve, ReadsPart,
       ReadsLine, ForwardsPush, Handles, Replies, Push, Crash, Start, clientVars
<1>5. ASSUME \/ \E c \in Client : \E m \in MethodsOf(c) : ExtCall(c, m)
             \/ \E id \in Id : ExtWaits(id)
      PROVE  UNCHANGED pending
  BY <1>5 DEF ExtCall, ExtWaits, ExtReads, ExtGivesUp
<1>6. QED
  BY <1>1, <1>2, <1>3, <1>4, <1>5 DEF IpcNext, Elsewhere, AppReads

OfNext(c, id) == id \in 1..Len(call') /\ call'[id].by = c

\* What is on its way stays with its connection.
LEMMA InFlightStep == IpcTypeOK /\ InFlight /\ IpcNext => InFlight'
<1> SUFFICES ASSUME IpcTypeOK, InFlight, IpcNext PROVE InFlight'
  OBVIOUS
<1>1. ASSUME NEW d \in Client, NEW i, Of(d, i)
      PROVE  OfNext(d, i) /\ call'[i].method = call[i].method
  BY <1>1, CallsKept DEF Of, OfNext, Kept
<1>2. ASSUME NEW d \in Client, NEW i, i = Len(call'), Len(call') = Len(call) + 1,
             Len(call) \in Nat, call'[i].by = d
      PROVE  OfNext(d, i)
  BY <1>2 DEF OfNext
<1>3. ASSUME NEW d \in Client
      PROVE  /\ \A k \in 1..Len(toServer'[d]) : OfNext(d, toServer'[d][k].id)
             /\ job'[d] # None => OfNext(d, job'[d].id) /\ job'[d].method = call'[job'[d].id].method
             /\ \A k \in 1..Len(toClient'[d]) :
                   toClient'[d][k].kind = "answer" => OfNext(d, toClient'[d][k].id)
             /\ \A i \in pending'[d] : OfNext(d, i)
  <2>1. ASSUME NEW k \in 1..Len(toServer'[d]) PROVE OfNext(d, toServer'[d][k].id)
    <3>1. CASE \E l \in 1..Len(toServer[d]) : toServer'[d][k] = toServer[d][l]
      BY <1>1, <3>1 DEF InFlight
    <3>2. CASE /\ toServer'[d][k].id = Len(call') /\ Len(call') = Len(call) + 1
               /\ call'[Len(call')].by = d /\ Len(call) \in Nat
      BY <1>2, <3>2
    <3>3. QED
      BY <3>1, <3>2, ServerQueue
  <2>2. ASSUME job'[d] # None
        PROVE  OfNext(d, job'[d].id) /\ job'[d].method = call'[job'[d].id].method
    <3>1. Of(d, job'[d].id) /\ job'[d].method = call[job'[d].id].method
      BY <2>2, JobStep DEF InFlight
    <3>2. QED
      BY <1>1, <3>1
  <2>3. ASSUME NEW k \in 1..Len(toClient'[d]), toClient'[d][k].kind = "answer"
        PROVE  OfNext(d, toClient'[d][k].id)
    <3>1. CASE \E l \in 1..Len(toClient[d]) : toClient'[d][k] = toClient[d][l]
      BY <1>1, <2>3, <3>1 DEF InFlight
    <3>2. CASE /\ job[d] # None
               /\ toClient'[d][k] = [kind |-> "answer", id |-> job[d].id, ok |-> job[d].at = "ok"]
      <4>1. toClient'[d][k].id = job[d].id
        BY <3>2
      <4>2. QED
        BY <1>1, <3>2, <4>1 DEF InFlight
    <3>3. QED
      BY <2>3, <3>1, <3>2, ClientQueue
  <2>4. ASSUME NEW i \in pending'[d] PROVE OfNext(d, i)
    <3>1. CASE i \in pending[d]
      BY <1>1, <3>1 DEF InFlight
    <3>2. CASE i \notin pending[d]
      BY <1>2, <2>4, <3>2, PendingStep
    <3>3. QED
      BY <3>1, <3>2
  <2>5. QED
    BY <2>1, <2>2, <2>3, <2>4
<1>4. QED
  BY <1>3 DEF InFlight, Of, OfNext

\* Everybody goes on calling its own methods.
LEMMA MethodsStep == IpcTypeOK /\ InFlight /\ Methods /\ IpcNext => Methods'
<1> SUFFICES ASSUME IpcTypeOK, InFlight, Methods, IpcNext PROVE Methods'
  OBVIOUS
<1>1. ASSUME NEW c \in Client, NEW m \in MethodsOf(c), DaemonCall(c, m) \/ ExtCall(c, m)
      PROVE  Methods'
  <2>1. \E at \in {"waiting", "failed"} : NewCall(c, m, at)
    BY <1>1 DEF DaemonCall, ExtCall
  <2>2. /\ Len(call') = Len(call) + 1 /\ Len(call) \in Nat
        /\ call'[Len(call')].by = c /\ call'[Len(call')].method = m
        /\ \A i \in 1..Len(call) : call'[i] = call[i]
    BY <2>1, NewCallType
  <2>3. QED
    BY <2>2 DEF Methods, MethodsOf
<1>2. CASE Len(call') = Len(call)
  BY <1>2, CallsKept DEF Methods, MethodsOf, Kept
<1>3. CASE \E c \in Client : \E m \in MethodsOf(c) : DaemonCall(c, m) \/ ExtCall(c, m)
  BY <1>1, <1>3
<1>4. CASE ~\E c \in Client : \E m \in MethodsOf(c) : DaemonCall(c, m) \/ ExtCall(c, m)
  BY <1>2, <1>4, SameCalls
<1>5. QED
  BY <1>3, <1>4

\* A handler is where its method takes it.
LEMMA InPlaceStep == IpcTypeOK /\ InFlight /\ InPlace /\ IpcNext => InPlace'
<1> SUFFICES ASSUME IpcTypeOK, InFlight, InPlace, IpcNext, NEW d \in Client, job'[d] # None
             PROVE  job'[d].at \in Places(job'[d].method)
  BY DEF InPlace, Places
<1>1. CASE job[d] # None
  BY <1>1, JobStep DEF InPlace
<1>2. CASE job[d] = None
  <2>1. job'[d].method \in Method /\ job'[d].at = IF job'[d].method = "save" THEN "open" ELSE "begin"
    BY <1>2, JobStep
  <2>2. QED
    BY <2>1 DEF Method, Places
<1>3. QED
  BY <1>1, <1>2

-----------------------------------------------------------------------------
\* Every request has an inode of its own.

\* Before a handler has opened the file it was there too.
LEMMA HandlerEarly ==
    ASSUME HandlersTypeOK, NEW c \in Client, HandlerStep(c),
           job'[c].at \in {"begin", "send", "open"}
    PROVE  job[c].at \in {"begin", "send", "open"} /\ UNCHANGED <<toml, tmp>>
<1>1. job[c] \in Job /\ job \in [Client -> Job \cup {None}]
  BY HandlerJob DEF HandlersTypeOK
<1>2. ASSUME NEW p, GoTo(c, p) PROVE job'[c].at = p
  BY <1>1, <1>2 DEF GoTo, Job
<1>3. ~OpenTmp(c)
  BY <1>1 DEF OpenTmp, Job
<1>4. ~(WriteTmp(c) \/ RenameTmp(c) \/ SaveFails(c) \/ SwapMemory(c) \/ ItemRow(c) \/ ItemTask(c)
        \/ SetOffline(c))
  BY <1>2 DEF WriteTmp, RenameTmp, SaveFails, SwapMemory, ItemRow, ItemTask, SetOffline
<1>5. QED
  BY <1>3, <1>4 DEF HandlerStep, SetMode, SendSwitchMode, At, configVars

\* The names a step of a handler gives.
LEMMA HandlerNames ==
    ASSUME HandlersTypeOK, NEW c \in Client, HandlerStep(c)
    PROVE  \/ UNCHANGED <<toml, tmp>>
           \/ UNCHANGED toml /\ tmp = None /\ tmp' = job[c].id /\ job[c].at = "open"
           \/ toml' = tmp /\ tmp' = None /\ tmp # None
<1>1. CASE OpenTmp(c)
  BY <1>1 DEF OpenTmp, At
<1>2. CASE RenameTmp(c)
  BY <1>2 DEF RenameTmp
<1>3. CASE ~OpenTmp(c) /\ ~RenameTmp(c)
  BY <1>3 DEF HandlerStep, WriteTmp, SaveFails, SwapMemory, SetMode, SendSwitchMode,
              ItemRow, ItemTask, SetOffline, configVars
<1>4. QED
  BY <1>1, <1>2, <1>3

\* A step of a handler keeps the inodes apart.
LEMMA FreshHandles ==
    ASSUME IpcTypeOK, InFlight, Fresh, NEW c \in Client, Handles(c)
    PROVE  Fresh'
<1>1. /\ HandlersTypeOK /\ HandlerStep(c) /\ UNCHANGED <<toServer, call>>
      /\ toServer \in [Client -> Seq(Part)] /\ Len(call) \in Nat
  BY LenProperties DEF IpcTypeOK, Handles, socketVars, clientVars
<1>2. /\ job[c] # None /\ job'[c] # None /\ job'[c].id = job[c].id
      /\ \A d \in Client : d # c => job'[d] = job[d]
  BY <1>1, HandlerJob
<1>3. Of(c, job[c].id)
  BY <1>2 DEF InFlight
<1>4. FreshNames'
  <2>1. job[c].at = "open" => job[c].id # toml
    BY <1>2 DEF Fresh, FreshFor
  <2>2. job[c].id \in 1..Len(call)
    BY <1>3 DEF Of
  <2>3. QED
    BY <1>1, <2>1, <2>2, HandlerNames DEF Fresh, FreshNames
<1>5. ASSUME NEW d \in Client PROVE FreshFor(d)'
  <2>1. ASSUME NEW k \in 1..Len(toServer[d]), toServer[d][k].part = "tail"
        PROVE  /\ toServer[d][k].id # toml' /\ toServer[d][k].id # tmp'
               /\ job'[d] # None => job'[d].id # toServer[d][k].id
               /\ \A l \in 1..Len(toServer[d]) :
                     toServer[d][l].part = "tail" /\ toServer[d][l].id = toServer[d][k].id
                     => l = k
    <3>1. /\ toServer[d][k].id # toml /\ toServer[d][k].id # tmp
          /\ job[d] # None => job[d].id # toServer[d][k].id
          /\ \A l \in 1..Len(toServer[d]) :
                toServer[d][l].part = "tail" /\ toServer[d][l].id = toServer[d][k].id
                => l = k
      BY <2>1 DEF Fresh, FreshFor
    <3>2. Of(d, toServer[d][k].id)
      BY DEF InFlight
    <3>3. toServer[d][k].id # job[c].id
      BY <1>2, <1>3, <3>1, <3>2 DEF Of
    <3>4. toServer[d][k].id # None
      BY <1>1, <3>2, HandlerConstants DEF Of
    <3>5. QED
      BY <1>1, <1>2, <3>1, <3>3, <3>4, HandlerNames
  <2>2. ASSUME job'[d] # None, job'[d].at \in {"begin", "send", "open"}
        PROVE  job'[d].id # toml' /\ job'[d].id # tmp'
    <3>1. CASE d = c
      <4>1. job[c].at \in {"begin", "send", "open"} /\ UNCHANGED <<toml, tmp>>
        BY <1>1, <2>2, <3>1, HandlerEarly
      <4>2. QED
        BY <1>2, <3>1, <4>1 DEF Fresh, FreshFor
    <3>2. CASE d # c
      <4>1. job[d] # None /\ job'[d] = job[d] /\ job[d].id # toml /\ job[d].id # tmp
        BY <1>2, <2>2, <3>2 DEF Fresh, FreshFor
      <4>2. job[d].id # job[c].id /\ job[d].id \in 1..Len(call)
        BY <1>3, <3>2, <4>1 DEF InFlight, Of
      <4>3. job[d].id # None
        BY <1>1, <4>2, HandlerConstants
      <4>4. QED
        BY <1>1, <4>1, <4>2, <4>3, HandlerNames
    <3>3. QED
      BY <3>1, <3>2
  <2>3. QED
    BY <1>1, <2>1, <2>2 DEF FreshFor
<1>6. QED
  BY <1>4, <1>5 DEF Fresh

\* So does a request that is read.
LEMMA FreshReads ==
    ASSUME IpcTypeOK, InFlight, Fresh, NEW c \in Client, ReadsPart(c) \/ ReadsLine(c)
    PROVE  Fresh'
<1>1. /\ toServer[c] # << >> /\ toServer' = [toServer EXCEPT ![c] = Tail(@)]
      /\ UNCHANGED <<call, toml, tmp>>
      /\ toServer \in [Client -> Seq(Part)] /\ toServer[c] \in Seq(Part)
  BY DEF ReadsPart, ReadsLine, dispatch, IpcTypeOK, handlerVars, configVars, clientVars
<1>2. /\ Len(toServer[c]) \in Nat /\ Len(toServer'[c]) = Len(toServer[c]) - 1
      /\ \A k \in 1..Len(toServer'[c]) : toServer'[c][k] = toServer[c][k + 1]
      /\ \A d \in Client : d # c => toServer'[d] = toServer[d]
  BY <1>1, HeadTail
<1>3. FreshNames'
  BY <1>1 DEF Fresh, FreshNames
<1>4. ASSUME NEW k \in 1..Len(toServer'[c]), toServer'[c][k].part = "tail"
      PROVE  /\ toServer'[c][k].id # toml /\ toServer'[c][k].id # tmp
             /\ job[c] # None => job[c].id # toServer'[c][k].id
             /\ toServer[c][1].part = "tail" => toServer'[c][k].id # toServer[c][1].id
             /\ \A l \in 1..Len(toServer'[c]) :
                   toServer'[c][l].part = "tail" /\ toServer'[c][l].id = toServer'[c][k].id
                   => l = k
  <2>1. /\ k + 1 \in 1..Len(toServer[c]) /\ 1 \in 1..Len(toServer[c]) /\ k + 1 # 1
        /\ toServer'[c][k] = toServer[c][k + 1]
        /\ \A l \in 1..Len(toServer'[c]) : l + 1 \in 1..Len(toServer[c]) /\ (l + 1 = k + 1 => l = k)
    BY <1>2
  <2>2. FreshFor(c)
    BY DEF Fresh
  <2>3. toServer[c][k + 1].part = "tail"
    BY <1>4, <2>1
  <2>4. /\ toServer[c][k + 1].id # toml /\ toServer[c][k + 1].id # tmp
        /\ job[c] # None => job[c].id # toServer[c][k + 1].id
        /\ \A l \in 1..Len(toServer[c]) :
              toServer[c][l].part = "tail" /\ toServer[c][l].id = toServer[c][k + 1].id
              => l = k + 1
    BY <2>1, <2>2, <2>3 DEF FreshFor
  <2>5. ASSUME NEW l \in 1..Len(toServer'[c]), toServer'[c][l].part = "tail",
               toServer'[c][l].id = toServer'[c][k].id
        PROVE  l = k
    <3>1. l + 1 \in 1..Len(toServer[c]) /\ toServer'[c][l] = toServer[c][l + 1]
      BY <1>2, <2>1
    <3>2. l + 1 = k + 1
      BY <2>1, <2>4, <2>5, <3>1
    <3>3. QED
      BY <2>1, <3>2
  <2>6. toServer[c][1].part = "tail" => toServer[c][k + 1].id # toServer[c][1].id
    BY <2>1, <2>4
  <2>7. QED
    BY <2>1, <2>4, <2>5, <2>6
<1>5. CASE UNCHANGED handlerVars
  <2>1. UNCHANGED job
    BY <1>5 DEF handlerVars
  <2>2. ASSUME NEW d \in Client PROVE FreshFor(d)'
    <3>1. CASE d = c
      BY <1>1, <1>4, <2>1, <3>1 DEF Fresh, FreshFor
    <3>2. CASE d # c
      BY <1>1, <1>2, <2>1, <3>2 DEF Fresh, FreshFor
    <3>3. QED
      BY <3>1, <3>2
  <2>3. QED
    BY <1>3, <2>2 DEF Fresh
<1>6. CASE ~UNCHANGED handlerVars
  <2>1. ReadsLine(c)
    BY <1>6 DEF ReadsPart
  <2>2. /\ 1 \in 1..Len(toServer[c]) /\ toServer[c][1].part = "tail" /\ job'[c].id = toServer[c][1].id
        /\ \A d \in Client : d # c => job'[d] = job[d]
    BY <1>6, <2>1, DispatchJob
  <2>3. job'[c].id # toml /\ job'[c].id # tmp
    BY <2>2 DEF Fresh, FreshFor
  <2>4. ASSUME NEW d \in Client PROVE FreshFor(d)'
    <3>1. CASE d = c
      <4>1. ASSUME NEW k \in 1..Len(toServer'[c]), toServer'[c][k].part = "tail"
            PROVE  /\ toServer'[c][k].id # toml' /\ toServer'[c][k].id # tmp'
                   /\ job'[c] # None => job'[c].id # toServer'[c][k].id
                   /\ \A l \in 1..Len(toServer'[c]) :
                         toServer'[c][l].part = "tail" /\ toServer'[c][l].id = toServer'[c][k].id
                         => l = k
        BY <1>1, <1>4, <2>2, <4>1
      <4>2. job'[c].id # toml' /\ job'[c].id # tmp'
        BY <1>1, <2>3
      <4>3. QED
        BY <3>1, <4>1, <4>2 DEF FreshFor
    <3>2. CASE d # c
      BY <1>1, <1>2, <2>2, <3>2 DEF Fresh, FreshFor
    <3>3. QED
      BY <3>1, <3>2
  <2>5. QED
    BY <1>3, <2>4 DEF Fresh
<1>7. QED
  BY <1>5, <1>6

\* A new call has an id that nothing else has.
LEMMA FreshCall ==
    ASSUME IpcTypeOK, InFlight, Fresh, NEW c \in Client, NEW m \in MethodsOf(c),
           DaemonCall(c, m) \/ ExtCall(c, m)
    PROVE  Fresh'
<1> DEFINE id == Len(call')
<1>1. id \in Id /\ id = Len(call) + 1 /\ Len(call) \in Nat
  BY NewCallMade, NewCallType
<1>2. /\ UNCHANGED <<toml, tmp, job>>
      /\ UNCHANGED toServer \/ toServer' = [toServer EXCEPT ![c] = @ \o Line(id)]
      /\ toServer \in [Client -> Seq(Part)] /\ toServer[c] \in Seq(Part)
  BY DEF DaemonCall, ExtCall, Server, handlerVars, configVars, IpcTypeOK
<1>3. tmp \in Inode \cup {None} /\ toml \in Inode
  BY DEF IpcTypeOK, HandlersTypeOK
<1>4. FreshNames' /\ id # toml /\ id # tmp
  BY <1>1, <1>2, <1>3, HandlerConstants DEF Fresh, FreshNames, Inode, Id
<1> HIDE DEF id
<1>5. CASE UNCHANGED toServer
  BY <1>2, <1>4, <1>5 DEF Fresh, FreshFor
<1>6. CASE toServer' = [toServer EXCEPT ![c] = @ \o Line(id)]
  <2> DEFINE q == toServer[c]
  <2>1. toServer'[c] = q \o Line(id) /\ \A d \in Client : d # c => toServer'[d] = toServer[d]
    BY <1>2, <1>6
  <2>2. /\ Len(q) \in Nat /\ Len(q \o Line(id)) = Len(q) + 2
        /\ \A l \in 1..Len(q) : (q \o Line(id))[l] = q[l]
        /\ (q \o Line(id))[Len(q) + 1] = [id |-> id, part |-> "head"]
        /\ (q \o Line(id))[Len(q) + 2] = [id |-> id, part |-> "tail"]
    BY <1>1, <1>2, LineAppended
  <2>3. ASSUME NEW k \in 1..Len(toServer'[c]), toServer'[c][k].part = "tail"
        PROVE  \/ k \in 1..Len(q) /\ toServer'[c][k] = q[k] /\ q[k].id # id
               \/ k = Len(q) + 2 /\ toServer'[c][k].id = id
    <3>0. Len(toServer'[c]) = Len(q) + 2 /\ Len(q) \in Nat
      BY <2>1, <2>2
    <3>1. k \in 1..Len(q) \/ k = Len(q) + 1 \/ k = Len(q) + 2
      BY <3>0
    <3>2. k # Len(q) + 1
      BY <2>1, <2>2, <2>3
    <3>3. k \in 1..Len(q) => q[k].id \in 1..Len(call)
      BY DEF InFlight, Of
    <3>4. k \in 1..Len(q) => toServer'[c][k] = q[k] /\ q[k].id # id
      BY <1>1, <2>1, <2>2, <3>3
    <3>5. k = Len(q) + 2 => toServer'[c][k].id = id
      BY <2>1, <2>2
    <3>6. QED
      BY <3>1, <3>2, <3>4, <3>5
  <2>4. job[c] # None => job[c].id # id
    BY <1>1 DEF InFlight, Of
  <2>5. ASSUME NEW d \in Client PROVE FreshFor(d)'
    <3>1. CASE d = c
      <4>1. ASSUME NEW k \in 1..Len(toServer'[c]), toServer'[c][k].part = "tail"
            PROVE  /\ toServer'[c][k].id # toml /\ toServer'[c][k].id # tmp
                   /\ job[c] # None => job[c].id # toServer'[c][k].id
                   /\ \A l \in 1..Len(toServer'[c]) :
                         toServer'[c][l].part = "tail" /\ toServer'[c][l].id = toServer'[c][k].id
                         => l = k
        BY <1>4, <2>3, <2>4, <4>1 DEF Fresh, FreshFor
      <4>2. (job[c] # None /\ job[c].at \in {"begin", "send", "open"}) =>
               job[c].id # toml /\ job[c].id # tmp
        BY DEF Fresh, FreshFor
      <4>3. QED
        BY <1>2, <3>1, <4>1, <4>2 DEF FreshFor
    <3>2. CASE d # c
      BY <1>2, <2>1, <3>2 DEF Fresh, FreshFor
    <3>3. QED
      BY <3>1, <3>2
  <2>6. QED
    BY <1>4, <2>5 DEF Fresh
<1>7. QED
  BY <1>2, <1>5, <1>6

\* The inodes stay apart.
LEMMA FreshStep == IpcTypeOK /\ InFlight /\ Fresh /\ IpcNext => Fresh'
<1> SUFFICES ASSUME IpcTypeOK, InFlight, Fresh, IpcNext PROVE Fresh'
  OBVIOUS
<1>0. toServer \in [Client -> Seq(Part)] /\ job \in [Client -> Job \cup {None}]
  BY DEF IpcTypeOK, HandlersTypeOK
<1>1. ASSUME UNCHANGED <<toml, tmp>>, Len(call') = Len(call),
             \A d \in Client : /\ toServer'[d] = toServer[d] \/ toServer'[d] = << >>
                               /\ job'[d] = job[d] \/ job'[d] = None
      PROVE  Fresh'
  <2>1. FreshNames'
    BY <1>1 DEF Fresh, FreshNames
  <2>2. ASSUME NEW d \in Client PROVE FreshFor(d)'
    <3>1. toServer'[d] = << >> => 1..Len(toServer'[d]) = {}
      BY EmptySeq
    <3>2. QED
      BY <1>1, <3>1 DEF Fresh, FreshFor
  <2>3. QED
    BY <2>1, <2>2 DEF Fresh
<1>2. ASSUME NEW c \in Client, connect_or_spawn(c) \/ gdriver_connect(c) \/ gdriver_disconnect(c)
      PROVE  Fresh'
  <2>1. /\ UNCHANGED <<toml, tmp, job, call>>
        /\ UNCHANGED toServer \/ toServer' = [toServer EXCEPT ![c] = << >>]
    BY <1>2 DEF connect_or_spawn, gdriver_connect, gdriver_disconnect, Accept, handlerVars,
                configVars, socketVars, clientVars
  <2>2. QED
    BY <1>0, <1>1, <2>1
<1>3. ASSUME NEW c \in Client, ForwardsPush(c) PROVE Fresh'
  BY <1>1, <1>3 DEF ForwardsPush, handlerVars, configVars, clientVars
<1>4. ASSUME NEW c \in Client, Replies(c) PROVE Fresh'
  <2>1. UNCHANGED <<toml, tmp, toServer, call>> /\ job' = [job EXCEPT ![c] = None]
    BY <1>4 DEF Replies, configVars, clientVars
  <2>2. QED
    BY <1>0, <1>1, <2>1
<1>5. ASSUME \/ \E c \in Client : AppReads(c)
             \/ \E id \in Id : ExtWaits(id)
      PROVE  Fresh'
  <2>1. UNCHANGED <<toml, tmp, toServer, job>>
    BY <1>5 DEF AppReads, handle_message, ReaderEnds, ExtWaits, ExtReads, ExtGivesUp, Server,
                handlerVars, configVars
  <2>2. Len(call') = Len(call)
    <3>1. CASE \E c \in Client : AppReads(c)
      <4>1. PICK c \in Client : AppReads(c)
        BY <3>1
      <4>2. CASE handle_message(c)
        BY <4>2, MessageWhat, AnswersCalls
      <4>3. CASE ReaderEnds(c)
        BY <4>3, EndedCalls
      <4>4. QED
        BY <4>1, <4>2, <4>3 DEF AppReads
    <3>2. CASE \E id \in Id : ExtWaits(id)
      <4>1. PICK id \in Id : ExtWaits(id)
        BY <3>2
      <4>2. CASE ExtReads(id)
        BY <4>2, ExtReadsWhat, AnswersCalls
      <4>3. CASE ExtGivesUp(id)
        BY <4>3, GivesUpCalls
      <4>4. QED
        BY <4>1, <4>2, <4>3 DEF ExtWaits
    <3>3. QED
      BY <1>5, <3>1, <3>2
  <2>3. QED
    BY <1>1, <2>1, <2>2
<1>6. ASSUME Push \/ Start PROVE Fresh'
  BY <1>1, <1>6 DEF Push, Start, handlerVars, configVars, socketVars, clientVars
<1>7. ASSUME Crash PROVE Fresh'
  BY <1>1, <1>7 DEF Crash, HandlersRestart, clientVars
<1>8. QED
  BY <1>2, <1>3, <1>4, <1>5, <1>6, <1>7, FreshHandles, FreshReads, FreshCall DEF IpcNext, Serve

-----------------------------------------------------------------------------
\* The preferences, while no two requests for them overlap.

PrefsInv == DiskNeverTorn /\ OneSaver /\ PreferencesAgree

\* A step of a handler that saves: c is the only one.
LEMMA SaverStep ==
    ASSUME HandlersTypeOK, InPlace, PrefsInv, ~overlapped,
           FreshNames, NEW c \in Client, FreshFor(c), OfPreferences(c), HandlerStep(c)
    PROVE  Saving(c)' /\ content'[toml'] # Torn
<1> USE DEF Torn
<1>0. /\ job[c] \in Job /\ job \in [Client -> Job \cup {None}] /\ memory \in Preferences
      /\ content \in [Inode -> Preferences \cup {Torn}] /\ toml \in Inode
      /\ tmp \in Inode \cup {None}
  BY HandlerJob DEF HandlersTypeOK
<1>1. /\ job[c].method \in {"save", "mode"} /\ job[c].at \in Places(job[c].method)
      /\ job[c] # None
      /\ job[c].fd \in Inode /\ job[c].prefs \in Preferences /\ job[c].id \in Inode
  BY <1>0 DEF OfPreferences, InPlace, Job, Inode, Id
<1>2. Saving(c) /\ content[toml] # Torn
  BY DEF PrefsInv, OneSaver, DiskNeverTorn
<1>3. job[c].prefs # Torn
  BY <1>1, NoneIsNoRecord
<1>4. ASSUME NEW p, GoTo(c, p)
      PROVE  /\ job'[c].method = job[c].method /\ job'[c].at = p /\ job'[c].fd = job[c].fd
             /\ job'[c].prefs = job[c].prefs
  BY <1>0, <1>4 DEF GoTo, Job
<1>n. None \notin Inode
  BY HandlerConstants DEF Inode
<1>5. CASE OpenTmp(c)
  <2>1. PICK fd \in Inode : /\ job' = [job EXCEPT ![c].fd = fd, ![c].at = "write"]
                            /\ tmp' = fd /\ content' = [content EXCEPT ![fd] = Torn]
                            /\ fd # toml
    <3>1. job[c].at = "open" /\ job[c].id # toml /\ tmp # toml
      BY <1>1, <1>5 DEF OpenTmp, At, FreshFor, FreshNames
    <3>2. CASE tmp = None
      BY <1>1, <1>5, <3>1, <3>2 DEF OpenTmp
    <3>3. CASE tmp # None
      BY <1>0, <1>5, <3>1, <3>3 DEF OpenTmp
    <3>4. QED
      BY <3>2, <3>3
  <2>2. /\ job'[c].method = job[c].method /\ job'[c].at = "write" /\ job'[c].fd = fd
        /\ job'[c].prefs = job[c].prefs
    BY <1>0, <2>1 DEF Job
  <2>3. UNCHANGED <<memory, toml, unsaved>> /\ job[c].at = "open"
    BY <1>5 DEF OpenTmp, At
  <2>4. content'[toml] = content[toml] /\ content'[tmp'] = Torn
    BY <1>0, <2>1
  <2>5. QED
    BY <1>2, <2>1, <2>2, <2>3, <2>4 DEF Saving
<1>6. CASE WriteTmp(c)
  <2>1. job[c].at = "write" /\ tmp = job[c].fd /\ content[job[c].fd] = Torn /\ tmp # toml
    BY <1>2, <1>6 DEF WriteTmp, At, Saving, FreshNames
  <2>2. content' = [content EXCEPT ![job[c].fd] = job[c].prefs]
    BY <1>6, <2>1 DEF WriteTmp
  <2>3. content'[tmp] = job[c].prefs /\ content'[toml] = content[toml]
    BY <1>0, <1>1, <2>1, <2>2
  <2>4. /\ job'[c].method = job[c].method /\ job'[c].at = "rename" /\ job'[c].fd = job[c].fd
        /\ job'[c].prefs = job[c].prefs /\ UNCHANGED <<memory, toml, tmp, unsaved>>
    BY <1>4, <1>6 DEF WriteTmp
  <2>5. QED
    BY <1>2, <2>1, <2>3, <2>4 DEF Saving
<1>7. CASE RenameTmp(c)
  <2>1. job[c].at = "rename" /\ tmp = job[c].fd /\ content[tmp] = job[c].prefs /\ tmp # toml
    BY <1>2, <1>7 DEF RenameTmp, At, Saving, FreshNames
  <2>2. toml' = tmp /\ content' = [content EXCEPT ![toml] = Torn] /\ UNCHANGED <<memory, unsaved>>
    BY <1>7 DEF RenameTmp
  <2>3. content'[toml'] = job[c].prefs
    BY <1>0, <1>1, <2>1, <2>2
  <2>4. /\ job'[c].method = job[c].method
        /\ job'[c].at = IF job[c].method = "save" THEN "swap" ELSE "ok"
        /\ job'[c].prefs = job[c].prefs
    BY <1>4, <1>7 DEF RenameTmp
  <2>5. job[c].method = "mode" => job[c].prefs = memory
    BY <1>2, <2>1 DEF Saving
  <2>6. QED
    BY <1>1, <1>3, <2>2, <2>3, <2>4, <2>5 DEF Saving
<1>8. CASE SaveFails(c)
  <2>1. /\ job[c].at \in {"write", "rename"} /\ UNCHANGED <<memory, toml, content>>
        /\ unsaved' = (unsaved \/ job[c].method = "mode")
    BY <1>8 DEF SaveFails, At, configVars
  <2>2. /\ job'[c].method = job[c].method
        /\ job'[c].at = IF job[c].method = "save" THEN "err" ELSE "ok"
    BY <1>4, <1>8 DEF SaveFails
  <2>3. unsaved' \/ content[toml] = memory
    BY <1>1, <1>2, <2>1 DEF Saving
  <2>4. QED
    BY <1>2, <2>1, <2>2, <2>3 DEF Saving
<1>9. CASE SwapMemory(c)
  <2>1. /\ job[c].at = "swap" /\ memory' = job[c].prefs /\ UNCHANGED <<toml, content>>
        /\ job'[c].at = "ok"
    BY <1>4, <1>9 DEF SwapMemory, At
  <2>2. content[toml] = job[c].prefs
    BY <1>2, <2>1 DEF Saving
  <2>3. QED
    BY <1>2, <2>1, <2>2 DEF Saving
<1>10. CASE SetMode(c)
  <2>1. /\ job'[c].method = "mode" /\ job'[c].at = "send" /\ UNCHANGED <<toml, content>>
    BY <1>4, <1>10 DEF SetMode
  <2>2. QED
    BY <1>2, <2>1 DEF Saving
<1>11. CASE SendSwitchMode(c)
  <2>1. job[c].at = "send" /\ UNCHANGED <<memory, toml, content>>
    BY <1>11 DEF SendSwitchMode, At, configVars
  <2>2. job[c].method = "mode"
    BY <1>1, <2>1 DEF Places
  <2>3. job'[c].prefs = memory /\ job'[c].at = "open" /\ job'[c].method = job[c].method
    BY <1>0, <1>11 DEF SendSwitchMode, Job
  <2>4. QED
    BY <1>2, <2>1, <2>2, <2>3 DEF Saving
<1>12. ~(ItemRow(c) \/ SetOffline(c))
  BY <1>1 DEF ItemRow, SetOffline
<1>13. ~ItemTask(c)
  BY <1>1 DEF ItemTask, At, Places
<1>14. QED
  BY <1>5, <1>6, <1>7, <1>8, <1>9, <1>10, <1>11, <1>12, <1>13 DEF HandlerStep

\* A step of a handler that does not, leaves the preferences alone.
LEMMA OtherStep ==
    ASSUME HandlersTypeOK, InPlace, NEW c \in Client, HandlerStep(c), ~OfPreferences(c)
    PROVE  UNCHANGED <<configVars, unsaved>>
<1>1. job[c] # None /\ job[c].method \in {"item", "pin"} /\ job[c].at \in Places(job[c].method)
  BY HandlerJob DEF OfPreferences, InPlace, Job, Method
<1>2. job[c].at \notin {"open", "write", "rename", "swap", "send"} /\ job[c].method # "mode"
  BY <1>1 DEF Places
<1>3. QED
  BY <1>2 DEF HandlerStep, OpenTmp, WriteTmp, RenameTmp, SaveFails, SwapMemory, SetMode,
              SendSwitchMode, ItemRow, ItemTask, SetOffline, At

\* Both, together.
LEMMA PrefsHandles ==
    ASSUME IpcTypeOK, InPlace, Fresh, PrefsInv, NEW c \in Client, HandlerStep(c)
    PROVE  PrefsInv'
<1>1. HandlersTypeOK /\ FreshNames /\ FreshFor(c)
  BY DEF IpcTypeOK, Fresh
<1>2. /\ job[c] # None /\ job'[c] # None /\ job'[c].method = job[c].method
      /\ \A d \in Client : d # c => job'[d] = job[d]
  BY <1>1, HandlerJob
<1>3. \A d \in Client : OfPreferences(d)' <=> OfPreferences(d)
  BY <1>2 DEF OfPreferences
<1>4. UNCHANGED overlapped
  BY DEF HandlerStep, OpenTmp, WriteTmp, RenameTmp, SaveFails, SwapMemory, SetMode,
         SendSwitchMode, ItemRow, ItemTask, SetOffline
<1>5. CASE overlapped
  BY <1>4, <1>5 DEF PrefsInv, DiskNeverTorn, OneSaver, PreferencesAgree
<1>6. CASE ~overlapped /\ OfPreferences(c)
  <2>1. Saving(c)' /\ content'[toml'] # Torn
    BY <1>1, <1>6, SaverStep
  <2>2. \A d \in Client : OfPreferences(d) => d = c
    BY <1>6 DEF PrefsInv, OneSaver
  <2>3. OneSaver'
    BY <1>3, <2>1, <2>2 DEF OneSaver
  <2>4. QED
    BY <1>3, <1>6, <2>1, <2>3 DEF PrefsInv, DiskNeverTorn, PreferencesAgree
<1>7. CASE ~overlapped /\ ~OfPreferences(c)
  <2>1. UNCHANGED <<memory, toml, tmp, content, unsaved>>
    BY <1>1, <1>7, OtherStep DEF configVars
  <2>2. ASSUME NEW d \in Client, OfPreferences(d) PROVE Saving(d)'
    <3>1. Saving(d) /\ job'[d] = job[d]
      BY <1>2, <1>7, <2>2 DEF PrefsInv, OneSaver
    <3>2. QED
      BY <2>1, <3>1 DEF Saving
  <2>3. OneSaver'
    BY <1>3, <1>7, <2>2 DEF OneSaver, PrefsInv
  <2>4. QED
    BY <1>3, <1>4, <1>7, <2>1, <2>3 DEF PrefsInv, DiskNeverTorn, PreferencesAgree
<1>8. QED
  BY <1>5, <1>6, <1>7

\* A request for the preferences starts when there is no other, or they overlap.
LEMMA PrefsReads ==
    ASSUME IpcTypeOK, InFlight, PrefsInv, NEW c \in Client, ReadsLine(c), ~UNCHANGED handlerVars
    PROVE  PrefsInv'
<1>1. /\ job[c] = None /\ job'[c] # None /\ job'[c].method \in Method
      /\ job'[c].at = IF job'[c].method = "save" THEN "open" ELSE "begin"
      /\ \A d \in Client : d # c => job'[d] = job[d]
      /\ dispatch(c, job'[c].id, job'[c].method)
  BY DispatchJob
<1>2. /\ UNCHANGED <<memory, toml, tmp, content, unsaved>>
      /\ overlapped' = (\/ overlapped
                        \/ /\ job'[c].method \in {"save", "mode"}
                           /\ \E d \in Client : OfPreferences(d))
  BY <1>1 DEF dispatch, configVars
<1>3. ~OfPreferences(c)
  BY <1>1 DEF OfPreferences
<1>4. \A d \in Client : d # c => (OfPreferences(d)' <=> OfPreferences(d))
  BY <1>1 DEF OfPreferences
<1>5. OfPreferences(c)' <=> job'[c].method \in {"save", "mode"}
  BY <1>1 DEF OfPreferences
<1>6. ASSUME NEW d \in Client, d # c, Saving(d) PROVE Saving(d)'
  BY <1>1, <1>2, <1>6 DEF Saving
<1>7. CASE overlapped'
  BY <1>7 DEF PrefsInv, DiskNeverTorn, OneSaver, PreferencesAgree
<1>8. CASE ~overlapped' /\ OfPreferences(c)'
  <2>1. ~overlapped /\ \A d \in Client : ~OfPreferences(d)
    BY <1>2, <1>5, <1>8
  <2>2. unsaved \/ content[toml] = memory
    BY <2>1 DEF PrefsInv, PreferencesAgree
  <2>3. Saving(c)'
    BY <1>1, <1>2, <2>2 DEF Saving
  <2>4. QED
    BY <1>2, <1>4, <1>8, <2>1, <2>3 DEF PrefsInv, DiskNeverTorn, OneSaver, PreferencesAgree
<1>9. CASE ~overlapped' /\ ~OfPreferences(c)'
  <2>1. ~overlapped
    BY <1>2, <1>9
  <2>2. OneSaver'
    BY <1>4, <1>6, <1>9, <2>1 DEF PrefsInv, OneSaver
  <2>3. (\A d \in Client : ~OfPreferences(d)') => \A d \in Client : ~OfPreferences(d)
    BY <1>3, <1>4
  <2>4. QED
    BY <1>2, <2>1, <2>2, <2>3 DEF PrefsInv, DiskNeverTorn, PreferencesAgree
<1>10. QED
  BY <1>7, <1>8, <1>9

\* Every step keeps what is said of the preferences.
LEMMA PrefsStep == IpcTypeOK /\ InFlight /\ InPlace /\ Fresh /\ PrefsInv /\ IpcNext => PrefsInv'
<1> SUFFICES ASSUME IpcTypeOK, InFlight, InPlace, Fresh, PrefsInv, IpcNext PROVE PrefsInv'
  OBVIOUS
<1>1. ASSUME UNCHANGED <<memory, toml, tmp, content, job, overlapped, unsaved>> PROVE PrefsInv'
  BY <1>1 DEF PrefsInv, DiskNeverTorn, OneSaver, PreferencesAgree, Saving, OfPreferences
<1>2. ASSUME NEW c \in Client, Replies(c) PROVE PrefsInv'
  <2>1. /\ UNCHANGED <<memory, toml, tmp, content, overlapped, unsaved>>
        /\ job[c] # None /\ job[c].at \in {"ok", "err"}
        /\ job' = [job EXCEPT ![c] = None] /\ job \in [Client -> Job \cup {None}]
    BY <1>2 DEF Replies, configVars, IpcTypeOK, HandlersTypeOK
  <2>2. job'[c] = None /\ \A d \in Client : d # c => job'[d] = job[d]
    BY <2>1
  <2>3. ~OfPreferences(c)' /\ \A d \in Client : d # c => (OfPreferences(d)' <=> OfPreferences(d))
    BY <2>2 DEF OfPreferences
  <2>4. ASSUME NEW d \in Client, d # c, Saving(d) PROVE Saving(d)'
    BY <2>1, <2>2, <2>4 DEF Saving
  <2>5. OneSaver'
    BY <2>1, <2>3, <2>4 DEF PrefsInv, OneSaver
  <2>6. (~overlapped /\ OfPreferences(c)) => unsaved \/ content[toml] = memory
    BY <2>1 DEF PrefsInv, OneSaver, Saving
  <2>7. PreferencesAgree'
    BY <2>1, <2>3, <2>6 DEF PrefsInv, PreferencesAgree
  <2>8. QED
    BY <2>1, <2>5, <2>7 DEF PrefsInv, DiskNeverTorn
<1>3. ASSUME Crash PROVE PrefsInv'
  <2>1. /\ UNCHANGED <<toml, content, overlapped>> /\ \A d \in Client : job'[d] = None
        /\ memory' = IF content[toml] = Torn THEN DefaultPreferences ELSE content[toml]
    BY <1>3 DEF Crash, HandlersRestart
  <2>2. \A d \in Client : ~OfPreferences(d)'
    BY <2>1 DEF OfPreferences
  <2>3. QED
    BY <2>1, <2>2 DEF PrefsInv, DiskNeverTorn, OneSaver, PreferencesAgree
<1>4. ASSUME NEW c \in Client,
             \/ connect_or_spawn(c) \/ gdriver_connect(c) \/ gdriver_disconnect(c)
             \/ ReadsPart(c) \/ ForwardsPush(c) \/ AppReads(c)
      PROVE  PrefsInv'
  BY <1>1, <1>4 DEF connect_or_spawn, gdriver_connect, gdriver_disconnect, ReadsPart, ForwardsPush,
              AppReads, handle_message, ReaderEnds, Server, handlerVars, configVars
<1>5. ASSUME \/ \E c \in Client : \E m \in MethodsOf(c) : DaemonCall(c, m) \/ ExtCall(c, m)
             \/ \E id \in Id : ExtWaits(id)
             \/ Push \/ Start
      PROVE  PrefsInv'
  BY <1>1, <1>5 DEF DaemonCall, ExtCall, ExtWaits, ExtReads, ExtGivesUp, Push, Start, Server,
                    handlerVars, configVars
<1>6. ASSUME NEW c \in Client, ReadsLine(c) PROVE PrefsInv'
  BY <1>1, <1>6, PrefsReads DEF handlerVars, configVars
<1>7. ASSUME NEW c \in Client, Handles(c) PROVE PrefsInv'
  BY <1>7, PrefsHandles DEF Handles
<1>8. QED
  BY <1>2, <1>3, <1>4, <1>5, <1>6, <1>7 DEF IpcNext, Serve

-----------------------------------------------------------------------------
\* What was answered has been done.

\* Rows and tasks are only added.
LEMMA RowsGrow == IpcNext => rows \subseteq rows' /\ tasks \subseteq tasks'
<1> SUFFICES ASSUME IpcNext PROVE rows \subseteq rows' /\ tasks \subseteq tasks'
  OBVIOUS
<1>1. ASSUME NEW c \in Client, HandlerStep(c) PROVE rows \subseteq rows' /\ tasks \subseteq tasks'
  BY <1>1 DEF HandlerStep, OpenTmp, WriteTmp, RenameTmp, SaveFails, SwapMemory, SetMode,
              SendSwitchMode, ItemRow, ItemTask, SetOffline
<1>2. ASSUME NEW c \in Client, Serve(c) PROVE rows \subseteq rows' /\ tasks \subseteq tasks'
  BY <1>1, <1>2 DEF Serve, ReadsPart, ReadsLine, dispatch, ForwardsPush, Handles, Replies, handlerVars
<1>3. ASSUME NEW c \in Client,
             connect_or_spawn(c) \/ gdriver_connect(c) \/ gdriver_disconnect(c) \/ AppReads(c)
      PROVE  UNCHANGED <<rows, tasks>>
  BY <1>3 DEF connect_or_spawn, gdriver_connect, gdriver_disconnect, AppReads, handle_message,
              ReaderEnds, Server, handlerVars
<1>4. ASSUME \/ \E c \in Client : \E m \in MethodsOf(c) : DaemonCall(c, m) \/ ExtCall(c, m)
             \/ \E id \in Id : ExtWaits(id)
             \/ Push \/ Crash \/ Start
      PROVE  UNCHANGED <<rows, tasks>>
  BY <1>4 DEF DaemonCall, ExtCall, ExtWaits, ExtReads, ExtGivesUp, Push, Crash, HandlersRestart,
              Start, Server, handlerVars
<1>5. QED
  BY <1>2, <1>3, <1>4 DEF IpcNext

DoneNext(i) == i \in rows' /\ (call'[i].method = "item" => i \in tasks')

\* What is done stays done.
LEMMA DoneStays ==
    ASSUME IpcTypeOK, InFlight, IpcNext, NEW i \in 1..Len(call), Done(i)
    PROVE  DoneNext(i)
BY RowsGrow, CallsKept DEF Done, DoneNext, Kept

\* A handler does what it is to do before it says so.
LEMMA HandlerDoneHandles ==
    ASSUME IpcTypeOK, InFlight, InPlace, HandlerDone, NEW c \in Client, Handles(c)
    PROVE  /\ job'[c].at = "enqueue" => job'[c].id \in rows'
           /\ (job'[c].at = "ok" /\ job'[c].method \in {"item", "pin"}) => DoneNext(job'[c].id)
<1>1. HandlersTypeOK /\ HandlerStep(c) /\ UNCHANGED call
  BY DEF IpcTypeOK, Handles, clientVars
<1>2. /\ job[c] # None /\ job[c] \in Job /\ job'[c].id = job[c].id
      /\ job'[c].method = job[c].method /\ job \in [Client -> Job \cup {None}]
  BY <1>1, HandlerJob DEF HandlersTypeOK
<1>3. /\ job[c].at \in Places(job[c].method) /\ job[c].method = call[job[c].id].method
      /\ job[c].at = "enqueue" => job[c].id \in rows
  BY <1>2 DEF InPlace, InFlight, HandlerDone
<1>4. ASSUME NEW p, GoTo(c, p) PROVE job'[c].at = p
  BY <1>2, <1>4 DEF GoTo, Job
<1>5. CASE ItemRow(c)
  BY <1>2, <1>4, <1>5 DEF ItemRow
<1>6. CASE ItemTask(c)
  BY <1>1, <1>2, <1>3, <1>4, <1>6 DEF ItemTask, At, DoneNext
<1>7. CASE SetOffline(c)
  BY <1>1, <1>2, <1>3, <1>4, <1>7 DEF SetOffline, DoneNext
<1>8. CASE OpenTmp(c)
  <2>1. job'[c].at = "write"
    BY <1>2, <1>8 DEF OpenTmp, Job
  <2>2. QED
    BY <2>1
<1>9. CASE SendSwitchMode(c)
  <2>1. job'[c].at = "open"
    BY <1>2, <1>9 DEF SendSwitchMode, Job
  <2>2. QED
    BY <2>1
<1>10. CASE WriteTmp(c) \/ RenameTmp(c) \/ SaveFails(c) \/ SwapMemory(c) \/ SetMode(c)
  <2>1. job[c].method \notin {"item", "pin"}
    <3>1. job[c].at \in {"write", "rename", "swap"} \/ job[c].method = "mode"
      BY <1>10 DEF WriteTmp, RenameTmp, SaveFails, SwapMemory, SetMode, At
    <3>2. QED
      BY <1>3, <3>1 DEF Places
  <2>2. \E p \in {"rename", "swap", "ok", "err", "send"} : GoTo(c, p)
    BY <1>10 DEF WriteTmp, RenameTmp, SaveFails, SwapMemory, SetMode
  <2>3. QED
    BY <1>2, <1>4, <2>1, <2>2
<1>11. QED
  BY <1>1, <1>5, <1>6, <1>7, <1>8, <1>9, <1>10 DEF HandlerStep

\* Every step keeps it so.
LEMMA HandlerDoneStep ==
    IpcTypeOK /\ InFlight /\ InPlace /\ HandlerDone /\ IpcNext => HandlerDone'
<1> SUFFICES ASSUME IpcTypeOK, InFlight, InPlace, HandlerDone, IpcNext,
                    NEW d \in Client, job'[d] # None
             PROVE  /\ job'[d].at = "enqueue" => job'[d].id \in rows'
                    /\ (job'[d].at = "ok" /\ job'[d].method \in {"item", "pin"})
                       => DoneNext(job'[d].id)
  BY DEF HandlerDone, Done, DoneNext
<1>1. CASE job[d] = None
  BY <1>1, JobStep
<1>2. CASE job'[d] = job[d]
  <2>1. job[d].id \in 1..Len(call)
    BY <1>2 DEF InFlight, Of
  <2>2. QED
    BY <1>2, <2>1, RowsGrow, DoneStays DEF HandlerDone
<1>3. CASE Handles(d)
  BY <1>3, HandlerDoneHandles
<1>4. CASE job[d] # None /\ ~Handles(d)
  <2>1. job'[d] = job[d]
    <3>1. UNCHANGED handlerVars => job'[d] = job[d]
      BY DEF handlerVars
    <3>2. ASSUME NEW c \in Client, Serve(c) PROVE job'[d] = job[d]
      <4>1. CASE Handles(c)
        <5>1. c # d /\ HandlersTypeOK /\ HandlerStep(c)
          BY <1>4, <4>1 DEF Handles, IpcTypeOK
        <5>2. QED
          BY <5>1, HandlerJob
      <4>2. CASE ReadsLine(c) /\ ~UNCHANGED handlerVars
        BY <1>4, <4>2, DispatchJob
      <4>3. CASE Replies(c)
        BY <4>3 DEF Replies, IpcTypeOK, HandlersTypeOK
      <4>4. QED
        BY <3>1, <3>2, <4>1, <4>2, <4>3 DEF Serve, ReadsPart, ForwardsPush
    <3>3. ASSUME NEW c \in Client,
                 connect_or_spawn(c) \/ gdriver_connect(c) \/ gdriver_disconnect(c) \/ AppReads(c)
          PROVE  UNCHANGED job
      BY <3>3 DEF connect_or_spawn, gdriver_connect, gdriver_disconnect, AppReads,
                  handle_message, ReaderEnds, Server, handlerVars
    <3>4. ASSUME \/ \E c \in Client : \E m \in MethodsOf(c) : DaemonCall(c, m) \/ ExtCall(c, m)
                 \/ \E id \in Id : ExtWaits(id)
                 \/ Push \/ Start
          PROVE  UNCHANGED job
      BY <3>4 DEF DaemonCall, ExtCall, ExtWaits, ExtReads, ExtGivesUp, Push, Start, Server,
                  handlerVars
    <3>5. ~Crash
      BY DEF Crash, HandlersRestart
    <3>6. QED
      BY <3>2, <3>3, <3>4, <3>5 DEF IpcNext
  <2>2. QED
    BY <1>2, <2>1
<1>5. QED
  BY <1>1, <1>3, <1>4

\* An answer that says ok is of something done.
LEMMA AnswerDoneStep ==
    IpcTypeOK /\ InFlight /\ Methods /\ HandlerDone /\ AnswerDone /\ IpcNext => AnswerDone'
<1> SUFFICES ASSUME IpcTypeOK, InFlight, Methods, HandlerDone, AnswerDone, IpcNext,
                    NEW d \in Ext, NEW k \in 1..Len(toClient'[d]),
                    toClient'[d][k].kind = "answer", toClient'[d][k].ok
             PROVE  DoneNext(toClient'[d][k].id)
  BY DEF AnswerDone, Done, DoneNext
<1>0. d \in Client
  BY DEF Ext
<1>1. CASE \E l \in 1..Len(toClient[d]) : toClient'[d][k] = toClient[d][l]
  <2>1. PICK l \in 1..Len(toClient[d]) : toClient'[d][k] = toClient[d][l]
    BY <1>1
  <2>2. Done(toClient[d][l].id) /\ toClient[d][l].id \in 1..Len(call)
    BY <1>0, <2>1 DEF AnswerDone, InFlight, Of
  <2>3. QED
    BY <2>1, <2>2, DoneStays
<1>2. CASE /\ job[d] # None
           /\ toClient'[d][k] = [kind |-> "answer", id |-> job[d].id, ok |-> job[d].at = "ok"]
  <2>1. toClient'[d][k].id = job[d].id
    BY <1>2
  <2>2. job[d].at = "ok"
    <3> DEFINE msg == [kind |-> "answer", id |-> job[d].id, ok |-> job[d].at = "ok"]
    <3>1. msg.ok = (job[d].at = "ok")
      OBVIOUS
    <3>2. toClient'[d][k] = msg
      BY <1>2
    <3> HIDE DEF msg
    <3>3. msg.ok
      BY <3>2
    <3>4. QED
      BY <3>1, <3>3
  <2>3. job[d].id \in 1..Len(call) /\ job[d].method \in {"item", "pin"}
    BY <1>0, <1>2 DEF InFlight, Of, Methods, MethodsOf, Ext
  <2>4. Done(job[d].id)
    BY <1>0, <1>2, <2>2, <2>3 DEF HandlerDone
  <2>5. QED
    BY <2>1, <2>3, <2>4, DoneStays
<1>3. QED
  BY <1>0, <1>1, <1>2, ClientQueue

\* A call that returned has its answer from one that says so.
LEMMA AnsweredIsDoneStep ==
    IpcTypeOK /\ InFlight /\ AnswerDone /\ AnsweredIsDone /\ IpcNext => AnsweredIsDone'
<1> SUFFICES ASSUME IpcTypeOK, InFlight, AnswerDone, AnsweredIsDone, IpcNext,
                    NEW i \in 1..Len(call'), call'[i].at = "returned", call'[i].answer = i,
                    call'[i].by \in Ext
             PROVE  DoneNext(i)
  BY DEF AnsweredIsDone, DoneNext
<1>0. Len(call) \in Nat
  BY CallsKept
<1>1. CASE /\ i \in 1..Len(call) /\ call[i].at = "returned" /\ call[i].answer = i
           /\ call[i].by = call'[i].by
  <2>1. Done(i)
    BY <1>1 DEF AnsweredIsDone, Done
  <2>2. QED
    BY <1>1, <2>1, DoneStays
<1>2. CASE \E c \in Client : \E m \in MethodsOf(c) : DaemonCall(c, m) \/ ExtCall(c, m)
  <2>1. PICK c \in Client : \E m \in MethodsOf(c) : DaemonCall(c, m) \/ ExtCall(c, m)
    BY <1>2
  <2>2. PICK m \in MethodsOf(c) : DaemonCall(c, m) \/ ExtCall(c, m)
    BY <2>1
  <2>3. PICK at \in {"waiting", "failed"} : NewCall(c, m, at)
    BY <2>2, NewCallMade
  <2>4. Len(call') = Len(call) + 1 /\ call'[Len(call')].at = at
        /\ \A j \in 1..Len(call) : call'[j] = call[j]
    BY <2>3, NewCallType
  <2>5. i \in 1..Len(call)
    BY <1>0, <2>4
  <2>6. QED
    BY <1>1, <2>4, <2>5
<1>3. ASSUME NEW c \in Client, handle_message(c) PROVE DoneNext(i)
  <2>1. CASE UNCHANGED call
    BY <1>1, <2>1
  <2>2. CASE ~UNCHANGED call
    <3>1. /\ c \in App /\ Got(c).id \in 1..Len(call) /\ call[Got(c).id].by = c
          /\ Got(c) \in Message /\ Got(c).kind = "answer" /\ Answers(Got(c).id, Got(c))
      BY <1>3, <2>2, MessageWhat
    <3>2. /\ Len(call') = Len(call)
          /\ \A j \in 1..Len(call) : Kept(j) /\ (j # Got(c).id => call'[j] = call[j])
      BY <3>1, AnswersCalls
    <3>3. i # Got(c).id
      BY <3>1, <3>2 DEF Kept, Ext
    <3>4. QED
      BY <1>1, <3>2, <3>3
  <2>3. QED
    BY <2>1, <2>2
<1>4. ASSUME NEW c \in Client, ReaderEnds(c) PROVE DoneNext(i)
  <2>1. /\ Len(call') = Len(call) /\ call'[i].by = call[i].by /\ call'[i].answer = call[i].answer
        /\ call'[i].at = call[i].at
    BY <1>4, EndedCalls DEF Kept
  <2>2. QED
    BY <1>1, <2>1
<1>5. ASSUME NEW id \in Id, ExtReads(id) PROVE DoneNext(i)
  <2>1. CASE UNCHANGED call
    BY <1>1, <2>1
  <2>2. CASE ~UNCHANGED call
    <3> DEFINE c == call[id].by
    <3>1. /\ id \in 1..Len(call) /\ c \in Ext /\ Got(c) \in Message /\ Got(c).kind = "answer"
          /\ Got(c) = toClient[c][1] /\ 1 \in 1..Len(toClient[c]) /\ Answers(id, Got(c))
      BY <1>5, <2>2, ExtReadsWhat
    <3>2. /\ Len(call') = Len(call) /\ call'[id].answer = Got(c).id
          /\ call'[id].at = IF Got(c).ok THEN "returned" ELSE "failed"
          /\ \A j \in 1..Len(call) : Kept(j) /\ (j # id => call'[j] = call[j])
      BY <3>1, AnswersCalls
    <3>3. CASE i = id
      <4>1. Got(c).ok /\ Got(c).id = i
        BY <3>2, <3>3
      <4>2. Done(i)
        BY <3>1, <4>1 DEF AnswerDone
      <4>3. QED
        BY <3>1, <3>3, <4>2, DoneStays
    <3>4. CASE i # id
      BY <1>1, <3>2, <3>4
    <3>5. QED
      BY <3>3, <3>4
  <2>3. QED
    BY <2>1, <2>2
<1>6. ASSUME NEW id \in Id, ExtGivesUp(id) PROVE DoneNext(i)
  <2>1. /\ Len(call') = Len(call) /\ call'[id].at = "failed"
        /\ \A j \in 1..Len(call) : Kept(j) /\ (j # id => call'[j] = call[j])
    BY <1>6, GivesUpCalls
  <2>2. QED
    BY <1>1, <2>1
<1>7. CASE Elsewhere
  BY <1>1, <1>7, ElsewhereCalls
<1>8. QED
  BY <1>2, <1>3, <1>4, <1>5, <1>6, <1>7 DEF IpcNext, Elsewhere, AppReads, ExtWaits

-----------------------------------------------------------------------------
\* Whose answer a call gets.

\* The connection of a daemon that died has nothing on its way to it.
LEMMA AtEofStep == IpcTypeOK /\ InFlight /\ AtEof /\ IpcNext => AtEof'
<1> SUFFICES ASSUME IpcTypeOK, InFlight, AtEof, IpcNext, NEW d \in Client, link'[d] = "eof"
             PROVE  toServer'[d] = << >> /\ job'[d] = None
  BY DEF AtEof, Asked
<1>0. /\ link \in [Client -> {"off", "open", "eof"}] /\ toServer \in [Client -> Seq(Part)]
      /\ job \in [Client -> Job \cup {None}]
  BY DEF IpcTypeOK, HandlersTypeOK
<1>1. link[d] = "eof" => toServer[d] = << >> /\ job[d] = None
  BY DEF AtEof, Asked
<1>2. ASSUME NEW c \in Client, connect_or_spawn(c) \/ gdriver_connect(c) \/ gdriver_disconnect(c)
      PROVE  toServer'[d] = << >> /\ job'[d] = None
  <2>1. /\ UNCHANGED job
        /\ \/ UNCHANGED <<link, toServer>>
           \/ link' = [link EXCEPT ![c] = "open"] /\ toServer' = [toServer EXCEPT ![c] = << >>]
           \/ link' = [link EXCEPT ![c] = "off"] /\ UNCHANGED toServer
    BY <1>2 DEF connect_or_spawn, gdriver_connect, gdriver_disconnect, Accept, handlerVars, socketVars
  <2>2. QED
    BY <1>0, <1>1, <2>1
<1>3. ASSUME NEW c \in Client, ReadsPart(c) \/ ReadsLine(c)
      PROVE  toServer'[d] = << >> /\ job'[d] = None
  <2>1. /\ link[c] = "open" /\ UNCHANGED link /\ toServer' = [toServer EXCEPT ![c] = Tail(@)]
    BY <1>3 DEF ReadsPart, ReadsLine, Serving
  <2>2. UNCHANGED job \/ \A e \in Client : e # c => job'[e] = job[e]
    <3>1. CASE UNCHANGED handlerVars
      BY <3>1 DEF handlerVars
    <3>2. CASE ~UNCHANGED handlerVars
      BY <1>3, <3>2, DispatchJob DEF ReadsPart
    <3>3. QED
      BY <3>1, <3>2
  <2>3. QED
    BY <1>0, <1>1, <2>1, <2>2
<1>4. ASSUME NEW c \in Client, ForwardsPush(c) \/ AppReads(c)
      PROVE  toServer'[d] = << >> /\ job'[d] = None
  BY <1>1, <1>4 DEF ForwardsPush, AppReads, handle_message, ReaderEnds, Server, handlerVars
<1>5. ASSUME NEW c \in Client, Handles(c) PROVE toServer'[d] = << >> /\ job'[d] = None
  <2>1. /\ UNCHANGED <<toServer, link>> /\ job[c] # None
        /\ \A e \in Client : e # c => job'[e] = job[e]
    BY <1>5, HandlerJob DEF Handles, IpcTypeOK, socketVars
  <2>2. QED
    BY <1>1, <2>1
<1>6. ASSUME NEW c \in Client, Replies(c) PROVE toServer'[d] = << >> /\ job'[d] = None
  <2>1. UNCHANGED <<toServer, link>> /\ job' = [job EXCEPT ![c] = None]
    BY <1>6 DEF Replies
  <2>2. QED
    BY <1>0, <1>1, <2>1
<1>7. ASSUME NEW c \in Client, NEW m \in MethodsOf(c), DaemonCall(c, m) \/ ExtCall(c, m)
      PROVE  toServer'[d] = << >> /\ job'[d] = None
  <2>1. /\ UNCHANGED <<link, job>>
        /\ \/ UNCHANGED toServer
           \/ link[c] = "open" /\ toServer' = [toServer EXCEPT ![c] = @ \o Line(Len(call'))]
    BY <1>7 DEF DaemonCall, ExtCall, Server, handlerVars
  <2>2. QED
    BY <1>0, <1>1, <2>1
<1>8. ASSUME (\E id \in Id : ExtWaits(id)) \/ Push \/ Start
      PROVE  toServer'[d] = << >> /\ job'[d] = None
  BY <1>1, <1>8 DEF ExtWaits, ExtReads, ExtGivesUp, Push, Start, Server, handlerVars, socketVars
<1>9. ASSUME Crash PROVE toServer'[d] = << >> /\ job'[d] = None
  BY <1>9 DEF Crash, HandlersRestart
<1>10. QED
  BY <1>2, <1>3, <1>4, <1>5, <1>6, <1>7, <1>8, <1>9 DEF IpcNext, Serve

\* A blocking client goes on waiting for one call at a time.
LEMMA OneCallStep == IpcTypeOK /\ InFlight /\ OneCall /\ IpcNext => OneCall'
<1> SUFFICES ASSUME IpcTypeOK, InFlight, OneCall, IpcNext PROVE OneCall'
  OBVIOUS
<1>0. /\ link \in [Client -> {"off", "open", "eof"}] /\ late \subseteq Client /\ Len(call) \in Nat
      /\ \A i \in 1..Len(call) : call[i] \in Call
  BY LenProperties, ElementOfSeq DEF IpcTypeOK
<1>e. Ext \subseteq Client /\ Ext \cap App = {}
  BY DEF Ext
\* As long as no call begins to wait, it is a matter of the connections.
<1>1. ASSUME Len(call') = Len(call),
             \A i \in 1..Len(call) : Kept(i) /\ (call'[i].at = "waiting" => call[i].at = "waiting"),
             \A i \in 1..Len(call) :
                (call'[i].at = "waiting" /\ call[i].by \in Ext)
                => /\ link[call[i].by] # "off" => link'[call[i].by] # "off"
                   /\ call[i].by \in late' => call[i].by \in late
      PROVE  OneCall'
  <2> SUFFICES ASSUME NEW i \in 1..Len(call), call'[i].at = "waiting", call'[i].by \in Ext
               PROVE  /\ link'[call'[i].by] # "off"
                      /\ call'[i].behind \/ call'[i].by \notin late'
                      /\ \A j \in 1..Len(call) :
                            call'[j].at = "waiting" /\ call'[j].by = call'[i].by => j = i
    BY <1>1 DEF OneCall
  <2>1. /\ call[i].at = "waiting" /\ call[i].by = call'[i].by /\ call[i].behind = call'[i].behind
        /\ call[i].by \in Ext
    BY <1>1 DEF Kept
  <2>2. /\ link[call[i].by] # "off" /\ (call[i].behind \/ call[i].by \notin late)
        /\ \A j \in 1..Len(call) : call[j].at = "waiting" /\ call[j].by = call[i].by => j = i
    BY <2>1 DEF OneCall
  <2>3. QED
    BY <1>1, <2>1, <2>2 DEF Kept
<1>2. ASSUME UNCHANGED call PROVE /\ Len(call') = Len(call)
                                  /\ \A i \in 1..Len(call) :
                                        Kept(i) /\ (call'[i].at = "waiting" => call[i].at = "waiting")
  BY <1>2 DEF Kept
<1>3. ASSUME NEW c \in Client, connect_or_spawn(c) \/ gdriver_connect(c) PROVE OneCall'
  <2>1. /\ UNCHANGED call /\ (UNCHANGED link \/ link' = [link EXCEPT ![c] = "open"])
        /\ late' \subseteq late
    BY <1>3 DEF connect_or_spawn, gdriver_connect, Accept, socketVars
  <2>2. \A e \in Client : link[e] # "off" => link'[e] # "off"
    BY <1>0, <2>1
  <2>3. QED
    BY <1>1, <1>2, <1>e, <2>1, <2>2
<1>4. ASSUME NEW c \in Client, gdriver_disconnect(c) PROVE OneCall'
  <2>1. /\ UNCHANGED <<call, late>> /\ link' = [link EXCEPT ![c] = "off"]
        /\ \A i \in 1..Len(call) : call[i].by = c => call[i].at # "waiting"
    BY <1>4 DEF gdriver_disconnect, Idle, clientVars
  <2>2. \A e \in Client : e # c => link'[e] = link[e]
    BY <1>0, <2>1
  <2>3. QED
    BY <1>1, <1>2, <1>e, <2>1, <2>2
<1>5. ASSUME (\E c \in Client : Serve(c)) \/ Push \/ Start PROVE OneCall'
  <2>1. UNCHANGED <<call, late, link>>
    BY <1>5 DEF Serve, ReadsPart, ReadsLine, ForwardsPush, Handles, Replies, Push, Start,
                clientVars, socketVars
  <2>2. QED
    BY <1>1, <1>2, <2>1
<1>6. ASSUME Crash PROVE OneCall'
  <2>1. UNCHANGED <<call, late>> /\ \A e \in Client : link[e] # "off" => link'[e] # "off"
    BY <1>6 DEF Crash, clientVars
  <2>2. QED
    BY <1>1, <1>2, <1>e, <2>1
<1>7. ASSUME NEW c \in Client, handle_message(c) PROVE OneCall'
  <2>1. UNCHANGED <<link, late>>
    BY <1>7 DEF handle_message
  <2>2. CASE UNCHANGED call
    BY <1>1, <1>2, <2>1, <2>2
  <2>3. CASE ~UNCHANGED call
    <3> DEFINE id == Got(c).id
    <3>1. id \in 1..Len(call) /\ Got(c) \in Message /\ Got(c).kind = "answer" /\ Answers(id, Got(c))
      BY <1>7, <2>3, MessageWhat
    <3>2. /\ Len(call') = Len(call) /\ call'[id].at # "waiting"
          /\ \A i \in 1..Len(call) : Kept(i) /\ (i # id => call'[i] = call[i])
      BY <3>1, AnswersCalls
    <3>3. \A i \in 1..Len(call) : call'[i].at = "waiting" => call[i].at = "waiting"
      BY <3>2
    <3>4. QED
      BY <1>1, <2>1, <3>2, <3>3
  <2>4. QED
    BY <2>2, <2>3
<1>8. ASSUME NEW c \in Client, ReaderEnds(c) PROVE OneCall'
  <2>1. UNCHANGED <<link, late>>
    BY <1>8 DEF ReaderEnds
  <2>2. /\ Len(call') = Len(call)
        /\ \A i \in 1..Len(call) : Kept(i) /\ (call'[i].at = "waiting" => call[i].at = "waiting")
    BY <1>8, EndedCalls
  <2>3. QED
    BY <1>1, <2>1, <2>2
<1>9. ASSUME NEW id \in Id, ExtReads(id) PROVE OneCall'
  <2>1. UNCHANGED <<link, late>>
    BY <1>9 DEF ExtReads
  <2>2. CASE UNCHANGED call
    BY <1>1, <1>2, <2>1, <2>2
  <2>3. CASE ~UNCHANGED call
    <3>1. /\ id \in 1..Len(call) /\ Got(call[id].by) \in Message
          /\ Got(call[id].by).kind = "answer" /\ Answers(id, Got(call[id].by))
      BY <1>9, <2>3, ExtReadsWhat
    <3>2. /\ Len(call') = Len(call) /\ call'[id].at # "waiting"
          /\ \A i \in 1..Len(call) : Kept(i) /\ (i # id => call'[i] = call[i])
      BY <3>1, AnswersCalls
    <3>3. \A i \in 1..Len(call) : call'[i].at = "waiting" => call[i].at = "waiting"
      BY <3>2
    <3>4. QED
      BY <1>1, <2>1, <3>2, <3>3
  <2>4. QED
    BY <2>2, <2>3
<1>10. ASSUME NEW id \in Id, ExtGivesUp(id) PROVE OneCall'
  <2>1. /\ Len(call') = Len(call) /\ call'[id].at = "failed"
        /\ \A i \in 1..Len(call) : Kept(i) /\ (i # id => call'[i] = call[i])
    BY <1>10, GivesUpCalls
  <2>2. /\ id \in 1..Len(call) /\ call[id].at = "waiting" /\ call[id].by \in Ext
        /\ UNCHANGED link /\ late' \subseteq late \cup {call[id].by}
    BY <1>10, WaitingIsCall DEF ExtGivesUp, Waiting
  <2>3. ASSUME NEW i \in 1..Len(call), call'[i].at = "waiting"
        PROVE  call[i].at = "waiting" /\ call[i].by # call[id].by
    <3>1. i # id /\ call[i].at = "waiting"
      BY <2>1, <2>3
    <3>2. QED
      BY <2>2, <3>1 DEF OneCall
  <2>4. QED
    BY <1>1, <2>1, <2>2, <2>3
<1>11. ASSUME NEW c \in Client, NEW m \in MethodsOf(c), DaemonCall(c, m) \/ ExtCall(c, m)
       PROVE  OneCall'
  <2>1. UNCHANGED <<link, late>>
    BY <1>11 DEF DaemonCall, ExtCall
  <2>2. /\ Len(call') = Len(call) + 1 /\ call'[Len(call')].by = c
        /\ call'[Len(call')].behind = (c \in late)
        /\ \A i \in 1..Len(call) : call'[i] = call[i]
    BY <1>11, NewCallMade, NewCallType
  <2>3. \A i \in 1..Len(call') : i \in 1..Len(call) \/ i = Len(call')
    BY <1>0, <2>2
  <2>4. c \in Ext => link[c] # "off" /\ \A i \in 1..Len(call) : call[i].by = c => call[i].at # "waiting"
    BY <1>11, <1>e DEF DaemonCall, ExtCall, Idle
  <2>5. ASSUME NEW i \in 1..Len(call'), call'[i].at = "waiting", call'[i].by \in Ext
        PROVE  /\ link'[call'[i].by] # "off"
               /\ call'[i].behind \/ call'[i].by \notin late'
               /\ \A j \in 1..Len(call') :
                     call'[j].at = "waiting" /\ call'[j].by = call'[i].by => j = i
    <3>1. CASE i = Len(call')
      <4>1. \A j \in 1..Len(call) : call'[j].by = c => call'[j].at # "waiting"
        BY <2>2, <2>4, <2>5, <3>1
      <4>2. QED
        BY <2>1, <2>2, <2>3, <2>4, <2>5, <3>1, <4>1
    <3>2. CASE i \in 1..Len(call)
      <4>1. call[i].at = "waiting" /\ call[i].by \in Ext /\ call'[i] = call[i]
        BY <2>2, <2>5, <3>2
      <4>2. c # call[i].by
        BY <2>4, <3>2, <4>1
      <4>3. QED
        BY <2>1, <2>2, <2>3, <3>2, <4>1, <4>2 DEF OneCall
    <3>3. QED
      BY <2>3, <3>1, <3>2
  <2>6. QED
    BY <2>5 DEF OneCall
<1>12. QED
  BY <1>3, <1>4, <1>5, <1>6, <1>7, <1>8, <1>9, <1>10, <1>11 DEF IpcNext, AppReads, ExtWaits

\* What is on its way for one connection does not depend on the others.
LEMMA OneThingFrame ==
    ASSUME InFlight, NEW d \in Client, OneThingFor(d),
           toServer'[d] = toServer[d], toClient'[d] = toClient[d],
           job'[d] = None \/ (job[d] # None /\ job'[d] # None /\ job'[d].id = job[d].id),
           \A i \in 1..Len(call) : call[i].by = d => call'[i].at = call[i].at
    PROVE  OneThingFor(d)'
<1>1. Asked(d)' <=> Asked(d)
  BY DEF Asked
<1>2. \A k \in 1..Len(toServer[d]) : call'[toServer[d][k].id].at = call[toServer[d][k].id].at
  BY DEF InFlight, Of
<1>3. \A k \in 1..Len(toClient[d]) : IsAnswer(toClient[d][k]) =>
         call'[toClient[d][k].id].at = call[toClient[d][k].id].at
  BY DEF InFlight, Of, IsAnswer
<1>4. job[d] # None => call'[job[d].id].at = call[job[d].id].at
  BY DEF InFlight, Of
<1>5. ASSUME NEW k \in 1..Len(toServer'[d])
      PROVE  /\ call'[toServer'[d][k].id].at = "waiting"
             /\ toServer'[d][k].part = "tail" => k = Len(toServer'[d])
  BY <1>2 DEF OneThingFor
<1>6. job'[d] # None => call'[job'[d].id].at = "waiting" /\ ~Asked(d)'
  BY <1>1, <1>4 DEF OneThingFor
<1>7. ASSUME NEW k \in 1..Len(toClient'[d]), IsAnswer(toClient'[d][k])
      PROVE  /\ call'[toClient'[d][k].id].at = "waiting"
             /\ ~Asked(d)' /\ job'[d] = None
             /\ \A l \in 1..Len(toClient'[d]) : IsAnswer(toClient'[d][l]) => l = k
  BY <1>1, <1>3, <1>7 DEF OneThingFor
<1>8. QED
  BY <1>5, <1>6, <1>7 DEF OneThingFor, IsAnswer

\* A message that is no answer makes no difference.
LEMMA OneThingSends ==
    ASSUME IpcTypeOK, NEW d \in Client, OneThingFor(d), NEW msg \in Message, msg.kind # "answer",
           Sends(d, msg), UNCHANGED <<toServer, job, call>>
    PROVE  OneThingFor(d)'
<1>1. toClient[d] \in Seq(Message) /\ toClient \in [Client -> Seq(Message)]
  BY DEF IpcTypeOK
<1>2. toClient'[d] = Append(toClient[d], msg)
  BY <1>1 DEF Sends
<1>3. /\ Len(toClient[d]) \in Nat /\ Len(toClient'[d]) = Len(toClient[d]) + 1
      /\ \A k \in 1..Len(toClient[d]) : toClient'[d][k] = toClient[d][k]
      /\ toClient'[d][Len(toClient[d]) + 1] = msg
  BY <1>1, <1>2, Appended
<1>4. ASSUME NEW k \in 1..Len(toClient'[d]), IsAnswer(toClient'[d][k])
      PROVE  k \in 1..Len(toClient[d]) /\ toClient'[d][k] = toClient[d][k]
  <2>1. k # Len(toClient[d]) + 1
    BY <1>3, <1>4 DEF IsAnswer
  <2>2. k \in 1..Len(toClient[d])
    BY <1>3, <2>1
  <2>3. QED
    BY <1>3, <2>2
<1>5. Asked(d)' <=> Asked(d)
  BY DEF Asked
<1>6. ASSUME NEW k \in 1..Len(toClient'[d]), IsAnswer(toClient'[d][k])
      PROVE  /\ call'[toClient'[d][k].id].at = "waiting"
             /\ ~Asked(d)' /\ job'[d] = None
             /\ \A l \in 1..Len(toClient'[d]) : IsAnswer(toClient'[d][l]) => l = k
  BY <1>4, <1>5, <1>6 DEF OneThingFor
<1>7. QED
  BY <1>5, <1>6 DEF OneThingFor, IsAnswer

\* The request is read: it becomes a handler, or is dropped.
LEMMA OneThingReads ==
    ASSUME IpcTypeOK, InFlight, NEW c \in Client, OneThingFor(c), ReadsPart(c) \/ ReadsLine(c)
    PROVE  OneThingFor(c)'
<1>1. /\ toServer[c] # << >> /\ toServer' = [toServer EXCEPT ![c] = Tail(@)] /\ UNCHANGED call
      /\ toServer \in [Client -> Seq(Part)] /\ toServer[c] \in Seq(Part)
      /\ toClient[c] \in Seq(Message) /\ toClient \in [Client -> Seq(Message)]
      /\ job[c] = None
  BY DEF ReadsPart, ReadsLine, IpcTypeOK, clientVars, Serving
<1>2. /\ Len(toServer[c]) \in Nat /\ Len(toServer[c]) > 0
      /\ Len(toServer'[c]) = Len(toServer[c]) - 1
      /\ \A k \in 1..Len(toServer'[c]) : toServer'[c][k] = toServer[c][k + 1]
      /\ Head(toServer[c]) = toServer[c][1] /\ toServer'[c] \in Seq(Part)
  BY <1>1, HeadTail
<1>3. \A k \in 1..Len(toClient[c]) : ~IsAnswer(toClient[c][k])
  BY <1>1 DEF OneThingFor, Asked
<1>4. \A k \in 1..Len(toClient'[c]) : ~IsAnswer(toClient'[c][k])
  <2>1. CASE UNCHANGED toClient
    BY <1>3, <2>1 DEF IsAnswer
  <2>2. CASE ~UNCHANGED toClient
    <3> DEFINE msg == [kind |-> "parse_error"]
    <3>1. Sends(c, msg) /\ msg \in Message /\ msg.kind # "answer"
      BY <2>2 DEF ReadsPart, ReadsLine, Message
    <3> HIDE DEF msg
    <3>2. toClient'[c] = Append(toClient[c], msg)
      BY <1>1, <3>1 DEF Sends
    <3>3. /\ Len(toClient[c]) \in Nat /\ Len(toClient'[c]) = Len(toClient[c]) + 1
          /\ \A k \in 1..Len(toClient[c]) : toClient'[c][k] = toClient[c][k]
          /\ toClient'[c][Len(toClient[c]) + 1] = msg
      BY <1>1, <3>1, <3>2, Appended
    <3>4. ASSUME NEW k \in 1..Len(toClient'[c]) PROVE ~IsAnswer(toClient'[c][k])
      <4>1. k \in 1..Len(toClient[c]) \/ k = Len(toClient[c]) + 1
        BY <3>3
      <4>2. QED
        BY <1>3, <3>1, <3>3, <4>1 DEF IsAnswer
    <3>5. QED
      BY <3>4
  <2>3. QED
    BY <2>1, <2>2
<1>5. ASSUME NEW k \in 1..Len(toServer'[c])
      PROVE  /\ call'[toServer'[c][k].id].at = "waiting"
             /\ toServer'[c][k].part = "tail" => k = Len(toServer'[c])
  <2>1. k + 1 \in 1..Len(toServer[c]) /\ toServer'[c][k] = toServer[c][k + 1]
    BY <1>2
  <2>2. /\ call[toServer[c][k + 1].id].at = "waiting"
        /\ toServer[c][k + 1].part = "tail" => k + 1 = Len(toServer[c])
    BY <2>1 DEF OneThingFor
  <2>3. QED
    BY <1>1, <1>2, <2>1, <2>2
<1>6. job'[c] # None => call'[job'[c].id].at = "waiting" /\ ~Asked(c)'
  <2>1. CASE UNCHANGED handlerVars
    BY <1>1, <2>1 DEF handlerVars
  <2>2. CASE ~UNCHANGED handlerVars
    <3>1. toServer[c][1].part = "tail" /\ job'[c].id = toServer[c][1].id /\ 1 \in 1..Len(toServer[c])
      BY <2>2, DispatchJob DEF ReadsPart
    <3>2. call[toServer[c][1].id].at = "waiting" /\ 1 = Len(toServer[c])
      BY <3>1 DEF OneThingFor
    <3>3. Len(toServer'[c]) = 0
      BY <1>2, <3>2
    <3>4. toServer'[c] = << >>
      BY <1>2, <3>3, EmptySeq
    <3>5. QED
      BY <1>1, <3>1, <3>2, <3>4 DEF Asked
  <2>3. QED
    BY <2>1, <2>2
<1>7. QED
  BY <1>4, <1>5, <1>6 DEF OneThingFor, IsAnswer

\* The handler becomes an answer.
LEMMA OneThingReplies ==
    ASSUME IpcTypeOK, InFlight, NEW c \in Client, OneThingFor(c), Replies(c)
    PROVE  OneThingFor(c)'
<1>1. /\ job[c] # None /\ job[c] \in Job /\ job'[c] = None /\ UNCHANGED <<toServer, call>>
      /\ toClient[c] \in Seq(Message) /\ toClient \in [Client -> Seq(Message)]
  BY DEF Replies, IpcTypeOK, HandlersTypeOK, clientVars
<1>2. /\ call[job[c].id].at = "waiting" /\ ~Asked(c)
      /\ \A k \in 1..Len(toClient[c]) : ~IsAnswer(toClient[c][k])
  BY <1>1 DEF OneThingFor
<1>3. CASE UNCHANGED toClient
  BY <1>1, <1>2, <1>3 DEF OneThingFor, Asked, IsAnswer
<1>4. CASE ~UNCHANGED toClient
  <2> DEFINE msg == [kind |-> "answer", id |-> job[c].id, ok |-> job[c].at = "ok"]
  <2>1. msg \in Message /\ msg.id = job[c].id
    BY <1>1 DEF Job, Message
  <2>2. Sends(c, msg)
    BY <1>4 DEF Replies
  <2> HIDE DEF msg
  <2>3. toClient'[c] = Append(toClient[c], msg)
    BY <1>1, <2>2 DEF Sends
  <2>4. /\ Len(toClient[c]) \in Nat /\ Len(toClient'[c]) = Len(toClient[c]) + 1
        /\ \A k \in 1..Len(toClient[c]) : toClient'[c][k] = toClient[c][k]
        /\ toClient'[c][Len(toClient[c]) + 1] = msg
    BY <1>1, <2>1, <2>3, Appended
  <2>5. ASSUME NEW k \in 1..Len(toClient'[c]), IsAnswer(toClient'[c][k])
        PROVE  k = Len(toClient[c]) + 1
    <3>1. k \in 1..Len(toClient[c]) \/ k = Len(toClient[c]) + 1
      BY <2>4
    <3>2. QED
      BY <1>2, <2>4, <2>5, <3>1
  <2>6. ASSUME NEW k \in 1..Len(toClient'[c]), IsAnswer(toClient'[c][k])
        PROVE  /\ call'[toClient'[c][k].id].at = "waiting"
               /\ \A l \in 1..Len(toClient'[c]) : IsAnswer(toClient'[c][l]) => l = k
    BY <1>1, <1>2, <2>1, <2>4, <2>5, <2>6
  <2>7. ~Asked(c)'
    BY <1>1, <1>2 DEF Asked
  <2>8. QED
    BY <1>1, <2>6, <2>7, <1>2 DEF OneThingFor, IsAnswer, Asked
<1>5. QED
  BY <1>3, <1>4

\* The answer is taken: nothing is left on its way.
LEMMA OneThingAnswers ==
    ASSUME IpcTypeOK, InFlight, NEW id \in Id, ExtReads(id), OneThingFor(call[id].by)
    PROVE  \A c \in Client : c = call[id].by => OneThingFor(c)'
<1> SUFFICES ASSUME NEW c \in Client, c = call[id].by PROVE OneThingFor(c)'
  OBVIOUS
<1>1. /\ toClient[c] # << >> /\ toClient' = [toClient EXCEPT ![c] = Tail(@)]
      /\ UNCHANGED <<toServer, job>>
      /\ toClient \in [Client -> Seq(Message)] /\ toClient[c] \in Seq(Message)
  BY DEF ExtReads, Server, handlerVars, IpcTypeOK
<1>2. /\ Len(toClient[c]) \in Nat /\ Len(toClient[c]) > 0
      /\ Len(toClient'[c]) = Len(toClient[c]) - 1
      /\ \A k \in 1..Len(toClient'[c]) : toClient'[c][k] = toClient[c][k + 1]
      /\ Got(c) = toClient[c][1]
  BY <1>1, HeadTail DEF Got
<1>3. \A k \in 1..Len(toClient'[c]) : k + 1 \in 1..Len(toClient[c]) /\ k + 1 # 1 /\ k \in Nat
  BY <1>2
<1>4. 1 \in 1..Len(toClient[c])
  BY <1>2
<1>5. Asked(c)' <=> Asked(c)
  BY <1>1 DEF Asked
<1>6. CASE Got(c).kind = "answer"
  <2>1. IsAnswer(toClient[c][1])
    BY <1>2, <1>6 DEF IsAnswer
  <2>2. ~Asked(c) /\ job[c] = None /\ \A l \in 1..Len(toClient[c]) : IsAnswer(toClient[c][l]) => l = 1
    BY <1>4, <2>1 DEF OneThingFor
  <2>3. \A k \in 1..Len(toClient'[c]) : ~IsAnswer(toClient'[c][k])
    BY <1>2, <1>3, <2>2
  <2>4. 1..Len(toServer'[c]) = {}
    BY <1>1, <2>2, EmptySeq DEF Asked
  <2>5. QED
    BY <1>1, <2>2, <2>3, <2>4 DEF OneThingFor, IsAnswer
<1>7. CASE Got(c).kind # "answer"
  <2>1. UNCHANGED call
    BY <1>7, ExtReadsWhat
  <2>2. ASSUME NEW k \in 1..Len(toClient'[c]), IsAnswer(toClient'[c][k])
        PROVE  /\ call[toClient'[c][k].id].at = "waiting"
               /\ ~Asked(c) /\ job[c] = None
               /\ \A l \in 1..Len(toClient'[c]) : IsAnswer(toClient'[c][l]) => l = k
    <3>1. /\ k + 1 \in 1..Len(toClient[c]) /\ toClient'[c][k] = toClient[c][k + 1]
          /\ IsAnswer(toClient[c][k + 1])
      BY <1>2, <1>3, <2>2
    <3>2. /\ call[toClient[c][k + 1].id].at = "waiting" /\ ~Asked(c) /\ job[c] = None
          /\ \A l \in 1..Len(toClient[c]) : IsAnswer(toClient[c][l]) => l = k + 1
      BY <3>1 DEF OneThingFor
    <3>3. ASSUME NEW l \in 1..Len(toClient'[c]), IsAnswer(toClient'[c][l]) PROVE l = k
      <4>1. l + 1 = k + 1
        BY <1>2, <1>3, <3>2, <3>3
      <4>2. QED
        BY <1>3, <4>1
    <3>4. QED
      BY <3>1, <3>2, <3>3
  <2>3. QED
    BY <1>1, <1>5, <2>1, <2>2 DEF OneThingFor, IsAnswer
<1>8. QED
  BY <1>6, <1>7

\* A client that waits for nothing has nothing on its way; its next call does.
LEMMA OneThingCall ==
    ASSUME IpcTypeOK, InFlight, NEW c \in Client, NEW m \in MethodsOf(c), ExtCall(c, m),
           OneThingFor(c)
    PROVE  OneThingFor(c)'
<1> DEFINE id == Len(call')
<1>1. \A i \in 1..Len(call) : call[i].by = c => call[i].at # "waiting"
  BY DEF ExtCall, Idle
<1>2. /\ toServer \in [Client -> Seq(Part)] /\ toServer[c] \in Seq(Part)
      /\ UNCHANGED <<job, toClient>>
  BY DEF IpcTypeOK, ExtCall, Server, handlerVars
<1>3. toServer[c] = << >>
  <2>1. CASE toServer[c] # << >>
    <3>1. 1 \in 1..Len(toServer[c])
      BY <1>2, <2>1, EmptySeq
    <3>2. QED
      BY <1>1, <3>1 DEF OneThingFor, InFlight, Of
  <2>2. QED
    BY <2>1
<1>4. job[c] = None
  BY <1>1 DEF OneThingFor, InFlight, Of
<1>5. \A k \in 1..Len(toClient[c]) : ~IsAnswer(toClient[c][k])
  BY <1>1 DEF OneThingFor, InFlight, Of, IsAnswer
<1>6. /\ NewCall(c, m, IF link[c] = "open" THEN "waiting" ELSE "failed")
      /\ toServer' = IF link[c] = "open" THEN [toServer EXCEPT ![c] = @ \o Line(id)] ELSE toServer
  BY DEF ExtCall
<1>7. id \in Id /\ call'[id].at = IF link[c] = "open" THEN "waiting" ELSE "failed"
  BY <1>6, NewCallType
<1> HIDE DEF id
<1>8. ASSUME NEW k \in 1..Len(toServer'[c])
      PROVE  /\ call'[toServer'[c][k].id].at = "waiting"
             /\ toServer'[c][k].part = "tail" => k = Len(toServer'[c])
  <2>1. CASE link[c] # "open"
    BY <1>3, <1>6, <2>1, EmptySeq
  <2>2. CASE link[c] = "open"
    <3>1. toServer'[c] = toServer[c] \o Line(id)
      BY <1>2, <1>6, <2>2
    <3>2. /\ Len(toServer[c]) = 0 /\ Len(toServer'[c]) = Len(toServer[c]) + 2
          /\ toServer'[c][Len(toServer[c]) + 1] = [id |-> id, part |-> "head"]
          /\ toServer'[c][Len(toServer[c]) + 2] = [id |-> id, part |-> "tail"]
      <4>1. Len(toServer[c]) = 0
        BY <1>3, EmptySeq
      <4> DEFINE q == toServer[c]
      <4>2. /\ Len(q \o Line(id)) = Len(q) + 2
            /\ (q \o Line(id))[Len(q) + 1] = [id |-> id, part |-> "head"]
            /\ (q \o Line(id))[Len(q) + 2] = [id |-> id, part |-> "tail"]
        BY <1>2, <1>7, LineAppended
      <4>3. QED
        BY <3>1, <4>1, <4>2, Zenon
    <3>3. k = 1 \/ k = 2
      BY <3>2
    <3>4. /\ toServer'[c][1] = [id |-> id, part |-> "head"]
          /\ toServer'[c][2] = [id |-> id, part |-> "tail"] /\ Len(toServer'[c]) = 2
      BY <3>2
    <3>5. QED
      BY <1>7, <2>2, <3>3, <3>4
  <2>3. QED
    BY <2>1, <2>2
<1>9. QED
  BY <1>2, <1>4, <1>5, <1>8 DEF OneThingFor, IsAnswer

\* There is one thing on its way, until a call has timed out.
LEMMA OneThingStep ==
    IpcTypeOK /\ InFlight /\ AtEof /\ OneCall /\ OneThing /\ IpcNext => OneThing'
<1> SUFFICES ASSUME IpcTypeOK, InFlight, AtEof, OneCall, OneThing, IpcNext,
                    NEW d \in Ext, link'[d] # "off", d \notin late'
             PROVE  OneThingFor(d)'
  BY DEF OneThing
<1>0. /\ link \in [Client -> {"off", "open", "eof"}] /\ toServer \in [Client -> Seq(Part)]
      /\ toClient \in [Client -> Seq(Message)] /\ job \in [Client -> Job \cup {None}]
      /\ d \in Client /\ d \notin App
  BY DEF IpcTypeOK, HandlersTypeOK, Ext
<1>1. (link[d] # "off" /\ d \notin late) => OneThingFor(d)
  BY DEF OneThing
<1>2. ASSUME link[d] # "off", d \notin late, toServer'[d] = toServer[d],
             toClient'[d] = toClient[d], job'[d] = job[d],
             \A i \in 1..Len(call) : call[i].by = d => call'[i].at = call[i].at
      PROVE  OneThingFor(d)'
  BY <1>0, <1>1, <1>2, OneThingFrame
<1>3. ASSUME NEW c \in Client, connect_or_spawn(c) PROVE OneThingFor(d)'
  <2>1. c \in App /\ UNCHANGED <<call, late, job>>
    BY <1>3 DEF connect_or_spawn, handlerVars
  <2>2. c # d
    BY <1>0, <2>1
  <2>3. \/ UNCHANGED <<link, toServer, toClient>>
        \/ /\ link' = [link EXCEPT ![c] = "open"] /\ toServer' = [toServer EXCEPT ![c] = << >>]
           /\ toClient' = [toClient EXCEPT ![c] = << >>]
    BY <1>3 DEF connect_or_spawn, Accept, socketVars
  <2>4. link'[d] = link[d] /\ toServer'[d] = toServer[d] /\ toClient'[d] = toClient[d]
    BY <1>0, <2>2, <2>3
  <2>5. QED
    BY <1>2, <2>1, <2>4
<1>4. ASSUME NEW c \in Client, gdriver_connect(c) PROVE OneThingFor(d)'
  <2>1. /\ link' = [link EXCEPT ![c] = "open"] /\ toServer' = [toServer EXCEPT ![c] = << >>]
        /\ toClient' = [toClient EXCEPT ![c] = << >>] /\ UNCHANGED <<call, job>>
        /\ late' = late \ {c} /\ job[c] = None
    BY <1>4 DEF gdriver_connect, Accept, handlerVars
  <2>2. CASE c = d
    <3>1. toServer'[d] = << >> /\ toClient'[d] = << >> /\ job'[d] = None
      BY <1>0, <2>1, <2>2
    <3>2. 1..Len(toServer'[d]) = {} /\ 1..Len(toClient'[d]) = {}
      BY <3>1, EmptySeq
    <3>3. QED
      BY <3>1, <3>2 DEF OneThingFor
  <2>3. CASE c # d
    BY <1>0, <1>2, <2>1, <2>3
  <2>4. QED
    BY <2>2, <2>3
<1>5. ASSUME NEW c \in Client, gdriver_disconnect(c) PROVE OneThingFor(d)'
  <2>1. link' = [link EXCEPT ![c] = "off"] /\ UNCHANGED <<toServer, toClient, call, late, job>>
    BY <1>5 DEF gdriver_disconnect, clientVars, handlerVars
  <2>2. QED
    BY <1>0, <1>2, <2>1
<1>6. ASSUME NEW c \in Client, ReadsPart(c) \/ ReadsLine(c) PROVE OneThingFor(d)'
  <2>1. /\ toServer' = [toServer EXCEPT ![c] = Tail(@)] /\ UNCHANGED <<link, call, late>>
        /\ UNCHANGED toClient \/ Sends(c, [kind |-> "parse_error"])
    BY <1>6 DEF ReadsPart, ReadsLine, clientVars
  <2>2. CASE c = d
    BY <1>1, <1>6, <2>1, <2>2, OneThingReads
  <2>3. CASE c # d
    <3>1. job'[d] = job[d]
      <4>1. CASE UNCHANGED handlerVars
        BY <4>1 DEF handlerVars
      <4>2. CASE ~UNCHANGED handlerVars
        BY <1>0, <1>6, <2>3, <4>2, DispatchJob DEF ReadsPart
      <4>3. QED
        BY <4>1, <4>2
    <3>2. toServer'[d] = toServer[d] /\ toClient'[d] = toClient[d]
      BY <1>0, <2>1, <2>3 DEF Sends
    <3>3. QED
      BY <1>2, <2>1, <3>1, <3>2
  <2>4. QED
    BY <2>2, <2>3
<1>7. ASSUME NEW c \in Client, ForwardsPush(c) PROVE OneThingFor(d)'
  <2>1. /\ UNCHANGED <<link, toServer, call, late, job>> /\ pos[c] \in 1..MaxPush
        /\ UNCHANGED toClient \/ Sends(c, [kind |-> "push", n |-> pos[c]])
    BY <1>7, Bounds DEF ForwardsPush, clientVars, handlerVars, IpcTypeOK
  <2> DEFINE msg == [kind |-> "push", n |-> pos[c]]
  <2>2. msg \in Message /\ msg.kind # "answer"
    BY <2>1 DEF Message
  <2>3. CASE c = d /\ ~UNCHANGED toClient
    <3>1. OneThingFor(d) /\ Sends(d, msg)
      BY <1>1, <2>1, <2>3
    <3> HIDE DEF msg
    <3>2. QED
      BY <1>0, <2>1, <2>2, <3>1, OneThingSends
  <2>4. CASE c # d \/ UNCHANGED toClient
    <3>1. toClient'[d] = toClient[d]
      BY <1>0, <2>1, <2>4 DEF Sends
    <3>2. QED
      BY <1>2, <2>1, <3>1
  <2>5. QED
    BY <2>3, <2>4
<1>8. ASSUME NEW c \in Client, Handles(c) PROVE OneThingFor(d)'
  <2>1. /\ UNCHANGED <<link, toServer, toClient, call, late>>
        /\ HandlersTypeOK /\ HandlerStep(c)
    BY <1>8 DEF Handles, socketVars, clientVars, IpcTypeOK
  <2>2. /\ job[c] # None /\ job'[c] # None /\ job'[c].id = job[c].id
        /\ \A e \in Client : e # c => job'[e] = job[e]
    BY <2>1, HandlerJob
  <2>3. OneThingFor(d)
    BY <1>1, <2>1
  <2>4. job'[d] = None \/ (job[d] # None /\ job'[d] # None /\ job'[d].id = job[d].id)
    BY <1>0, <2>2
  <2>5. QED
    BY <1>0, <2>1, <2>3, <2>4, OneThingFrame
<1>9. ASSUME NEW c \in Client, Replies(c) PROVE OneThingFor(d)'
  <2>1. /\ UNCHANGED <<link, toServer, call, late>> /\ job' = [job EXCEPT ![c] = None]
        /\ \/ UNCHANGED toClient
           \/ Sends(c, [kind |-> "answer", id |-> job[c].id, ok |-> job[c].at = "ok"])
    BY <1>9 DEF Replies, clientVars
  <2>2. CASE c = d
    BY <1>1, <1>9, <2>1, <2>2, OneThingReplies
  <2>3. CASE c # d
    <3>1. toClient'[d] = toClient[d]
      BY <1>0, <2>1, <2>3 DEF Sends
    <3>2. QED
      BY <1>0, <1>2, <2>1, <2>3, <3>1
  <2>4. QED
    BY <2>2, <2>3
<1>10. ASSUME NEW c \in Client, NEW m \in MethodsOf(c), DaemonCall(c, m) \/ ExtCall(c, m)
       PROVE  OneThingFor(d)'
  <2>1. /\ UNCHANGED <<link, late, job, toClient>>
        /\ UNCHANGED toServer \/ toServer' = [toServer EXCEPT ![c] = @ \o Line(Len(call'))]
    BY <1>10 DEF DaemonCall, ExtCall, Server, handlerVars
  <2>2. \A i \in 1..Len(call) : call'[i] = call[i]
    BY <1>10, NewCallMade, NewCallType
  <2>3. CASE c = d
    <3>1. ExtCall(c, m) /\ OneThingFor(c)
      BY <1>0, <1>1, <1>10, <2>1, <2>3 DEF DaemonCall
    <3>2. QED
      BY <2>3, <3>1, OneThingCall
  <2>4. CASE c # d
    <3>1. toServer'[d] = toServer[d]
      BY <1>0, <2>1, <2>4
    <3>2. QED
      BY <1>2, <2>1, <2>2, <3>1
  <2>5. QED
    BY <2>3, <2>4
<1>11. ASSUME NEW c \in Client, handle_message(c) PROVE OneThingFor(d)'
  <2>1. /\ c \in App /\ UNCHANGED <<link, late, job, toServer>>
        /\ toClient' = [toClient EXCEPT ![c] = Tail(@)]
    BY <1>11 DEF handle_message, Server, handlerVars
  <2>2. c # d /\ toClient'[d] = toClient[d]
    BY <1>0, <2>1
  <2>3. ASSUME NEW i \in 1..Len(call), call[i].by = d PROVE call'[i].at = call[i].at
    <3>1. CASE UNCHANGED call
      BY <3>1
    <3>2. CASE ~UNCHANGED call
      <4>1. /\ Got(c).id \in 1..Len(call) /\ call[Got(c).id].by = c
            /\ Got(c) \in Message /\ Got(c).kind = "answer" /\ Answers(Got(c).id, Got(c))
        BY <1>11, <3>2, MessageWhat
      <4>2. i # Got(c).id
        BY <2>2, <2>3, <4>1
      <4>3. QED
        BY <4>1, <4>2, AnswersCalls
    <3>3. QED
      BY <3>1, <3>2
  <2>4. QED
    BY <1>2, <2>1, <2>2, <2>3
<1>12. ASSUME NEW c \in Client, ReaderEnds(c) PROVE OneThingFor(d)'
  <2>1. c \in App /\ UNCHANGED <<link, late, job, toServer, toClient>>
    BY <1>12 DEF ReaderEnds, Server, handlerVars
  <2>2. ASSUME NEW i \in 1..Len(call), call[i].by = d PROVE call'[i].at = call[i].at
    <3>1. i \notin pending[c]
      BY <1>0, <2>1, <2>2 DEF InFlight, Of
    <3>2. QED
      BY <1>12, <3>1, EndedCalls
  <2>3. QED
    BY <1>2, <2>1, <2>2
<1>13. ASSUME NEW id \in Id, ExtReads(id) PROVE OneThingFor(d)'
  <2> DEFINE c == call[id].by
  <2>1. /\ UNCHANGED <<link, late, job, toServer>> /\ toClient' = [toClient EXCEPT ![c] = Tail(@)]
    BY <1>13 DEF ExtReads, Server, handlerVars
  <2>2. CASE c = d
    BY <1>0, <1>1, <1>13, <2>1, <2>2, OneThingAnswers
  <2>3. CASE c # d
    <3>1. ASSUME NEW i \in 1..Len(call), call[i].by = d PROVE call'[i].at = call[i].at
      <4>1. CASE UNCHANGED call
        BY <4>1
      <4>2. CASE ~UNCHANGED call
        <5>1. /\ id \in 1..Len(call) /\ Got(c) \in Message /\ Got(c).kind = "answer"
              /\ Answers(id, Got(c))
          BY <1>13, <4>2, ExtReadsWhat
        <5>2. i # id
          BY <2>3, <3>1
        <5>3. QED
          BY <5>1, <5>2, AnswersCalls
      <4>3. QED
        BY <4>1, <4>2
    <3>2. toClient'[d] = toClient[d]
      BY <1>0, <2>1, <2>3
    <3>3. QED
      BY <1>2, <2>1, <3>1, <3>2
  <2>4. QED
    BY <2>2, <2>3
<1>14. ASSUME NEW id \in Id, ExtGivesUp(id) PROVE OneThingFor(d)'
  <2> DEFINE c == call[id].by
  <2>1. /\ UNCHANGED <<link, job, toServer, toClient>> /\ toClient[c] = << >>
        /\ late' = IF link[c] = "open" THEN late \cup {c} ELSE late
    BY <1>14 DEF ExtGivesUp, Server, handlerVars
  <2>2. CASE c = d
    <3>1. link[d] = "eof"
      BY <1>0, <2>1, <2>2
    <3>2. toServer[d] = << >> /\ job[d] = None
      BY <1>0, <3>1 DEF AtEof, Asked
    <3>3. 1..Len(toServer'[d]) = {} /\ 1..Len(toClient'[d]) = {} /\ job'[d] = None
      BY <2>1, <2>2, <3>2, EmptySeq
    <3>4. QED
      BY <3>3 DEF OneThingFor
  <2>3. CASE c # d
    <3>1. \A i \in 1..Len(call) : call[i].by = d => call'[i].at = call[i].at
      BY <1>14, <2>3, GivesUpCalls
    <3>2. QED
      BY <1>2, <2>1, <3>1
  <2>4. QED
    BY <2>2, <2>3
<1>15. ASSUME Push \/ Start PROVE OneThingFor(d)'
  <2>1. UNCHANGED <<link, late, job, toServer, toClient, call>>
    BY <1>15 DEF Push, Start, handlerVars, socketVars, clientVars
  <2>2. QED
    BY <1>2, <2>1
<1>16. ASSUME Crash PROVE OneThingFor(d)'
  <2>1. /\ link[d] # "off" /\ UNCHANGED <<toClient, call, late>>
        /\ toServer'[d] = << >> /\ job'[d] = None
    BY <1>0, <1>16 DEF Crash, HandlersRestart, clientVars
  <2>2. OneThingFor(d) /\ 1..Len(toServer'[d]) = {} /\ ~Asked(d)'
    BY <1>1, <2>1, EmptySeq DEF Asked
  <2>3. QED
    BY <2>1, <2>2 DEF OneThingFor, IsAnswer
<1>17. QED
  BY <1>3, <1>4, <1>5, <1>6, <1>7, <1>8, <1>9, <1>10, <1>11, <1>12, <1>13, <1>14, <1>15, <1>16
     DEF IpcNext, Serve, AppReads, ExtWaits

\* The answer a call gets is its own.
LEMMA AnswerIsOwnStep ==
    IpcTypeOK /\ InFlight /\ OneCall /\ OneThing /\ AnswerIsOwn /\ IpcNext => AnswerIsOwn'
<1> SUFFICES ASSUME IpcTypeOK, InFlight, OneCall, OneThing, AnswerIsOwn, IpcNext,
                    NEW i \in 1..Len(call'), call'[i].answer # None
             PROVE  call'[i].answer = i \/ call'[i].behind
  BY DEF AnswerIsOwn
<1>0. Len(call) \in Nat
  BY CallsKept
<1>1. CASE i \in 1..Len(call) /\ call'[i].answer = call[i].answer /\ call'[i].behind = call[i].behind
  BY <1>1 DEF AnswerIsOwn
<1>2. CASE \E c \in Client : \E m \in MethodsOf(c) : DaemonCall(c, m) \/ ExtCall(c, m)
  <2>1. /\ Len(call') = Len(call) + 1 /\ call'[Len(call')].answer = None
        /\ \A j \in 1..Len(call) : call'[j] = call[j]
    BY <1>2, NewCallMade, NewCallType
  <2>2. i \in 1..Len(call)
    BY <1>0, <2>1
  <2>3. QED
    BY <1>1, <2>1, <2>2
<1>3. ASSUME NEW c \in Client, handle_message(c) PROVE call'[i].answer = i \/ call'[i].behind
  <2>1. CASE UNCHANGED call
    BY <1>1, <2>1
  <2>2. CASE ~UNCHANGED call
    <3>1. /\ Got(c).id \in 1..Len(call) /\ Got(c) \in Message /\ Got(c).kind = "answer"
          /\ Answers(Got(c).id, Got(c))
      BY <1>3, <2>2, MessageWhat
    <3>2. /\ Len(call') = Len(call) /\ call'[Got(c).id].answer = Got(c).id
          /\ \A j \in 1..Len(call) : j # Got(c).id => call'[j] = call[j]
      BY <3>1, AnswersCalls
    <3>3. QED
      BY <1>1, <3>2
  <2>3. QED
    BY <2>1, <2>2
<1>4. ASSUME NEW c \in Client, ReaderEnds(c) PROVE call'[i].answer = i \/ call'[i].behind
  BY <1>1, <1>4, EndedCalls DEF Kept
<1>5. ASSUME NEW id \in Id, ExtReads(id) PROVE call'[i].answer = i \/ call'[i].behind
  <2>1. CASE UNCHANGED call
    BY <1>1, <2>1
  <2>2. CASE ~UNCHANGED call
    <3> DEFINE c == call[id].by
               got == Got(c).id
    <3>1. /\ id \in 1..Len(call) /\ c \in Ext /\ c \in Client /\ call[id].at = "waiting"
          /\ Got(c) \in Message /\ Got(c).kind = "answer"
          /\ Got(c) = toClient[c][1] /\ 1 \in 1..Len(toClient[c]) /\ Answers(id, Got(c))
      BY <1>5, <2>2, ExtReadsWhat
    <3>2. /\ Len(call') = Len(call) /\ call'[id].answer = got /\ call'[id].behind = call[id].behind
          /\ \A j \in 1..Len(call) : j # id => call'[j] = call[j]
      BY <3>1, AnswersCalls DEF Kept
    <3>3. CASE i # id
      BY <1>1, <3>2, <3>3
    <3>4. CASE i = id /\ call[id].behind
      BY <3>2, <3>4
    <3>5. CASE i = id /\ ~call[id].behind
      <4>1. link[c] # "off" /\ c \notin late
        BY <3>1, <3>5 DEF OneCall
      <4>2. got \in 1..Len(call) /\ call[got].by = c
        BY <3>1 DEF InFlight, Of
      <4>3. call[got].at = "waiting"
        BY <3>1, <4>1 DEF OneThing, OneThingFor, IsAnswer
      <4>4. got = id
        BY <3>1, <4>2, <4>3 DEF OneCall
      <4>5. QED
        BY <3>2, <3>5, <4>4
    <3>6. QED
      BY <3>3, <3>4, <3>5
  <2>3. QED
    BY <2>1, <2>2
<1>6. ASSUME NEW id \in Id, ExtGivesUp(id) PROVE call'[i].answer = i \/ call'[i].behind
  <2>1. /\ Len(call') = Len(call) /\ call'[id].answer = call[id].answer
        /\ \A j \in 1..Len(call) : Kept(j) /\ (j # id => call'[j] = call[j])
    BY <1>6, GivesUpCalls
  <2>2. QED
    BY <1>1, <2>1 DEF Kept
<1>7. CASE Elsewhere
  BY <1>1, <1>7, ElsewhereCalls
<1>8. QED
  BY <1>2, <1>3, <1>4, <1>5, <1>6, <1>7 DEF IpcNext, Elsewhere, AppReads, ExtWaits

-----------------------------------------------------------------------------
\* The theorems.

\* The parts hold at first.
LEMMA InitInv == IpcInit => IpcInv
<1> SUFFICES ASSUME IpcInit PROVE IpcInv
  OBVIOUS
<1>1. IpcTypeOK
  BY InitType
<1>2. /\ \A c \in Client : toServer[c] = << >> /\ toClient[c] = << >> /\ job[c] = None
                           /\ pending[c] = {} /\ link[c] = "off"
      /\ call = << >> /\ tmp = None /\ toml = 0
      /\ content[toml] = memory
  BY HandlerConstants DEF IpcInit, HandlersInit, Inode
<1>3. /\ Len(call) = 0 /\ 1..Len(call) = {}
      /\ \A c \in Client : 1..Len(toServer[c]) = {} /\ 1..Len(toClient[c]) = {}
  BY <1>2, EmptySeq
<1>4. InFlight /\ Methods /\ InPlace
  BY <1>2, <1>3 DEF InFlight, Methods, InPlace
<1>5. Fresh
  BY <1>2, <1>3, HandlerConstants DEF Fresh, FreshNames, FreshFor
<1>6. DiskNeverTorn /\ OneSaver /\ PreferencesAgree
  <2>1. memory \in Preferences
    BY <1>1 DEF IpcTypeOK, HandlersTypeOK
  <2>2. \A c \in Client : ~OfPreferences(c)
    BY <1>2 DEF OfPreferences
  <2>3. QED
    BY <1>2, <2>1, <2>2, NoneIsNoRecord DEF DiskNeverTorn, OneSaver, PreferencesAgree, Torn
<1>7. HandlerDone /\ AnswerDone /\ AnsweredIsDone
  BY <1>2, <1>3 DEF HandlerDone, AnswerDone, AnsweredIsDone, Ext
<1>8. AtEof /\ OneCall /\ OneThing /\ AnswerIsOwn
  BY <1>2, <1>3 DEF AtEof, Asked, OneCall, OneThing, AnswerIsOwn, Ext
<1>9. QED
  BY <1>1, <1>4, <1>5, <1>6, <1>7, <1>8 DEF IpcInv

\* Every step keeps them.
LEMMA NextInv == IpcInv /\ [IpcNext]_ipcVars => IpcInv'
<1> SUFFICES ASSUME IpcInv, [IpcNext]_ipcVars PROVE IpcInv'
  OBVIOUS
<1>1. CASE IpcNext
  <2>1. PrefsInv
    BY DEF IpcInv, PrefsInv
  <2>2. IpcTypeOK' /\ InFlight' /\ Methods' /\ InPlace' /\ Fresh'
    BY <1>1, NextType, InFlightStep, MethodsStep, InPlaceStep, FreshStep DEF IpcInv
  <2>3. PrefsInv'
    BY <1>1, <2>1, PrefsStep DEF IpcInv
  <2>4. HandlerDone' /\ AnswerDone' /\ AnsweredIsDone'
    BY <1>1, HandlerDoneStep, AnswerDoneStep, AnsweredIsDoneStep DEF IpcInv
  <2>5. AtEof' /\ OneCall' /\ OneThing' /\ AnswerIsOwn'
    BY <1>1, AtEofStep, OneCallStep, OneThingStep, AnswerIsOwnStep DEF IpcInv
  <2>6. QED
    BY <2>2, <2>3, <2>4, <2>5 DEF IpcInv, PrefsInv
<1>2. CASE UNCHANGED ipcVars
  <2>1. /\ UNCHANGED handlerVars /\ UNCHANGED socketVars /\ UNCHANGED clientVars
        /\ UNCHANGED <<daemon, sent, cut>>
    BY <1>2 DEF ipcVars
  <2>2. UNCHANGED <<memory, toml, tmp, content, rows, tasks, job, faults, overlapped, unsaved>>
    BY <2>1 DEF handlerVars, configVars
  <2>3. UNCHANGED <<link, toServer, toClient, line, pos, attempt, shown, call, pending, reader,
                    writer, late, load>>
    BY <2>1 DEF socketVars, clientVars
  <2>4. IpcTypeOK'
    BY <2>1, <2>2, <2>3 DEF IpcInv, IpcTypeOK, HandlersTypeOK
  <2>5. InFlight' /\ Methods' /\ InPlace' /\ Fresh'
    BY <2>2, <2>3 DEF IpcInv, InFlight, Of, Methods, InPlace, Fresh, FreshNames, FreshFor
  <2>6. DiskNeverTorn' /\ OneSaver' /\ PreferencesAgree'
    BY <2>2 DEF IpcInv, DiskNeverTorn, OneSaver, PreferencesAgree, OfPreferences, Saving
  <2>7. HandlerDone' /\ AnswerDone' /\ AnsweredIsDone'
    BY <2>2, <2>3 DEF IpcInv, HandlerDone, AnswerDone, AnsweredIsDone, Done
  <2>8. AtEof' /\ OneCall' /\ OneThing' /\ AnswerIsOwn'
    BY <2>2, <2>3 DEF IpcInv, AtEof, Asked, OneCall, OneThing, OneThingFor, IsAnswer, AnswerIsOwn
  <2>9. QED
    BY <2>4, <2>5, <2>6, <2>7, <2>8 DEF IpcInv
<1>3. QED
  BY <1>1, <1>2

\* The inductive invariant is one.
THEOREM IpcInvariant == IpcSpec => []IpcInv
BY InitInv, NextInv, PTL DEF IpcSpec

\* Sockets, handlers and calls keep their types.
THEOREM IpcTypeCorrect == IpcSpec => []IpcTypeOK
BY IpcInvariant, PTL DEF IpcInv

\* preferences.toml is never left half written by save_to, for any number of
\* failures and crashes, unless two requests for the preferences overlap.
THEOREM DiskStaysWhole == IpcSpec => []DiskNeverTorn
BY IpcInvariant, PTL DEF IpcInv

\* The ConfigHandle and the file agree whenever no handler of the preferences runs,
\* unless two overlapped or set_sync_mode could not write its file.
THEOREM PreferencesStayInStep == IpcSpec => []PreferencesAgree
BY IpcInvariant, PTL DEF IpcInv

\* A client that is told ok by the handlers of the file manager has its row and
\* its task.
THEOREM AnsweredAreDone == IpcSpec => []AnsweredIsDone
BY IpcInvariant, PTL DEF IpcInv

\* DaemonClient and, until its first timeout, IpcClient give a call its own answer.
THEOREM AnswersAreOwn == IpcSpec => []AnswerIsOwn
BY IpcInvariant, PTL DEF IpcInv

=============================================================================
