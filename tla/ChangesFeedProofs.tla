------------------------- MODULE ChangesFeedProofs -------------------------
(***************************************************************************)
(* No change on Drive is silently lost, for any number of files, changes,  *)
(* logins and faults and any page size.  NoChangeLost alone is not         *)
(* inductive: what a poll has in hand must cover everything between the    *)
(* stored token and the token it will store (PollCovers), and the entries  *)
(* in hand must be what Drive said of the file at some time (PageIsTrue).  *)
(***************************************************************************)
EXTENDS ChangesFeed, TLAPS

\* Positions never run ahead of Drive.
Positions ==
    /\ token <= head /\ start <= head /\ seen <= head
    /\ \A f \in File : changedAt[f] <= head
    /\ \A f \in File : life[f] = "absent" => changedAt[f] = 0

\* The account's row, its token and its files go together.
Cascade == ~account => token = NoToken /\ \A f \in File : row[f] = NoRow

\* A page is in hand only while its entries are applied.
PageInHand == pollAt # "apply" => page = {}

\* An entry is the last change of its file, or an older one.
PageIsTrue ==
    \A e \in page :
        /\ e.version <= changedAt[e.file]
        /\ e.version = changedAt[e.file] => e = EntryOf(e.file)

\* Every file whose last change lies within the pages fetched so far is up to
\* date, in the page in hand, or accounted for.
PollCovers ==
    pollAt # "none" =>
        \A f \in File : changedAt[f] <= seen =>
            Fresh(f) \/ f \in missed \/ EntryOf(f) \in page

FeedInv ==
    /\ FeedTypeOK /\ Positions /\ Cascade
    /\ PageInHand /\ PageIsTrue /\ PollCovers /\ NoChangeLost

-----------------------------------------------------------------------------
\* A write to drive_files never makes a file stale without accounting for it.
LEMMA PutAccounts ==
    ASSUME FeedTypeOK, NEW f \in File, NEW r \in Row, Put(f, r), UNCHANGED driveVars
    PROVE  /\ row' \in [File -> Row] /\ missed' \in SUBSET File
           /\ \A g \in File : Fresh(g) \/ g \in missed => Fresh(g)' \/ g \in missed'
           /\ FreshRow(f, r) => Fresh(f)'
           /\ \A g \in File \ {f} : row'[g] = row[g]
<1>1. row' \in [File -> Row] /\ missed' \in SUBSET File
  BY DEF Put, FeedTypeOK
<1>2. row' = [row EXCEPT ![f] = r] /\ row'[f] = r /\ \A g \in File \ {f} : row'[g] = row[g]
  BY DEF Put, FeedTypeOK
<1>3. \A g \in File : Fresh(g)' <=> FreshRow(g, row'[g])
  BY DEF Fresh, FreshRow, Exists, driveVars
<1>4. ASSUME NEW g \in File, Fresh(g) \/ g \in missed PROVE Fresh(g)' \/ g \in missed'
  <2>1. CASE g = f
    BY <1>2, <1>3, <1>4, <2>1 DEF Put
  <2>2. CASE g # f
    BY <1>2, <1>3, <1>4, <2>2 DEF Put, Fresh
  <2> QED
    BY <2>1, <2>2
<1> QED
  BY <1>1, <1>2, <1>3, <1>4

\* What a step that leaves Drive, the token, the poll and the account alone, and
\* accounts for what it does to the rows, keeps.
LEMMA RowsStep ==
    ASSUME FeedInv, FeedTypeOK', UNCHANGED <<driveVars, account, token, pollVars>>,
           start' <= head, ~account => UNCHANGED row,
           \A g \in File : Fresh(g) \/ g \in missed => Fresh(g)' \/ g \in missed'
    PROVE  FeedInv'
<1> USE DEF driveVars, pollVars
<1>1. Positions'
  BY DEF FeedInv, Positions
<1>2. Cascade'
  BY DEF FeedInv, Cascade
<1>3. \A g \in File : EntryOf(g)' = EntryOf(g)
  BY DEF EntryOf
<1>4. PageInHand' /\ PageIsTrue'
  <2>1. PageInHand'
    BY DEF FeedInv, PageInHand
  <2>2. \A e \in page : e.file \in File
    BY DEF FeedInv, FeedTypeOK, Entry
  <2> QED
    BY <1>3, <2>1, <2>2 DEF FeedInv, PageIsTrue
<1>5. PollCovers'
  BY <1>3 DEF FeedInv, PollCovers
<1>6. NoChangeLost'
  BY DEF FeedInv, NoChangeLost
<1> QED
  BY <1>1, <1>2, <1>4, <1>5, <1>6 DEF FeedInv

\* The same for steps that touch no row at all.
LEMMA QuietStep ==
    ASSUME FeedInv, FeedTypeOK', start' <= head,
           UNCHANGED <<driveVars, account, token, row, pollVars, missed>>
    PROVE  FeedInv'
<1>1. \A g \in File : Fresh(g)' <=> Fresh(g)
  BY DEF Fresh, FreshRow, Exists, driveVars
<1>2. \A g \in File : Fresh(g) \/ g \in missed => Fresh(g)' \/ g \in missed'
  BY <1>1
<1>3. UNCHANGED <<driveVars, account, token, pollVars>> /\ (~account => UNCHANGED row)
  OBVIOUS
<1> QED
  BY <1>2, <1>3, RowsStep

-----------------------------------------------------------------------------
\* The invariant holds at the start.
LEMMA FeedInitInv == FeedInit => FeedInv
<1> SUFFICES ASSUME FeedInit PROVE FeedInv
  OBVIOUS
<1> USE FeedAssumption DEF FeedInit, NoToken
<1>1. NoRow \in Row
  BY DEF NoRow, Row
<1>2. FeedTypeOK
  <2>1. /\ head \in 0..MaxChanges /\ start \in 0..MaxChanges /\ seen \in 0..MaxChanges
        /\ token \in -1..MaxChanges /\ logins \in 0..MaxLogins /\ faults \in 0..MaxFaults
        /\ changedAt \in [File -> 0..MaxChanges]
    OBVIOUS
  <2>2. life \in [File -> {"absent", "live", "trashed", "gone"}]
    OBVIOUS
  <2>3. row \in [File -> Row] /\ clones \in [File -> Row]
    BY <1>1
  <2>4. missed \in SUBSET File /\ queue \in SUBSET Task /\ listed \in SUBSET Entry
        /\ page \in SUBSET Entry /\ work \in SUBSET Work
    OBVIOUS
  <2> QED
    BY <2>1, <2>2, <2>3, <2>4 DEF FeedTypeOK
<1>3. \A f \in File : ~Exists(f) => Fresh(f)
  BY DEF Fresh, FreshRow, NoRow
<1>4. NoChangeLost
  BY <1>3 DEF NoChangeLost
<1>5. Positions /\ Cascade /\ PageInHand /\ PageIsTrue /\ PollCovers
  BY DEF Positions, Cascade, PageInHand, PageIsTrue, PollCovers
<1> QED
  BY <1>2, <1>4, <1>5 DEF FeedInv

-----------------------------------------------------------------------------
\* The responses and the rows made from them have their types.
LEMMA EntryTypes ==
    /\ NoRow \in Row
    /\ \A e \in Entry : e.file \in File /\ MapApiFileToDb(e) \in Row
    /\ FeedTypeOK => \A f \in File : life[f] # "absent" => EntryOf(f) \in Entry
    /\ \A r \in Row, b \in BOOLEAN :
          [r EXCEPT !.local_path = b] \in Row /\ [r EXCEPT !.is_trashed = b] \in Row
    /\ \A f \in File : Download(f) \in Task /\ Delete(f) \in Task
<1>1. NoRow \in Row /\ \A e \in Entry : e.file \in File /\ MapApiFileToDb(e) \in Row
  BY DEF NoRow, Row, Entry, MapApiFileToDb
<1>2. FeedTypeOK => \A f \in File : life[f] # "absent" => EntryOf(f) \in Entry
  BY FeedAssumption DEF FeedTypeOK, EntryOf, Entry
<1>3. \A r \in Row, b \in BOOLEAN :
         [r EXCEPT !.local_path = b] \in Row /\ [r EXCEPT !.is_trashed = b] \in Row
  BY DEF Row
<1>4. \A f \in File : Download(f) \in Task /\ Delete(f) \in Task
  BY DEF Download, Delete, Task
<1> QED
  BY <1>1, <1>2, <1>3, <1>4

\* The OAuth task.
LEMMA InitialSyncInv == FeedInv /\ (InitialSync \/ LoginFails) => FeedInv'
<1> SUFFICES ASSUME FeedInv, InitialSync \/ LoginFails PROVE FeedInv'
  OBVIOUS
<1>0. FeedTypeOK /\ start <= head
  BY DEF FeedInv, Positions
<1> USE DEF driveVars, dbVars, pollVars, loginVars
<1>1. CASE GetStartPageToken
  <2>1. FeedTypeOK' /\ start' <= head
    BY <1>0, <1>1 DEF GetStartPageToken, FeedTypeOK
  <2> QED
    BY <1>1, <2>1, QuietStep DEF GetStartPageToken
<1>2. CASE SaveStartPageToken
  <2>1. FeedTypeOK'
    BY <1>0, <1>2 DEF SaveStartPageToken, FeedTypeOK
  <2>2. \A g \in File : (Fresh(g)' <=> Fresh(g)) /\ EntryOf(g)' = EntryOf(g)
    BY <1>2 DEF SaveStartPageToken, Fresh, FreshRow, Exists, EntryOf
  <2>3. Positions' /\ Cascade' /\ PageInHand'
    BY <1>2 DEF SaveStartPageToken, FeedInv, Positions, Cascade, PageInHand
  <2>4. PageIsTrue'
    <3>1. \A e \in page : e.file \in File
      BY <1>0 DEF FeedTypeOK, Entry
    <3> QED
      BY <1>2, <2>2, <3>1 DEF SaveStartPageToken, FeedInv, PageIsTrue
  <2>5. PollCovers'
    BY <1>2, <2>2 DEF SaveStartPageToken, FeedInv, PollCovers
  <2>6. NoChangeLost'
    <3> SUFFICES ASSUME NEW g \in File, ~Fresh(g), g \notin missed
                 PROVE  g \in missed' \/ (token' # NoToken /\ token' < changedAt[g])
      BY <1>2, <2>2 DEF SaveStartPageToken, NoChangeLost
    <3>1. changedAt[g] \in Int /\ start \in 0..MaxChanges
      BY <1>0 DEF FeedTypeOK
    <3> QED
      BY <1>2, <3>1 DEF SaveStartPageToken, NoToken
  <2> QED
    BY <2>1, <2>3, <2>4, <2>5, <2>6 DEF FeedInv
<1>3. CASE ListDone
  <2>1. FeedTypeOK' /\ start' <= head
    BY <1>0, <1>3 DEF ListDone, FeedTypeOK
  <2> QED
    BY <1>3, <2>1, QuietStep DEF ListDone
<1>4. ASSUME NEW S \in SUBSET toList, ListFiles(S) PROVE FeedInv'
  <2>1. listed' \in SUBSET Entry
    <3>1. \A f \in S : Exists(f) => EntryOf(f) \in Entry
      BY <1>0, EntryTypes DEF FeedTypeOK, Exists
    <3> QED
      BY <1>4, <3>1 DEF ListFiles
  <2>2. FeedTypeOK' /\ start' <= head
    BY <1>0, <1>4, <2>1 DEF ListFiles, FeedTypeOK
  <2> QED
    BY <1>4, <2>2, QuietStep DEF ListFiles
<1>5. ASSUME NEW e \in listed, UpsertListed(e) PROVE FeedInv'
  <2>1. e.file \in File /\ MapApiFileToDb(e) \in Row
    BY <1>0, EntryTypes DEF FeedTypeOK
  <2>2. Put(e.file, MapApiFileToDb(e)) /\ UNCHANGED driveVars
    BY <1>5 DEF UpsertListed
  <2>3. /\ row' \in [File -> Row] /\ missed' \in SUBSET File
        /\ \A g \in File : Fresh(g) \/ g \in missed => Fresh(g)' \/ g \in missed'
    BY <1>0, <2>1, <2>2, PutAccounts
  <2>4. FeedTypeOK' /\ start' <= head
    BY <1>0, <1>5, <2>3 DEF UpsertListed, FeedTypeOK
  <2> QED
    BY <1>5, <2>3, <2>4, RowsStep DEF UpsertListed
<1>6. ASSUME NEW f \in toList, EnqueueMirrorDownload(f) PROVE FeedInv'
  <2>1. f \in File /\ [clones[f] EXCEPT !.local_path = TRUE] \in Row /\ Download(f) \in Task
    BY <1>0, EntryTypes DEF FeedTypeOK
  <2>2. Put(f, [clones[f] EXCEPT !.local_path = TRUE]) /\ UNCHANGED driveVars
    BY <1>6 DEF EnqueueMirrorDownload
  <2>3. /\ row' \in [File -> Row] /\ missed' \in SUBSET File
        /\ \A g \in File : Fresh(g) \/ g \in missed => Fresh(g)' \/ g \in missed'
    BY <1>0, <2>1, <2>2, PutAccounts
  <2>4. FeedTypeOK' /\ start' <= head
    BY <1>0, <1>6, <2>1, <2>3 DEF EnqueueMirrorDownload, FeedTypeOK
  <2> QED
    BY <1>6, <2>3, <2>4, RowsStep DEF EnqueueMirrorDownload
<1>7. CASE LoginFails
  <2>1. FeedTypeOK' /\ start' <= head
    BY <1>0, <1>7, FeedAssumption DEF LoginFails, FeedTypeOK
  <2> QED
    BY <1>7, <2>1, QuietStep DEF LoginFails
<1> QED
  BY <1>1, <1>2, <1>3, <1>4, <1>5, <1>6, <1>7 DEF InitialSync

\* The engine in incremental_sync.
LEMMA PollInv == FeedInv /\ (PollBegin \/ Poll \/ PollFails) => FeedInv'
<1> SUFFICES ASSUME FeedInv, PollBegin \/ Poll \/ PollFails PROVE FeedInv'
  OBVIOUS
<1>0. FeedTypeOK
  BY DEF FeedInv
<1> USE DEF driveVars, dbVars, pollVars, loginVars
<1>1. CASE PollBegin
  <2>1. FeedTypeOK'
    BY <1>0, <1>1 DEF PollBegin, FeedTypeOK, NoToken
  <2>2. \A g \in File : (Fresh(g)' <=> Fresh(g)) /\ EntryOf(g)' = EntryOf(g)
    BY <1>1 DEF PollBegin, Fresh, FreshRow, Exists, EntryOf
  <2>3. Positions' /\ Cascade' /\ PageInHand'
    BY <1>1 DEF PollBegin, FeedInv, Positions, Cascade, PageInHand
  <2>4. PageIsTrue' /\ NoChangeLost'
    BY <1>1, <2>2, <2>3 DEF PollBegin, FeedInv, PageInHand, PageIsTrue, NoChangeLost
  <2>5. PollCovers'
    <3> SUFFICES ASSUME NEW g \in File, changedAt[g] <= token
                 PROVE  Fresh(g) \/ g \in missed
      BY <1>1, <2>2 DEF PollBegin, PollCovers
    <3>1. changedAt[g] \in Int /\ token \in Int
      BY <1>0, FeedAssumption DEF FeedTypeOK
    <3> QED
      BY <3>1 DEF FeedInv, NoChangeLost
  <2> QED
    BY <2>1, <2>3, <2>4, <2>5 DEF FeedInv
<1>2. ASSUME NEW n \in seen..head, ListChanges(n) PROVE FeedInv'
  <2>1. seen \in 0..MaxChanges /\ head \in 0..MaxChanges /\ n \in 0..MaxChanges
        /\ \A g \in File : changedAt[g] \in 0..MaxChanges
    BY <1>0, FeedAssumption DEF FeedTypeOK
  <2>2. \A g \in ChangesUpTo(n) : g \in File /\ EntryOf(g) \in Entry
    BY <1>0, <2>1, EntryTypes DEF ChangesUpTo, FeedInv, Positions
  <2>3. page' = {EntryOf(g) : g \in ChangesUpTo(n)} /\ page' \in SUBSET Entry
    BY <1>2, <2>2 DEF ListChanges
  <2>4. FeedTypeOK'
    BY <1>0, <1>2, <2>1, <2>3 DEF ListChanges, FeedTypeOK
  <2>5. \A g \in File : (Fresh(g)' <=> Fresh(g)) /\ EntryOf(g)' = EntryOf(g)
    BY <1>2 DEF ListChanges, Fresh, FreshRow, Exists, EntryOf
  <2>6. Positions' /\ Cascade' /\ PageInHand'
    BY <1>2, <2>1 DEF ListChanges, FeedInv, Positions, Cascade, PageInHand
  <2>7. NoChangeLost'
    BY <1>2, <2>5 DEF ListChanges, FeedInv, NoChangeLost
  <2>8. PageIsTrue'
    <3> SUFFICES ASSUME NEW e \in page' 
                 PROVE  e.version <= changedAt[e.file] /\ e = EntryOf(e.file)' 
      BY <1>2 DEF ListChanges, PageIsTrue
    <3>1. PICK g \in ChangesUpTo(n) : e = EntryOf(g)
      BY <2>3
    <3>2. e.file = g /\ e.version = changedAt[g] /\ g \in File
      BY <2>2, <3>1 DEF EntryOf
    <3> QED
      BY <2>1, <2>5, <3>1, <3>2
  <2>9. PollCovers'
    <3> SUFFICES ASSUME NEW g \in File, changedAt[g] <= n
                 PROVE  Fresh(g) \/ g \in missed \/ EntryOf(g) \in page'
      BY <1>2, <2>5 DEF ListChanges, PollCovers
    <3>1. CASE changedAt[g] <= seen
      BY <1>2, <3>1 DEF ListChanges, FeedInv, PollCovers, PageInHand
    <3>2. CASE ~(changedAt[g] <= seen)
      <4>1. g \in ChangesUpTo(n)
        BY <2>1, <3>2 DEF ChangesUpTo
      <4> QED
        BY <2>3, <4>1
    <3> QED
      BY <3>1, <3>2
  <2> QED
    BY <2>4, <2>6, <2>7, <2>8, <2>9 DEF FeedInv
<1>3. ASSUME NEW e \in page, ApplyChange(e) PROVE FeedInv'
  <2> DEFINE f == e.file
  <2>1. f \in File /\ e \in Entry /\ row[f] \in Row
    BY <1>0, EntryTypes DEF FeedTypeOK
  <2>2. /\ page' = page \ {e} /\ UNCHANGED driveVars
        /\ UNCHANGED <<account, token, copies, loginVars, seen, more, work, logins, faults>>
        /\ pollAt = "apply" /\ pollAt' = IF page' # {} THEN "apply" ELSE IF more THEN "list" ELSE "save"
    BY <1>3 DEF ApplyChange, NextEntry
  <2>3. /\ row' \in [File -> Row] /\ missed' \in SUBSET File /\ queue' \in SUBSET Task
        /\ \A g \in File : Fresh(g) \/ g \in missed => Fresh(g)' \/ g \in missed'
        /\ ~account => row' = row
        /\ e = EntryOf(f) => Fresh(f)' \/ f \in missed'
    <3>0. ASSUME Keep
          PROVE  /\ row' \in [File -> Row] /\ missed' \in SUBSET File
                 /\ \A g \in File : Fresh(g)' <=> Fresh(g)
                 /\ missed' = missed /\ row' = row
      BY <1>0, <2>2, <3>0 DEF Keep, FeedTypeOK, Fresh, FreshRow, Exists
    <3>1. CASE ProcessRemoval(e)
      <4>1. queue' \in SUBSET Task
        BY <1>0, <2>1, <3>1, EntryTypes DEF ProcessRemoval, FeedTypeOK
      <4>2. CASE row[f].known
        <5> DEFINE r == [row[f] EXCEPT !.is_trashed = TRUE]
        <5>1. r \in Row /\ Put(f, r) /\ r.is_trashed /\ account
          <6>1. r \in Row /\ r.is_trashed
            BY <2>1, EntryTypes DEF Row
          <6>2. Put(f, r)
            BY <3>1, <4>2 DEF ProcessRemoval
          <6>3. account
            <7>1. ~NoRow.known
              BY DEF NoRow
            <7> QED
              BY <2>1, <4>2, <7>1 DEF FeedInv, Cascade
          <6> QED
            BY <6>1, <6>2, <6>3
        <5>2. e = EntryOf(f) => FreshRow(f, r)
          BY <3>1, <5>1 DEF ProcessRemoval, EntryOf, FreshRow, Exists
        <5> HIDE DEF r
        <5> QED
          BY <1>0, <2>1, <2>2, <4>1, <5>1, <5>2, PutAccounts
      <4>3. CASE ~row[f].known
        <5>1. Keep
          BY <3>1, <4>3 DEF ProcessRemoval
        <5>2. e = EntryOf(f) => Fresh(f)
          BY <3>1, <4>3 DEF ProcessRemoval, EntryOf, Fresh, FreshRow, Exists
        <5> QED
          BY <2>1, <3>0, <4>1, <5>1, <5>2
      <4> QED
        BY <4>2, <4>3
    <3>2. CASE ProcessUpdate(e)
      <4>1. queue' \in SUBSET Task
        BY <1>0, <2>1, <3>2, EntryTypes DEF ProcessUpdate, FeedTypeOK
      <4>2. CASE account
        <5> DEFINE r == MapApiFileToDb(e)
        <5>1. r \in Row /\ Put(f, r)
          BY <2>1, <3>2, <4>2, EntryTypes DEF ProcessUpdate
        <5>2. e = EntryOf(f) => FreshRow(f, r)
          <6> SUFFICES ASSUME e = EntryOf(f) PROVE FreshRow(f, r)
            OBVIOUS
          <6>1. e.version = changedAt[f] /\ e.life = life[f] /\ e.life \in {"live", "trashed"}
            <7>1. e.life \in {"live", "trashed", "gone"} /\ e.life # "gone"
              BY <2>1, <3>2 DEF ProcessUpdate, Entry
            <7>2. EntryOf(f).version = changedAt[f] /\ EntryOf(f).life = life[f]
              BY DEF EntryOf
            <7> QED
              BY <7>1, <7>2
          <6>2. r.known /\ r.version = e.version /\ r.is_trashed = (e.life = "trashed")
            BY DEF MapApiFileToDb
          <6> QED
            BY <6>1, <6>2 DEF FreshRow, Exists
        <5> HIDE DEF r
        <5> QED
          BY <1>0, <2>1, <2>2, <4>1, <4>2, <5>1, <5>2, PutAccounts
      <4>3. CASE ~account
        <5>1. Keep
          BY <3>2, <4>3 DEF ProcessUpdate
        <5>2. Fresh(f) \/ f \in missed
          BY <2>1, <4>3 DEF FeedInv, NoChangeLost, Cascade
        <5> QED
          BY <2>1, <3>0, <4>1, <5>1, <5>2
      <4> QED
        BY <4>2, <4>3
    <3> QED
      BY <1>3, <3>1, <3>2 DEF ApplyChange
  <2>4. FeedTypeOK'
    BY <1>0, <2>2, <2>3 DEF FeedTypeOK
  <2>5. \A g \in File : EntryOf(g)' = EntryOf(g)
    BY <2>2 DEF EntryOf
  <2>6. Positions' /\ Cascade' /\ PageInHand'
    BY <2>2, <2>3 DEF FeedInv, Positions, Cascade, PageInHand
  <2>7. PageIsTrue'
    <3>1. \A x \in page : x.file \in File
      BY <1>0 DEF FeedTypeOK, Entry
    <3> QED
      BY <2>2, <2>5, <3>1 DEF FeedInv, PageIsTrue
  <2>8. NoChangeLost'
    BY <2>2, <2>3 DEF FeedInv, NoChangeLost
  <2>9. PollCovers'
    <3> SUFFICES ASSUME NEW g \in File, changedAt[g] <= seen
                 PROVE  Fresh(g)' \/ g \in missed' \/ EntryOf(g) \in page'
      BY <2>2, <2>5 DEF PollCovers
    <3>1. Fresh(g) \/ g \in missed \/ EntryOf(g) \in page
      BY <2>2 DEF FeedInv, PollCovers
    <3>2. EntryOf(g) = e => g = f
      BY DEF EntryOf
    <3> QED
      BY <2>2, <2>3, <3>1, <3>2
  <2> QED
    BY <2>4, <2>6, <2>7, <2>8, <2>9 DEF FeedInv
<1>4. CASE SaveToken
  <2>1. FeedTypeOK'
    BY <1>0, <1>4, FeedAssumption DEF SaveToken, FeedTypeOK
  <2>2. \A g \in File : (Fresh(g)' <=> Fresh(g)) /\ EntryOf(g)' = EntryOf(g)
    BY <1>4 DEF SaveToken, Fresh, FreshRow, Exists, EntryOf
  <2>3. Positions' /\ Cascade' /\ PageInHand' /\ PollCovers'
    BY <1>4 DEF SaveToken, FeedInv, Positions, Cascade, PageInHand, PollCovers
  <2>4. PageIsTrue'
    BY <1>4, <2>3 DEF SaveToken, FeedInv, PageInHand, PageIsTrue
  <2>5. NoChangeLost'
    <3>1. CASE account
      <4> SUFFICES ASSUME NEW g \in File
                   PROVE  Fresh(g) \/ g \in missed \/ (seen # NoToken /\ seen < changedAt[g])
        BY <1>4, <2>2, <3>1 DEF SaveToken, NoChangeLost
      <4>1. changedAt[g] \in Int /\ seen \in 0..MaxChanges
        BY <1>0, FeedAssumption DEF FeedTypeOK
      <4>2. changedAt[g] <= seen => Fresh(g) \/ g \in missed
        BY <1>4 DEF SaveToken, FeedInv, PollCovers, PageInHand
      <4> QED
        BY <4>1, <4>2 DEF NoToken
    <3>2. CASE ~account
      BY <1>4, <2>2, <3>2 DEF SaveToken, FeedInv, NoChangeLost
    <3> QED
      BY <3>1, <3>2
  <2> QED
    BY <2>1, <2>3, <2>4, <2>5 DEF FeedInv
<1>5. CASE PollFails
  <2>1. FeedTypeOK'
    BY <1>0, <1>5, FeedAssumption DEF PollFails, FeedTypeOK
  <2>2. \A g \in File : Fresh(g)' <=> Fresh(g)
    BY <1>5 DEF PollFails, Fresh, FreshRow, Exists
  <2>3. Positions' /\ Cascade' /\ PageInHand' /\ PollCovers' /\ PageIsTrue' /\ NoChangeLost'
    BY <1>5, <2>2 DEF PollFails, FeedInv, Positions, Cascade, PageInHand, PollCovers,
                      PageIsTrue, NoChangeLost
  <2> QED
    BY <2>1, <2>3 DEF FeedInv
<1> QED
  BY <1>1, <1>2, <1>3, <1>4, <1>5 DEF Poll

\* Drive, the accounts, the tasks and the faults.
LEMMA WorldInv ==
    ASSUME FeedInv,
           \/ Drive \/ LoginBegin \/ DisconnectAccount \/ Tasks \/ Crash
           \/ (\E e \in page : ApplyFails(e)) \/ (\E f \in File : RequestDownload(f))
    PROVE  FeedInv'
<1>0. FeedTypeOK /\ start <= head
  BY DEF FeedInv, Positions
<1> USE DEF driveVars, dbVars, pollVars, loginVars
<1>1. ASSUME NEW f \in File, NEW to \in {"live", "trashed", "gone"}, DriveChange(f, to)
      PROVE  FeedInv'
  <2>1. head \in Int /\ token \in Int /\ start \in Int /\ seen \in Int /\ MaxChanges \in Int
        /\ \A g \in File : changedAt[g] \in Int /\ changedAt[g] <= head
        /\ token <= head /\ start <= head /\ seen <= head
    BY <1>0, FeedAssumption DEF FeedTypeOK, FeedInv, Positions
  <2>2. /\ head' = head + 1 /\ changedAt'[f] = head + 1 /\ life'[f] = to
        /\ \A g \in File \ {f} : changedAt'[g] = changedAt[g] /\ life'[g] = life[g]
        /\ UNCHANGED <<dbVars, loginVars, pollVars, work, logins, faults>>
    BY <1>0, <1>1 DEF DriveChange, FeedTypeOK
  <2>3. FeedTypeOK'
    <3>1. head' \in 0..MaxChanges
      BY <1>0, <1>1, <2>1 DEF DriveChange, FeedTypeOK
    <3>2. changedAt' \in [File -> 0..MaxChanges]
          /\ life' \in [File -> {"absent", "live", "trashed", "gone"}]
      BY <1>0, <1>1, <3>1 DEF DriveChange, FeedTypeOK
    <3>3. missed' \in SUBSET File
      BY <1>0, <1>1 DEF DriveChange, FeedTypeOK
    <3> QED
      BY <1>0, <2>2, <3>1, <3>2, <3>3 DEF FeedTypeOK
  <2>4. \A g \in File \ {f} : (Fresh(g)' <=> Fresh(g)) /\ EntryOf(g)' = EntryOf(g)
    BY <2>2 DEF Fresh, FreshRow, Exists, EntryOf
  <2>5. Positions'
    BY <2>1, <2>2 DEF FeedInv, Positions
  <2>6. Cascade' /\ PageInHand'
    BY <2>2 DEF FeedInv, Cascade, PageInHand
  <2>7. PageIsTrue'
    <3> SUFFICES ASSUME NEW e \in page
                 PROVE  /\ e.version <= changedAt'[e.file]
                        /\ e.version = changedAt'[e.file] => e = EntryOf(e.file)'
      BY <2>2 DEF PageIsTrue
    <3>1. e.file \in File /\ e.version \in Int /\ e.version <= changedAt[e.file]
      BY <1>0 DEF FeedTypeOK, Entry, FeedInv, PageIsTrue
    <3>2. CASE e.file = f
      BY <2>1, <2>2, <3>1, <3>2
    <3>3. CASE e.file # f
      BY <2>2, <2>4, <3>1, <3>3 DEF FeedInv, PageIsTrue
    <3> QED
      BY <3>2, <3>3
  <2>8. \A g \in File \ {f} : g \in missed' <=> g \in missed
    BY <1>1 DEF DriveChange
  <2>9. PollCovers'
    <3> SUFFICES ASSUME pollAt # "none", NEW g \in File, changedAt'[g] <= seen
                 PROVE  Fresh(g)' \/ g \in missed' \/ EntryOf(g)' \in page
      BY <2>2 DEF PollCovers
    <3>1. g # f
      BY <2>1, <2>2
    <3> QED
      BY <2>2, <2>4, <2>8, <3>1 DEF FeedInv, PollCovers
  <2>10. NoChangeLost'
    <3> SUFFICES ASSUME NEW g \in File
                 PROVE  Fresh(g)' \/ g \in missed' \/ (token # NoToken /\ token < changedAt'[g])
      BY <2>2 DEF NoChangeLost
    <3>1. CASE g = f
      BY <1>1, <2>1, <2>2, <3>1 DEF DriveChange
    <3>2. CASE g # f
      BY <2>2, <2>4, <2>8, <3>2 DEF FeedInv, NoChangeLost
    <3> QED
      BY <3>1, <3>2
  <2> QED
    BY <2>3, <2>5, <2>6, <2>7, <2>9, <2>10 DEF FeedInv
<1>2. CASE LoginBegin
  <2>1. FeedTypeOK'
    BY <1>0, <1>2, FeedAssumption DEF LoginBegin, FeedTypeOK
  <2>2. \A g \in File : (Fresh(g)' <=> Fresh(g)) /\ EntryOf(g)' = EntryOf(g)
    BY <1>2 DEF LoginBegin, Fresh, FreshRow, Exists, EntryOf
  <2>3. Positions' /\ Cascade' /\ PageInHand' /\ NoChangeLost'
    BY <1>2, <2>2 DEF LoginBegin, FeedInv, Positions, Cascade, PageInHand, NoChangeLost
  <2>4. PollCovers'
    BY <1>2, <2>2 DEF LoginBegin, FeedInv, PollCovers
  <2>5. PageIsTrue'
    <3>1. \A e \in page : e.file \in File
      BY <1>0 DEF FeedTypeOK, Entry
    <3> QED
      BY <1>2, <2>2, <3>1 DEF LoginBegin, FeedInv, PageIsTrue
  <2> QED
    BY <2>1, <2>3, <2>4, <2>5 DEF FeedInv
<1>3. CASE DisconnectAccount
  <2>1. FeedTypeOK'
    <3>1. row' \in [File -> Row] /\ missed' \in SUBSET File
      BY <1>3, EntryTypes DEF DisconnectAccount
    <3>2. token' \in -1..MaxChanges
      BY <1>3, FeedAssumption DEF DisconnectAccount, NoToken
    <3> QED
      BY <1>0, <1>3, <3>1, <3>2 DEF DisconnectAccount, FeedTypeOK
  <2>2. \A g \in File : Fresh(g)' \/ g \in missed'
    <3>1. ~NoRow.known
      BY DEF NoRow
    <3>2. \A g \in File : ~Exists(g) => Fresh(g)'
      BY <1>3, <3>1 DEF DisconnectAccount, Fresh, FreshRow, Exists
    <3> QED
      BY <1>3, <3>2 DEF DisconnectAccount
  <2>3. \A g \in File : EntryOf(g)' = EntryOf(g)
    BY <1>3 DEF DisconnectAccount, EntryOf
  <2>4. Positions'
    BY <1>0, <1>3, FeedAssumption DEF DisconnectAccount, FeedInv, Positions, NoToken, FeedTypeOK
  <2>5. Cascade' /\ PageInHand'
    BY <1>3 DEF DisconnectAccount, FeedInv, Cascade, PageInHand
  <2>6. NoChangeLost' /\ PollCovers'
    BY <2>2 DEF NoChangeLost, PollCovers
  <2>7. PageIsTrue'
    <3>1. \A e \in page : e.file \in File
      BY <1>0 DEF FeedTypeOK, Entry
    <3> QED
      BY <1>3, <2>3, <3>1 DEF DisconnectAccount, FeedInv, PageIsTrue
  <2> QED
    BY <2>1, <2>4, <2>5, <2>6, <2>7 DEF FeedInv
<1>4. ASSUME NEW e \in page, ApplyFails(e) PROVE FeedInv'
  <2> DEFINE f == e.file
  <2>1. f \in File /\ e \in Entry
    BY <1>0, EntryTypes DEF FeedTypeOK
  <2>2. /\ page' = page \ {e} /\ UNCHANGED <<driveVars, row>>
        /\ UNCHANGED <<account, token, queue, copies, loginVars, seen, more, work, logins>>
        /\ pollAt = "apply" /\ pollAt' = IF page' # {} THEN "apply" ELSE IF more THEN "list" ELSE "save"
    BY <1>4 DEF ApplyFails, NextEntry
  <2>3. missed' \in SUBSET File /\ missed \subseteq missed'
    BY <1>0, <1>4, <2>1 DEF ApplyFails, FeedTypeOK
  <2>4. FeedTypeOK'
    <3>1. faults' \in 0..MaxFaults
      BY <1>0, <1>4, FeedAssumption DEF ApplyFails, FeedTypeOK
    <3> QED
      BY <1>0, <2>2, <2>3, <3>1 DEF FeedTypeOK
  <2>5. \A g \in File : (Fresh(g)' <=> Fresh(g)) /\ EntryOf(g)' = EntryOf(g)
    BY <2>2 DEF Fresh, FreshRow, Exists, EntryOf
  <2>6. Positions' /\ Cascade' /\ PageInHand'
    BY <2>2 DEF FeedInv, Positions, Cascade, PageInHand
  <2>7. PageIsTrue'
    <3>1. \A x \in page : x.file \in File
      BY <1>0 DEF FeedTypeOK, Entry
    <3> QED
      BY <2>2, <2>5, <3>1 DEF FeedInv, PageIsTrue
  <2>8. NoChangeLost'
    BY <2>2, <2>3, <2>5 DEF FeedInv, NoChangeLost
  <2>9. PollCovers'
    <3> SUFFICES ASSUME NEW g \in File, changedAt[g] <= seen
                 PROVE  Fresh(g) \/ g \in missed' \/ EntryOf(g) \in page'
      BY <2>2, <2>5 DEF PollCovers
    <3>1. Fresh(g) \/ g \in missed \/ EntryOf(g) \in page
      BY <2>2 DEF FeedInv, PollCovers
    <3>2. EntryOf(g) = e => g = f /\ e.version = changedAt[f]
      BY DEF EntryOf
    <3>3. e.version = changedAt[f] /\ ~Fresh(f) => f \in missed'
      BY <1>4 DEF ApplyFails
    <3> QED
      BY <2>2, <2>3, <3>1, <3>2, <3>3
  <2> QED
    BY <2>4, <2>6, <2>7, <2>8, <2>9 DEF FeedInv
<1>5. ASSUME NEW f \in File, RequestDownload(f) PROVE FeedInv'
  <2>1. FeedTypeOK' /\ start' <= head
    BY <1>0, <1>5, EntryTypes DEF RequestDownload, FeedTypeOK
  <2> QED
    BY <1>5, <2>1, QuietStep DEF RequestDownload
<1>6. ASSUME NEW t \in queue, BeginWork(t) PROVE FeedInv'
  <2>1. t \in Task /\ t.file \in File /\ row[t.file] \in Row
    BY <1>0 DEF FeedTypeOK, Task
  <2>2. work' \in SUBSET Work
    BY <1>6, <2>1 DEF BeginWork, Work, Task
  <2>3. FeedTypeOK' /\ start' <= head
    BY <1>0, <1>6, <2>2 DEF BeginWork, FeedTypeOK
  <2> QED
    BY <1>6, <2>3, QuietStep DEF BeginWork
<1>7. ASSUME NEW w \in work, FinishWork(w) PROVE FeedInv'
  <2>1. w.file \in File /\ w.clone \in Row
    BY <1>0 DEF FeedTypeOK, Work
  <2> DEFINE r == [w.clone EXCEPT !.local_path = (w.operation = "download")]
  <2>2. r \in Row
    BY <2>1, EntryTypes
  <2>3. /\ row' \in [File -> Row] /\ missed' \in SUBSET File
        /\ \A g \in File : Fresh(g) \/ g \in missed => Fresh(g)' \/ g \in missed'
        /\ ~account => UNCHANGED row
    <3>1. CASE account /\ w.clone.known
      <4>1. Put(w.file, r) /\ UNCHANGED driveVars
        BY <1>7, <3>1 DEF FinishWork
      <4> HIDE DEF r
      <4> QED
        BY <1>0, <2>1, <2>2, <3>1, <4>1, PutAccounts
    <3>2. CASE ~(account /\ w.clone.known)
      BY <1>0, <1>7, <3>2 DEF FinishWork, Keep, FeedTypeOK, Fresh, FreshRow, Exists
    <3> QED
      BY <3>1, <3>2
  <2>4. FeedTypeOK' /\ start' <= head
    BY <1>0, <1>7, <2>1, <2>3 DEF FinishWork, FeedTypeOK
  <2> QED
    BY <1>7, <2>3, <2>4, RowsStep DEF FinishWork
<1>8. ASSUME NEW w \in work, WorkFails(w) PROVE FeedInv'
  <2>1. Download(w.file) \in Task
    BY <1>0, EntryTypes DEF FeedTypeOK, Work
  <2>2. FeedTypeOK' /\ start' <= head
    BY <1>0, <1>8, <2>1 DEF WorkFails, FeedTypeOK
  <2> QED
    BY <1>8, <2>2, QuietStep DEF WorkFails
<1>9. CASE Crash
  <2>1. FeedTypeOK'
    BY <1>0, <1>9, FeedAssumption DEF Crash, FeedTypeOK
  <2>2. \A g \in File : Fresh(g)' <=> Fresh(g)
    BY <1>9 DEF Crash, Fresh, FreshRow, Exists
  <2>3. Positions' /\ Cascade' /\ PageInHand' /\ PollCovers' /\ PageIsTrue' /\ NoChangeLost'
    BY <1>9, <2>2 DEF Crash, FeedInv, Positions, Cascade, PageInHand, PollCovers,
                      PageIsTrue, NoChangeLost
  <2> QED
    BY <2>1, <2>3 DEF FeedInv
<1> QED
  BY <1>1, <1>2, <1>3, <1>4, <1>5, <1>6, <1>7, <1>8, <1>9 DEF Drive, Tasks

-----------------------------------------------------------------------------
\* The inductive invariant of the feed: what the login task and the engine do to
\* the shared tables, in any interleaving, keeps FeedInv.
THEOREM FeedInvariance == FeedSpec => []FeedInv
<1>1. FeedInit => FeedInv
  BY FeedInitInv
<1>2. FeedInv /\ [FeedNext]_feedVars => FeedInv'
  <2> SUFFICES ASSUME FeedInv, [FeedNext]_feedVars PROVE FeedInv'
    OBVIOUS
  <2>1. CASE FeedNext
    BY <2>1, InitialSyncInv, PollInv, WorldInv DEF FeedNext
  <2>2. CASE UNCHANGED feedVars
    <3>1. FeedTypeOK' /\ start' <= head
      BY <2>2 DEF FeedInv, FeedTypeOK, Positions, feedVars, driveVars, dbVars, loginVars, pollVars
    <3> QED
      BY <2>2, <3>1, QuietStep DEF feedVars, dbVars
  <2> QED
    BY <2>1, <2>2
<1> QED
  BY <1>1, <1>2, PTL DEF FeedSpec

\* The tables and both tasks keep their types.
THEOREM FeedTypeCorrect == FeedSpec => []FeedTypeOK
BY FeedInvariance, PTL DEF FeedInv

\* initial_sync and incremental_sync lose no change on Drive but the ones the
\* history accounts for, with any page size, however polls fail, overlap with
\* logins and are cut off.
THEOREM FeedComplete == FeedSpec => []NoChangeLost
BY FeedInvariance, PTL DEF FeedInv
=============================================================================
