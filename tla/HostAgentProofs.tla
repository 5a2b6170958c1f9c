---------------------------- MODULE HostAgentProofs ----------------------------
(***************************************************************************)
(* What a host agent and its callers guarantee for any number of processes,*)
(* requests, connections and kills, any phases and any size of the nonce   *)
(* cache: answers are not mixed up, the record of what was admitted is not *)
(* behind, and a request runs once in a life of the service.               *)
(***************************************************************************)
EXTENDS HostAgent, SequenceTheorems, TLAPS

Pcs == {"read", "admitted", "checked", "truncated", "queued", "ran", "closed"}
Recs == [Phases -> {0} \cup Seqs]
RequestSet == [phase : Phases \cup {Unordered}, seq : Seqs]
ConnSet(n) ==
  [server : BOOLEAN, held : BOOLEAN, inbox : 0 .. n, outbox : 0 .. n, pc : Pcs, call : 0 .. n, st : Recs]
ClientSet(n, m) == [call : 0 .. n, conn : 0 .. m, reused : BOOLEAN]

\* Types.
ConnsTyped == conns \in Seq(ConnSet(Len(calls)))
Typed ==
  /\ calls \in Seq(RequestSet) /\ ConnsTyped
  /\ client \in [Procs -> ClientSet(Len(calls), Len(conns))]
  /\ recorded \in Recs /\ floor \in Recs /\ signed \in Recs
  /\ flock \in 0 .. Len(conns) /\ seen \in Seq(Nat) /\ Len(seen) <= NonceCap
  /\ life \in 1 .. MaxKills + 1
  /\ runs \in Seq(Seq(1 .. life)) /\ Len(runs) = Len(calls)

\* A handler is at work on a request exactly while it is not reading, and no other
\* request waits behind it.
AtWork ==
  \A k \in Conns : /\ conns[k].call # 0 <=> conns[k].pc \notin {"read", "closed"}
                   /\ conns[k].server <=> conns[k].pc # "closed"
                   /\ conns[k].inbox # 0 => conns[k].call = 0

\* A process waits on a connection that it holds, alone.
Held ==
  /\ \A p \in Procs : client[p].call # 0 => client[p].conn # 0
  /\ \A p \in Procs : client[p].conn # 0 => conns[client[p].conn].held
  /\ \A p, q \in Procs : p # q /\ client[p].conn # 0 => client[p].conn # client[q].conn

\* On the connection of a process there is nothing but its own request, in one place.
Own(c, r) ==
  /\ r.inbox \in {0, c} /\ r.call \in {0, c} /\ r.outbox \in {0, c}
  /\ r.inbox # 0 => r.call = 0 /\ r.outbox = 0
  /\ r.call # 0 => r.outbox = 0
OwnTraffic == \A p \in Procs : client[p].conn # 0 => Own(client[p].call, conns[client[p].conn])

\* The handler that holds the lock knows what state.json must say.
Ordered(k) ==
  LET r == Request(k) IN
  /\ conns[k].pc \in {"admitted", "checked", "truncated"} => r.phase \in Phases
  /\ conns[k].pc \in {"checked", "truncated"} =>
       /\ flock = k /\ r.seq >= floor[r.phase]
       /\ conns[k].st = [floor EXCEPT ![r.phase] = r.seq]
  /\ conns[k].pc = "checked" => recorded = floor
  /\ conns[k].pc = "truncated" => recorded = Blank
Recorded ==
  /\ flock = 0 => recorded = floor
  /\ flock # 0 => conns[flock].pc \in {"checked", "truncated"}
  /\ \A k \in Conns : Ordered(k)

\* A sending of a request whose script has not run.
Carries(k, c) == conns[k].server /\ (conns[k].inbox = c \/ (conns[k].call = c /\ conns[k].pc # "ran"))
RanNow(c) == \E i \in DOMAIN runs[c] : runs[c][i] = life
\* Of every request there is one such sending at most, and none when it has run in
\* this life; and whoever may send it again has seen it run once at most, and not
\* in this life unless the answer is there or to come.
SentOnce(c) ==
  /\ \A k, l \in Conns : Carries(k, c) /\ Carries(l, c) => k = l
  /\ \A k \in Conns : Carries(k, c) => ~RanNow(c) /\ Len(runs[c]) <= 1
RunOnce(c) == Len(runs[c]) <= 2 /\ \A i, j \in DOMAIN runs[c] : runs[c][i] = runs[c][j] => i = j
MaySendAgain(p, c) ==
  LET m == client[p].conn IN
  /\ Len(runs[c]) <= 1
  /\ \A k \in Conns : Carries(k, c) => k = m /\ runs[c] = <<>>
  /\ RanNow(c) => conns[m].outbox = c \/ (conns[m].server /\ conns[m].call = c)
Sendings ==
  /\ \A p, q \in Procs : client[p].call # 0 /\ client[p].call = client[q].call => p = q
  /\ \A c \in Calls : SentOnce(c) /\ RunOnce(c)
  /\ \A p \in Procs : client[p].call # 0 /\ client[p].reused => MaySendAgain(p, client[p].call)

\* The inductive invariant.
AgentInv == Typed /\ AtWork /\ Held /\ OwnTraffic /\ Recorded /\ Sendings

-----------------------------------------------------------------------------
(* Sequences. *)

\* The places of a sequence.
LEMMA Places == ASSUME NEW S, NEW s \in Seq(S)
                PROVE  /\ Len(s) \in Nat /\ DOMAIN s = 1 .. Len(s)
                       /\ s \in [1 .. Len(s) -> S]
                       /\ \A i \in 1 .. Len(s) : s[i] \in S
BY LenProperties, ElementOfSeq

\* One place of a sequence is replaced.
LEMMA Replaced ==
  ASSUME NEW S, NEW s \in Seq(S), NEW k \in 1 .. Len(s), NEW r \in S, NEW t, t = [s EXCEPT ![k] = r]
  PROVE  t \in Seq(S) /\ Len(t) = Len(s) /\ \A j \in 1 .. Len(s) : t[j] = IF j = k THEN r ELSE s[j]
BY ExceptSeq, LenProperties

\* One element more.
LEMMA Longer ==
  ASSUME NEW S, NEW s \in Seq(S), NEW r \in S, NEW t, t = Append(s, r)
  PROVE  /\ t \in Seq(S) /\ Len(t) = Len(s) + 1 /\ t[Len(s) + 1] = r
         /\ \A j \in 1 .. Len(s) : t[j] = s[j]
BY AppendProperties

\* A function on the first numbers is a sequence.
LEMMA Tabulated == ASSUME NEW S, NEW n \in Nat, NEW t \in [1 .. n -> S] PROVE t \in Seq(S) /\ Len(t) = n
<1>1. t \in Seq(S)
  BY SeqDef
<1>2. Len(t) \in Nat /\ 1 .. Len(t) = 1 .. n
  BY <1>1, LenProperties
<1> QED
  BY <1>1, <1>2

\* The connections and requests, one by one.
LEMMA Parts ==
  ASSUME Typed
  PROVE  /\ Len(conns) \in Nat /\ Conns = 1 .. Len(conns) /\ \A k \in Conns : conns[k] \in ConnSet(Len(calls))
         /\ Len(calls) \in Nat /\ Calls = 1 .. Len(calls) /\ \A c \in Calls : calls[c] \in RequestSet
         /\ \A c \in Calls : runs[c] \in Seq(1 .. life) /\ DOMAIN runs[c] = 1 .. Len(runs[c]) /\ Len(runs[c]) \in Nat
         /\ life \in Nat
         /\ \A p \in Procs : client[p] \in ClientSet(Len(calls), Len(conns))
<1>1. calls \in Seq(RequestSet) /\ conns \in Seq(ConnSet(Len(calls))) /\ runs \in Seq(Seq(1 .. life)) /\ Len(runs) = Len(calls)
  BY DEF Typed, ConnsTyped
<1>2. Len(conns) \in Nat /\ \A k \in 1 .. Len(conns) : conns[k] \in ConnSet(Len(calls))
  BY <1>1, Places
<1>3. Len(calls) \in Nat /\ \A c \in 1 .. Len(calls) : calls[c] \in RequestSet
  BY <1>1, Places
<1>4. \A c \in 1 .. Len(calls) : runs[c] \in Seq(1 .. life)
  BY <1>1, Places
<1>5. \A c \in 1 .. Len(calls) : DOMAIN runs[c] = 1 .. Len(runs[c]) /\ Len(runs[c]) \in Nat
  BY <1>4, Places
<1> QED
  BY <1>2, <1>3, <1>4, <1>5, AgentAssumption DEF Typed, Conns, Calls

\* A step that replaces one connection, and what it shares with all of them.
Becomes(k, r) ==
  /\ conns' \in Seq(ConnSet(Len(calls))) /\ Len(conns') = Len(conns)
  /\ \A j \in Conns : conns'[j] = IF j = k THEN r ELSE conns[j]
LEMMA ConnBecomes ==
  ASSUME Typed, NEW k \in Conns, NEW r \in ConnSet(Len(calls)), conns' = [conns EXCEPT ![k] = r]
  PROVE  Becomes(k, r)
BY Replaced DEF Typed, ConnsTyped, Becomes, Conns

-----------------------------------------------------------------------------
(* A turn of a handler. *)

\* The four things it can do with its connection.
Closes(o, r) ==
  /\ o.pc = "read" \/ ~o.held
  /\ ~r.server /\ r.inbox = 0 /\ r.call = 0 /\ r.pc = "closed" /\ r.outbox = o.outbox
Replies(o, r) ==
  /\ o.held /\ o.server /\ r.server /\ r.inbox = 0 /\ r.call = 0 /\ r.pc = "read" /\ r.outbox # 0
  /\ r.outbox = IF o.pc = "read" THEN o.inbox ELSE o.call
Takes(o, r) ==
  /\ o.pc = "read" /\ o.server /\ r.server /\ o.inbox # 0
  /\ r.inbox = 0 /\ r.call = o.inbox /\ r.outbox = o.outbox /\ r.pc \in {"queued", "admitted"}
Works(o, r) ==
  /\ o.pc \notin {"read", "closed", "ran"} /\ r.pc \notin {"read", "closed"}
  /\ r.server = o.server /\ r.inbox = o.inbox /\ r.call = o.call /\ r.outbox = o.outbox
Turn(k, r) ==
  /\ Becomes(k, r) /\ UNCHANGED <<calls, client>> /\ r.held = conns[k].held
  /\ Closes(conns[k], r) \/ Replies(conns[k], r) \/ Takes(conns[k], r) \/ Works(conns[k], r)

\* None of them mixes up requests, or connections.
LEMMA TurnKeepsTraffic ==
  ASSUME AgentInv, NEW k \in Conns, NEW r, Turn(k, r)
  PROVE  AtWork' /\ Held' /\ OwnTraffic' /\ ConnsTyped' /\ Conns' = Conns /\ Len(conns') = Len(conns)
<1>0. /\ Conns = 1 .. Len(conns) /\ Conns' = Conns /\ Len(conns') = Len(conns)
      /\ \A j \in Conns : conns'[j] = IF j = k THEN r ELSE conns[j]
      /\ client' = client /\ calls' = calls /\ r.held = conns[k].held
  BY Parts DEF AgentInv, Turn, Becomes, Conns
<1>1. AtWork'
  <2>1. r.call # 0 <=> r.pc \notin {"read", "closed"}
    BY DEF Turn, Closes, Replies, Takes, Works, AgentInv, AtWork
  <2>2. r.server <=> r.pc # "closed"
    BY DEF Turn, Closes, Replies, Takes, Works, AgentInv, AtWork
  <2>3. r.inbox # 0 => r.call = 0
    BY DEF Turn, Closes, Replies, Takes, Works, AgentInv, AtWork
  <2> QED
    BY <1>0, <2>1, <2>2, <2>3 DEF AgentInv, AtWork
<1>2. \A p \in Procs : client[p].conn # 0 => client[p].conn \in Conns
  BY Parts DEF AgentInv, ClientSet
<1>3. Held'
  BY <1>0, <1>2 DEF AgentInv, Held
<1>4. OwnTraffic'
  <2> SUFFICES ASSUME NEW p \in Procs, client[p].conn # 0
               PROVE  Own(client[p].call, conns'[client[p].conn])
    BY <1>0 DEF OwnTraffic
  <2>1. CASE client[p].conn = k
    <3>1. Own(client[p].call, conns[k])
      BY <2>1 DEF AgentInv, OwnTraffic
    <3>2. Own(client[p].call, r)
      <4>1. CASE Closes(conns[k], r)
        BY <3>1, <4>1 DEF Closes, Own
      <4>2. CASE Replies(conns[k], r)
        BY <3>1, <4>2 DEF Replies, Own
      <4>3. CASE Takes(conns[k], r)
        BY <3>1, <4>3 DEF Takes, Own
      <4>4. CASE Works(conns[k], r)
        BY <3>1, <4>4 DEF Works, Own
      <4> QED
        BY <4>1, <4>2, <4>3, <4>4 DEF Turn
    <3> QED
      BY <1>0, <2>1, <3>2
  <2>2. CASE client[p].conn # k
    BY <1>0, <1>2, <2>2 DEF AgentInv, OwnTraffic
  <2> QED
    BY <2>1, <2>2
<1> QED
  BY <1>0, <1>1, <1>3, <1>4 DEF Turn, Becomes, ConnsTyped

\* A turn in which no script runs takes nothing back from who may send again.
LEMMA QuietTurnKeepsSendings ==
  ASSUME AgentInv, NEW k \in Conns, NEW r, Turn(k, r), UNCHANGED <<runs, life>>, r.pc # "ran"
  PROVE  Sendings'
<1>0. /\ Conns' = Conns /\ Calls' = Calls /\ Calls = 1 .. Len(calls)
      /\ \A j \in Conns : conns'[j] = IF j = k THEN r ELSE conns[j]
      /\ client' = client /\ calls' = calls /\ runs' = runs /\ life' = life
  BY TurnKeepsTraffic, Parts DEF AgentInv, Turn, Becomes, Calls
<1>1. \A c \in Calls, j \in Conns : Carries(j, c)' => Carries(j, c)
  <2> SUFFICES ASSUME NEW c \in Calls, Carries(k, c)' PROVE Carries(k, c)
    BY <1>0 DEF Carries
  <2>1. r.server /\ (r.inbox = c \/ r.call = c) /\ c # 0
    BY <1>0, Parts DEF Carries, AgentInv
  <2>2. ~Closes(conns[k], r) /\ ~Replies(conns[k], r)
    BY <2>1 DEF Closes, Replies
  <2>3. CASE Takes(conns[k], r)
    BY <2>1, <2>3 DEF Takes, Carries
  <2>4. CASE Works(conns[k], r)
    BY <2>1, <2>4 DEF Works, Carries, AgentInv, AtWork
  <2> QED
    BY <2>2, <2>3, <2>4 DEF Turn
<1>2. \A c \in Calls : RanNow(c)' <=> RanNow(c)
  BY <1>0 DEF RanNow
<1>3. \A c \in Calls : SentOnce(c)' /\ RunOnce(c)'
  BY <1>0, <1>1, <1>2 DEF AgentInv, Sendings, SentOnce, RunOnce
<1>4. ASSUME NEW p \in Procs, client[p].call # 0, client[p].reused PROVE MaySendAgain(p, client[p].call)'
  <2> DEFINE m == client[p].conn
  <2> DEFINE c == client[p].call
  <2>1. m \in Conns /\ c \in Calls /\ conns[m].held /\ Own(c, conns[m])
    BY <1>4, Parts DEF AgentInv, Held, OwnTraffic, ClientSet
  <2>2. MaySendAgain(p, c)
    BY <1>4 DEF AgentInv, Sendings
  <2>3. \A j \in Conns : Carries(j, c)' => j = m /\ runs[c] = <<>>
    <3>1. \A j \in Conns : Carries(j, c) => j = m /\ runs[c] = <<>>
      BY <2>2 DEF MaySendAgain
    <3>2. client'[p].call = c
      BY <1>0
    <3>3. \A j \in Conns : Carries(j, c)' => Carries(j, c)
      BY <1>1, <2>1, <3>2
    <3> QED
      BY <3>1, <3>3
  <2>4. ASSUME RanNow(c) PROVE conns'[m].outbox = c \/ (conns'[m].server /\ conns'[m].call = c)
    <3>1. conns[m].outbox = c \/ (conns[m].server /\ conns[m].call = c)
      BY <2>2, <2>4 DEF MaySendAgain
    <3>2. CASE m # k
      BY <1>0, <2>1, <3>1, <3>2
    <3>3. CASE m = k
      <4>1. CASE Closes(conns[k], r)
        BY <1>0, <1>4, <2>1, <3>1, <3>3, <4>1 DEF Closes, AgentInv, AtWork
      <4>2. CASE Replies(conns[k], r)
        BY <1>0, <1>4, <2>1, <3>1, <3>3, <4>2 DEF Replies, Own
      <4>3. CASE Takes(conns[k], r)
        BY <1>0, <1>4, <2>1, <3>1, <3>3, <4>3 DEF Takes, Own, AgentInv, AtWork
      <4>4. CASE Works(conns[k], r)
        BY <1>0, <1>4, <2>1, <3>1, <3>3, <4>4 DEF Works
      <4> QED
        BY <4>1, <4>2, <4>3, <4>4 DEF Turn
    <3> QED
      BY <3>2, <3>3
  <2> QED
    BY <1>0, <1>2, <2>1, <2>2, <2>3, <2>4 DEF MaySendAgain
<1> QED
  BY <1>0, <1>3, <1>4 DEF AgentInv, Sendings

\* A turn outside the lock leaves state.json, and what its holder knows, alone.
LEMMA UnlockedTurnKeepsRecord ==
  ASSUME AgentInv, NEW k \in Conns, NEW r, Turn(k, r), UNCHANGED <<recorded, floor, flock>>,
         conns[k].pc \notin {"checked", "truncated"}, r.pc \notin {"checked", "truncated"},
         r.pc = "admitted" => calls[r.call].phase \in Phases
  PROVE  Recorded'
<1>0. /\ Conns' = Conns /\ calls' = calls /\ Conns = 1 .. Len(conns)
      /\ \A j \in Conns : conns'[j] = IF j = k THEN r ELSE conns[j]
  BY TurnKeepsTraffic, Parts DEF AgentInv, Turn, Becomes
<1>1. flock # 0 => flock \in Conns /\ flock # k
  BY <1>0 DEF AgentInv, Typed, Recorded
<1>2. ASSUME NEW j \in Conns PROVE Ordered(j)'
  <2>1. CASE j = k
    BY <1>0, <2>1 DEF Ordered, Request
  <2>2. CASE j # k
    BY <1>0, <2>2 DEF Ordered, Request, AgentInv, Recorded, Blank
  <2> QED
    BY <2>1, <2>2
<1> QED
  BY <1>0, <1>1, <1>2 DEF AgentInv, Recorded

-----------------------------------------------------------------------------
(* The handler's steps. *)

\* What the steps leave of a connection is one.
LEMMA EditedConn ==
  ASSUME NEW n \in Nat, NEW o \in ConnSet(n), NEW c \in 0 .. n, NEW pc \in Pcs
  PROVE  /\ [o EXCEPT !.outbox = c, !.pc = "read", !.call = 0, !.inbox = 0] \in ConnSet(n)
         /\ [o EXCEPT !.server = FALSE, !.inbox = 0, !.call = 0, !.pc = "closed"] \in ConnSet(n)
         /\ [o EXCEPT !.inbox = 0, !.call = c, !.pc = pc] \in ConnSet(n)
<1>1. 0 \in 0 .. n /\ "read" \in Pcs /\ "closed" \in Pcs
  BY DEF Pcs
<1>2. [o EXCEPT !.outbox = c, !.pc = "read", !.call = 0, !.inbox = 0] \in ConnSet(n)
  BY <1>1 DEF ConnSet
<1>3. [o EXCEPT !.server = FALSE, !.inbox = 0, !.call = 0, !.pc = "closed"] \in ConnSet(n)
  BY <1>1 DEF ConnSet
<1>4. [o EXCEPT !.inbox = 0, !.call = c, !.pc = pc] \in ConnSet(n)
  BY <1>1 DEF ConnSet
<1> QED
  BY <1>2, <1>3, <1>4

\* A reply, or the end of the connection, is a turn.
LEMMA ReplyIsTurn ==
  ASSUME AgentInv, NEW k \in Conns, NEW c, c # 0, conns[k].server,
         c = IF conns[k].pc = "read" THEN conns[k].inbox ELSE conns[k].call,
         conns' = Reply(k, c), UNCHANGED <<calls, client>>
  PROVE  \E r : Turn(k, r) /\ r.pc \in {"read", "closed"}
<1> DEFINE o == conns[k]
<1>1. o \in ConnSet(Len(calls)) /\ c \in 0 .. Len(calls) /\ Typed /\ Len(calls) \in Nat
  BY Parts DEF AgentInv, ConnSet
<1>2. CASE o.held
  <2> DEFINE r == [o EXCEPT !.outbox = c, !.pc = "read", !.call = 0, !.inbox = 0]
  <2>1. r \in ConnSet(Len(calls))
    BY <1>1, EditedConn DEF Pcs
  <2>2. conns' = [conns EXCEPT ![k] = r]
    BY <1>2 DEF Reply
  <2>3. Becomes(k, r)
    <3> HIDE DEF r
    <3> QED BY <1>1, <2>1, <2>2, ConnBecomes
  <2>4. Replies(o, r) /\ r.held = o.held
    BY <1>1, <1>2 DEF Replies, ConnSet
  <2> HIDE DEF r
  <2>5. Turn(k, r) /\ r.pc = "read"
    BY <2>3, <2>4 DEF Turn, Replies
  <2> QED
    BY <2>5
<1>3. CASE ~o.held
  <2> DEFINE r == [o EXCEPT !.server = FALSE, !.inbox = 0, !.call = 0, !.pc = "closed"]
  <2>1. r \in ConnSet(Len(calls))
    BY <1>1, EditedConn DEF Pcs
  <2>2. conns' = [conns EXCEPT ![k] = r]
    BY <1>3 DEF Reply
  <2>3. Becomes(k, r)
    <3> HIDE DEF r
    <3> QED BY <1>1, <2>1, <2>2, ConnBecomes
  <2>4. Closes(o, r) /\ r.held = o.held
    BY <1>1, <1>3 DEF Closes, ConnSet
  <2> HIDE DEF r
  <2>5. Turn(k, r) /\ r.pc = "closed"
    BY <2>3, <2>4 DEF Turn, Closes
  <2> QED
    BY <2>5
<1> QED
  BY <1>2, <1>3

\* A turn outside the lock in which no script runs keeps the invariant.
LEMMA PlainTurnKeeps ==
  ASSUME AgentInv, NEW k \in Conns, NEW r, Turn(k, r),
         UNCHANGED <<recorded, floor, flock, runs, signed, life>>,
         seen' \in Seq(Nat), Len(seen') <= NonceCap,
         conns[k].pc \notin {"checked", "truncated"}, r.pc \notin {"checked", "truncated", "ran"},
         r.pc = "admitted" => calls[r.call].phase \in Phases
  PROVE  AgentInv'
<1>1. AtWork' /\ Held' /\ OwnTraffic' /\ ConnsTyped' /\ Conns' = Conns /\ Len(conns') = Len(conns)
  BY TurnKeepsTraffic
<1>2. Typed'
  BY <1>1 DEF AgentInv, Typed, Turn
<1> QED
  BY <1>1, <1>2, QuietTurnKeepsSendings, UnlockedTurnKeepsRecord DEF AgentInv

\* The end of an idle connection.
LEMMA HangUpKeeps == ASSUME AgentInv, NEW k \in Conns, HangUp(k) PROVE AgentInv'
<1> DEFINE r == [conns[k] EXCEPT !.server = FALSE, !.inbox = 0, !.pc = "closed"]
<1>1. conns[k] \in ConnSet(Len(calls)) /\ Typed /\ Len(calls) \in Nat
  BY Parts DEF AgentInv
<1>2. conns[k].pc = "read" /\ conns[k].call = 0
  BY DEF HangUp, At, AgentInv, AtWork
<1>3. r \in ConnSet(Len(calls)) /\ Closes(conns[k], r) /\ r.held = conns[k].held /\ r.pc = "closed"
  BY <1>1, <1>2 DEF ConnSet, Pcs, Closes
<1>4. conns' = [conns EXCEPT ![k] = r]
  BY DEF HangUp
<1> HIDE DEF r
<1>5. Turn(k, r)
  BY <1>1, <1>3, <1>4, ConnBecomes DEF Turn, HangUp
<1>6. UNCHANGED <<recorded, floor, flock, seen, runs, signed, life>>
  BY DEF HangUp
<1> QED
  BY <1>1, <1>2, <1>3, <1>5, <1>6, PlainTurnKeeps DEF Typed

\* The cache never holds more than it may.
LEMMA CacheBounded ==
  ASSUME Typed, NEW c \in Nat
  PROVE  Remember(c) \in Seq(Nat) /\ Len(Remember(c)) <= NonceCap
<1> DEFINE all == Append(seen, c)
<1>1. seen \in Seq(Nat) /\ Len(seen) <= NonceCap /\ Len(seen) \in Nat /\ NonceCap \in Nat
  BY LenProperties, AgentAssumption DEF Typed
<1>2. all \in Seq(Nat) /\ all # <<>> /\ Len(all) = Len(seen) + 1
  BY <1>1, AppendProperties
<1>3. Tail(all) \in Seq(Nat) /\ Len(Tail(all)) = Len(all) - 1
  BY <1>2, HeadTailProperties
<1> HIDE DEF all
<1>4. Remember(c) = IF Len(all) > NonceCap THEN Tail(all) ELSE all
  BY DEF Remember, all
<1> QED
  BY <1>1, <1>2, <1>3, <1>4

\* A request is refused on the spot, or taken.
LEMMA AuthenticateKeeps == ASSUME AgentInv, NEW k \in Conns, Authenticate(k) PROVE AgentInv'
<1> DEFINE c == conns[k].inbox
<1>1. conns[k] \in ConnSet(Len(calls)) /\ Typed /\ Len(calls) \in Nat
  BY Parts DEF AgentInv
<1>2. conns[k].pc = "read" /\ conns[k].server /\ c # 0 /\ c \in 1 .. Len(calls) /\ c \in Nat
  BY <1>1 DEF Authenticate, At, ConnSet
<1>3. UNCHANGED <<calls, client, recorded, floor, flock, runs, signed, life>>
  BY DEF Authenticate
<1>4. CASE conns' = Reply(k, c) /\ UNCHANGED seen
  <2>1. PICK r : Turn(k, r) /\ r.pc \in {"read", "closed"}
    BY <1>2, <1>3, <1>4, ReplyIsTurn
  <2> QED
    BY <1>1, <1>2, <1>3, <1>4, <2>1, PlainTurnKeeps DEF Typed
<1>5. CASE /\ conns' = [conns EXCEPT ![k].inbox = 0, ![k].call = c,
                                     ![k].pc = IF calls[c].phase = Unordered THEN "queued" ELSE "admitted"]
           /\ seen' = Remember(c)
  <2> DEFINE pc == IF calls[c].phase = Unordered THEN "queued" ELSE "admitted"
  <2> DEFINE r == [conns[k] EXCEPT !.inbox = 0, !.call = c, !.pc = pc]
  <2>1. pc \in {"queued", "admitted"} /\ (pc = "admitted" => calls[c].phase \in Phases)
    <3>1. calls[c] \in RequestSet
      BY <1>1, <1>2, Parts DEF Calls
    <3> QED
      BY <3>1 DEF RequestSet
  <2>2. conns' = [conns EXCEPT ![k] = r]
    BY <1>5
  <2> HIDE DEF pc
  <2>3. r \in ConnSet(Len(calls)) /\ Takes(conns[k], r) /\ r.held = conns[k].held /\ r.pc = pc /\ r.call = c
    <3>1. pc \in Pcs
      BY <2>1 DEF Pcs
    <3>2. r \in ConnSet(Len(calls))
      <4>1. c \in 0 .. Len(calls)
        BY <1>1, <1>2
      <4> HIDE DEF c
      <4> QED
        BY <1>1, <3>1, <4>1, EditedConn
    <3>3. /\ r.inbox = 0 /\ r.call = c /\ r.pc = pc
          /\ r.server = conns[k].server /\ r.held = conns[k].held /\ r.outbox = conns[k].outbox
      BY <1>1 DEF ConnSet
    <3> HIDE DEF r
    <3> QED
      BY <1>2, <2>1, <3>2, <3>3 DEF Takes
  <2> HIDE DEF r
  <2>4. Turn(k, r)
    BY <1>1, <1>3, <2>2, <2>3, ConnBecomes DEF Turn
  <2>5. seen' \in Seq(Nat) /\ Len(seen') <= NonceCap
    BY <1>1, <1>2, <1>5, CacheBounded
  <2> QED
    BY <1>2, <1>3, <2>1, <2>3, <2>4, <2>5, PlainTurnKeeps
<1> QED
  BY <1>4, <1>5 DEF Authenticate

\* The script has run: its output is the response.
LEMMA RespondKeeps == ASSUME AgentInv, NEW k \in Conns, Respond(k) PROVE AgentInv'
<1>1. Typed
  BY DEF AgentInv
<1>2. conns[k].pc = "ran" /\ conns[k].server /\ conns[k].call # 0
  BY DEF Respond, At, AgentInv, AtWork
<1>3. UNCHANGED <<calls, client, recorded, floor, flock, seen, runs, signed, life>> /\ conns' = Reply(k, conns[k].call)
  BY DEF Respond
<1>4. PICK r : Turn(k, r) /\ r.pc \in {"read", "closed"}
  BY <1>2, <1>3, ReplyIsTurn
<1> QED
  BY <1>1, <1>2, <1>3, <1>4, PlainTurnKeeps DEF Typed

\* A turn of the lock's holder: neither it nor another can disturb the others.
LEMMA WorkKeeps ==
  ASSUME AgentInv, NEW k \in Conns, NEW r, Turn(k, r), UNCHANGED <<runs, signed, life, seen>>, r.pc # "ran",
         recorded' \in Recs, floor' \in Recs, flock' \in 0 .. Len(conns), Recorded'
  PROVE  AgentInv'
<1>1. AtWork' /\ Held' /\ OwnTraffic' /\ ConnsTyped' /\ Conns' = Conns /\ Len(conns') = Len(conns)
  BY TurnKeepsTraffic
<1>2. Typed'
  BY <1>1 DEF AgentInv, Typed, Turn
<1> QED
  BY <1>1, <1>2, QuietTurnKeepsSendings DEF AgentInv

\* A handler moves on with its request.
LEMMA Working ==
  ASSUME AgentInv, NEW k \in Conns, UNCHANGED <<calls, client>>,
         NEW r \in ConnSet(Len(calls)), conns' = [conns EXCEPT ![k] = r],
         conns[k].pc \notin {"read", "closed", "ran"}, r.pc \notin {"read", "closed"},
         r.server = conns[k].server, r.held = conns[k].held,
         r.inbox = conns[k].inbox, r.outbox = conns[k].outbox, r.call = conns[k].call
  PROVE  Turn(k, r)
<1>1. Becomes(k, r)
  BY ConnBecomes DEF AgentInv
<1> QED
  BY <1>1 DEF Turn, Works

\* What such a step leaves of a connection.
LEMMA WorkedConn ==
  ASSUME NEW n, NEW o \in ConnSet(n), NEW pc \in Pcs, NEW st \in Recs
  PROVE  [o EXCEPT !.pc = pc, !.st = st] \in ConnSet(n)
BY DEF ConnSet

\* The lock is taken, or the request refused.
LEMMA CheckSeqKeeps == ASSUME AgentInv, NEW k \in Conns, CheckSeq(k) PROVE AgentInv'
<1> DEFINE q == Request(k)
<1>1. /\ conns[k] \in ConnSet(Len(calls)) /\ Typed /\ Len(calls) \in Nat
      /\ Conns = 1 .. Len(conns) /\ Len(conns) \in Nat
  BY Parts DEF AgentInv
<1>2. /\ conns[k].pc = "admitted" /\ conns[k].server /\ conns[k].call # 0 /\ flock = 0
      /\ UNCHANGED <<calls, client, recorded, floor, seen, runs, signed, life>>
  BY DEF CheckSeq, At, LockTaken, AgentInv, AtWork
<1>3. q.phase \in Phases /\ q.seq \in Seqs /\ recorded = floor /\ recorded \in Recs
  <2>1. conns[k].call \in 1 .. Len(calls)
    BY <1>1, <1>2 DEF ConnSet
  <2>2. q \in RequestSet
    BY <1>1, <2>1, Parts DEF Request, Calls
  <2> QED
    BY <1>2, <2>2 DEF RequestSet, AgentInv, Recorded, Ordered, Typed
<1>4. CASE conns' = Reply(k, conns[k].call) /\ UNCHANGED flock
  <2>1. PICK r : Turn(k, r) /\ r.pc \in {"read", "closed"}
    BY <1>2, <1>4, ReplyIsTurn
  <2> QED
    BY <1>1, <1>2, <1>4, <2>1, PlainTurnKeeps DEF Typed
<1>5. CASE /\ q.seq >= recorded[q.phase]
           /\ conns' = [conns EXCEPT ![k].pc = "checked", ![k].st = [recorded EXCEPT ![q.phase] = q.seq]]
           /\ flock' = k
  <2> DEFINE st == [recorded EXCEPT ![q.phase] = q.seq]
  <2> DEFINE r == [conns[k] EXCEPT !.pc = "checked", !.st = st]
  <2>1. st \in Recs /\ "checked" \in Pcs \ {"read", "closed"}
    BY <1>3 DEF Recs, Pcs
  <2>2. conns' = [conns EXCEPT ![k] = r]
    BY <1>5
  <2>3. Turn(k, r) /\ r.pc = "checked" /\ r.st = st /\ r.call = conns[k].call
    <3> HIDE DEF st
    <3>1. r \in ConnSet(Len(calls))
      BY <1>1, <2>1, WorkedConn
    <3>2. /\ r.pc = "checked" /\ r.st = st /\ r.server = conns[k].server /\ r.held = conns[k].held
          /\ r.inbox = conns[k].inbox /\ r.outbox = conns[k].outbox /\ r.call = conns[k].call
      BY <1>1 DEF ConnSet
    <3> HIDE DEF r
    <3> QED
      BY <1>2, <2>2, <3>1, <3>2, Working
  <2> HIDE DEF r
  <2>4. Conns' = Conns /\ \A j \in Conns : conns'[j] = IF j = k THEN r ELSE conns[j]
    BY <2>3, TurnKeepsTraffic DEF Turn, Becomes
  <2>5. ASSUME NEW j \in Conns PROVE Ordered(j)'
    <3>1. CASE j = k
      <4>1. Request(j)' = q
        BY <1>2, <2>3, <2>4, <3>1 DEF Request
      <4> QED
        BY <1>2, <1>3, <1>5, <2>3, <2>4, <3>1, <4>1 DEF Ordered
    <3>2. CASE j # k
      <4>1. Ordered(j)
        BY DEF AgentInv, Recorded
      <4>2. conns[j].pc \notin {"checked", "truncated"}
        BY <1>1, <1>2, <4>1 DEF Ordered
      <4>3. conns'[j] = conns[j] /\ Request(j)' = Request(j)
        BY <1>2, <2>4, <3>2 DEF Request
      <4> QED
        BY <4>1, <4>2, <4>3 DEF Ordered
    <3> QED
      BY <3>1, <3>2
  <2>6. Recorded'
    <3>1. flock' # 0 /\ flock' \in Conns /\ conns'[flock'].pc = "checked"
      BY <1>1, <1>5, <2>3, <2>4
    <3> QED
      BY <2>4, <2>5, <3>1 DEF Recorded
  <2>7. flock' \in 0 .. Len(conns) /\ recorded' \in Recs /\ floor' \in Recs
    BY <1>1, <1>2, <1>3, <1>5
  <2> QED
    BY <1>2, <2>3, <2>6, <2>7, WorkKeeps
<1>6. q.seq >= recorded[q.phase] \/ q.seq < recorded[q.phase]
  <2>1. recorded[q.phase] \in {0} \cup Seqs
    BY <1>3 DEF Recs
  <2>2. Seqs \subseteq Nat /\ 0 \in Nat
    BY AgentAssumption
  <2> HIDE DEF q
  <2>3. q.seq \in Nat /\ recorded[q.phase] \in Nat
    BY <1>3, <2>1, <2>2
  <2> QED
    BY <2>3
<1> QED
  BY <1>4, <1>5, <1>6 DEF CheckSeq

\* A handler between its check and the end of its write is the lock's only holder.
LEMMA Holder ==
  ASSUME AgentInv, NEW k \in Conns, conns[k].pc \in {"checked", "truncated"}
  PROVE  /\ flock = k /\ conns[k].server
         /\ Request(k).phase \in Phases /\ Request(k).seq \in Seqs /\ Request(k).seq >= floor[Request(k).phase]
         /\ conns[k].st = [floor EXCEPT ![Request(k).phase] = Request(k).seq]
         /\ \A j \in Conns : j # k => conns[j].pc \notin {"checked", "truncated"}
<1>1. \A j \in Conns : Ordered(j)
  BY DEF AgentInv, Recorded
<1>2. conns[k].call # 0 /\ conns[k].server
  BY DEF AgentInv, AtWork
<1>3. Request(k) \in RequestSet
  <2>1. conns[k].call \in 1 .. Len(calls)
    BY <1>2, Parts DEF AgentInv, ConnSet
  <2> QED
    BY <2>1, Parts DEF AgentInv, Request, Calls
<1>4. Request(k).seq \in Seqs
  BY <1>3 DEF RequestSet
<1> QED
  BY <1>1, <1>2, <1>4 DEF Ordered

\* The holder empties the file.
LEMMA TruncateKeeps == ASSUME AgentInv, NEW k \in Conns, Truncate(k) PROVE AgentInv'
<1> DEFINE r == [conns[k] EXCEPT !.pc = "truncated"]
<1>1. conns[k] \in ConnSet(Len(calls)) /\ Typed /\ Conns = 1 .. Len(conns) /\ Len(conns) \in Nat
  BY Parts DEF AgentInv
<1>2. /\ conns[k].pc = "checked" /\ recorded' = Blank
      /\ UNCHANGED <<calls, client, flock, floor, seen, runs, signed, life>>
  BY DEF Truncate, At
<1>3. r \in ConnSet(Len(calls))
  BY <1>1 DEF ConnSet, Pcs
<1>4. /\ r.pc = "truncated" /\ r.st = conns[k].st /\ r.server = conns[k].server /\ r.held = conns[k].held
      /\ r.inbox = conns[k].inbox /\ r.outbox = conns[k].outbox /\ r.call = conns[k].call
  BY <1>1 DEF ConnSet
<1>5. conns' = [conns EXCEPT ![k] = r]
  BY DEF Truncate
<1> HIDE DEF r
<1>6. Turn(k, r)
  BY <1>2, <1>3, <1>4, <1>5, Working
<1>7. Conns' = Conns /\ \A j \in Conns : conns'[j] = IF j = k THEN r ELSE conns[j]
  BY <1>6, TurnKeepsTraffic DEF Turn, Becomes
<1>8. Recorded'
  <2>1. ASSUME NEW j \in Conns PROVE Ordered(j)'
    <3>1. Ordered(j) /\ Request(j)' = Request(j)
      BY <1>2, <1>4, <1>7 DEF AgentInv, Recorded, Request
    <3>2. CASE j = k
      BY <1>2, <1>4, <1>7, <3>1, <3>2 DEF Ordered
    <3>3. CASE j # k
      BY <1>2, <1>7, <3>1, <3>3, Holder DEF Ordered
    <3> QED
      BY <3>2, <3>3
  <2>2. flock' = k /\ k # 0
    <3>1. flock = k
      BY <1>2, Holder
    <3> QED
      BY <1>1, <1>2, <3>1
  <2> QED
    BY <1>4, <1>7, <2>1, <2>2 DEF Recorded
<1>9. recorded' \in Recs /\ floor' \in Recs /\ flock' \in 0 .. Len(conns)
  <2>1. Blank \in Recs
    BY DEF Recs, Blank
  <2>2. floor \in Recs /\ flock \in 0 .. Len(conns)
    BY <1>1 DEF Typed
  <2> QED
    BY <1>2, <2>1, <2>2
<1> QED
  BY <1>2, <1>4, <1>6, <1>8, <1>9, WorkKeeps

\* The holder writes the file and gives the lock back: the record says the highest.
LEMMA WriteSeqKeeps == ASSUME AgentInv, NEW k \in Conns, WriteSeq(k) PROVE AgentInv'
<1> DEFINE r == [conns[k] EXCEPT !.pc = "queued", !.st = Blank]
<1> DEFINE q == Request(k)
<1>1. conns[k] \in ConnSet(Len(calls)) /\ Typed /\ Conns = 1 .. Len(conns) /\ Len(conns) \in Nat
  BY Parts DEF AgentInv
<1>2. /\ conns[k].pc = "truncated" /\ recorded' = conns[k].st /\ flock' = 0
      /\ floor' = [floor EXCEPT ![q.phase] = IF q.seq > floor[q.phase] THEN q.seq ELSE floor[q.phase]]
      /\ UNCHANGED <<calls, client, seen, runs, signed, life>>
  BY DEF WriteSeq, At
<1>3. r \in ConnSet(Len(calls))
  <2>1. Blank \in Recs /\ "queued" \in Pcs
    BY DEF Blank, Recs, Pcs
  <2> QED
    BY <1>1, <2>1, WorkedConn
<1>4. /\ r.pc = "queued" /\ r.server = conns[k].server /\ r.held = conns[k].held
      /\ r.inbox = conns[k].inbox /\ r.outbox = conns[k].outbox /\ r.call = conns[k].call
  BY <1>1 DEF ConnSet
<1>5. conns' = [conns EXCEPT ![k] = r]
  BY DEF WriteSeq
<1> HIDE DEF r
<1>6. Turn(k, r)
  BY <1>2, <1>3, <1>4, <1>5, Working
<1>7. Conns' = Conns /\ \A j \in Conns : conns'[j] = IF j = k THEN r ELSE conns[j]
  BY <1>6, TurnKeepsTraffic DEF Turn, Becomes
<1>8. recorded' = floor' /\ recorded' \in Recs
  <2>1. q.phase \in Phases /\ q.seq \in Seqs /\ q.seq >= floor[q.phase] /\ conns[k].st = [floor EXCEPT ![q.phase] = q.seq]
    BY <1>2, Holder
  <2>2. floor \in Recs
    BY <1>1 DEF Typed
  <2>3. floor[q.phase] \in {0} \cup Seqs
    BY <2>1, <2>2 DEF Recs
  <2>4. Seqs \subseteq Nat /\ 0 \in Nat
    BY AgentAssumption
  <2> HIDE DEF q
  <2>5. floor[q.phase] \in Nat /\ q.seq \in Nat
    BY <2>1, <2>3, <2>4
  <2>6. (IF q.seq > floor[q.phase] THEN q.seq ELSE floor[q.phase]) = q.seq
    BY <2>1, <2>5
  <2>7. recorded' = floor'
    BY <1>2, <2>1, <2>6
  <2> QED
    BY <1>2, <2>1, <2>2, <2>7 DEF Recs
<1>9. Recorded'
  <2>1. ASSUME NEW j \in Conns PROVE Ordered(j)'
    <3>1. Ordered(j) /\ Request(j)' = Request(j)
      BY <1>2, <1>4, <1>7 DEF AgentInv, Recorded, Request
    <3>2. CASE j = k
      BY <1>4, <1>7, <3>2 DEF Ordered
    <3>3. CASE j # k
      <4>1. conns'[j] = conns[j] /\ conns[j].pc \notin {"checked", "truncated"}
        BY <1>2, <1>7, <3>3, Holder
      <4> QED
        BY <3>1, <4>1 DEF Ordered
    <3> QED
      BY <3>2, <3>3
  <2> QED
    BY <1>2, <1>7, <1>8, <2>1 DEF Recorded
<1>10. floor' \in Recs /\ flock' \in 0 .. Len(conns)
  BY <1>1, <1>2, <1>8
<1> QED
  BY <1>2, <1>4, <1>6, <1>8, <1>9, <1>10, WorkKeeps

\* The script runs: its sending is used up.
LEMMA RunKeeps == ASSUME AgentInv, NEW k \in Conns, Run(k) PROVE AgentInv'
<1> DEFINE r == [conns[k] EXCEPT !.pc = "ran"]
<1> DEFINE c == conns[k].call
<1>1. /\ conns[k] \in ConnSet(Len(calls)) /\ Typed /\ Conns = 1 .. Len(conns) /\ Len(conns) \in Nat
      /\ Calls = 1 .. Len(calls) /\ life \in Nat
  BY Parts DEF AgentInv
<1>2. /\ conns[k].pc = "queued" /\ conns[k].server /\ c # 0 /\ c \in Calls
      /\ runs' = [runs EXCEPT ![c] = Append(runs[c], life)]
      /\ UNCHANGED <<calls, client, recorded, flock, floor, seen, life>>
  <2>1. conns[k].pc = "queued" /\ conns[k].server /\ c # 0
    BY DEF Run, At, AgentInv, AtWork
  <2>2. c \in Calls
    BY <1>1, <2>1 DEF ConnSet
  <2> QED
    BY <2>1, <2>2 DEF Run
<1>3. r \in ConnSet(Len(calls))
  BY <1>1 DEF ConnSet, Pcs
<1>4. /\ r.pc = "ran" /\ r.server = conns[k].server /\ r.held = conns[k].held
      /\ r.inbox = conns[k].inbox /\ r.outbox = conns[k].outbox /\ r.call = c
  BY <1>1 DEF ConnSet
<1>5. conns' = [conns EXCEPT ![k] = r]
  BY DEF Run
<1>6. c \in Nat
  BY <1>1, <1>2
<1> HIDE DEF r
<1>7. Turn(k, r)
  BY <1>2, <1>3, <1>4, <1>5, Working
<1>8. /\ AtWork' /\ Held' /\ OwnTraffic' /\ ConnsTyped' /\ Conns' = Conns /\ Len(conns') = Len(conns)
      /\ \A j \in Conns : conns'[j] = IF j = k THEN r ELSE conns[j]
  BY <1>7, TurnKeepsTraffic DEF Turn, Becomes
<1>9. /\ Typed' /\ Calls' = Calls
      /\ \A d \in Calls : runs'[d] = IF d = c THEN Append(runs[c], life) ELSE runs[d]
  <2>1. runs \in Seq(Seq(1 .. life)) /\ Len(runs) = Len(calls) /\ c \in 1 .. Len(runs) /\ life \in 1 .. life /\ life' = life
    BY <1>1, <1>2 DEF Typed
  <2>2. runs[c] \in Seq(1 .. life)
    BY <1>1, <1>2, Parts
  <2>3. Append(runs[c], life) \in Seq(1 .. life)
    BY <2>1, <2>2, AppendProperties
  <2>4. /\ runs' \in Seq(Seq(1 .. life)) /\ Len(runs') = Len(runs)
        /\ \A d \in 1 .. Len(runs) : runs'[d] = IF d = c THEN Append(runs[c], life) ELSE runs[d]
    BY <1>2, <2>1, <2>3, Replaced
  <2>5. signed' \in Recs
    <3>1. signed \in Recs /\ Request(k) \in RequestSet
      BY <1>1, <1>2, Parts DEF Typed, Request
    <3> QED
      BY <3>1 DEF Run, Recs, RequestSet
  <2>6. Typed'
    BY <1>1, <1>2, <1>8, <2>1, <2>4, <2>5 DEF Typed
  <2> QED
    BY <1>1, <1>2, <2>1, <2>4, <2>6 DEF Calls
<1>10. Recorded'
  BY <1>2, <1>4, <1>7, UnlockedTurnKeepsRecord
<1>11. \A d \in Calls, j \in Conns : Carries(j, d)' => d # c /\ Carries(j, d)
  <2>1. Carries(k, c) /\ \A j \in Conns : Carries(j, c) => j = k
    BY <1>2 DEF Carries, AgentInv, Sendings, SentOnce
  <2>2. conns[k].inbox = 0 /\ \A d \in Calls : d # 0
    BY <1>1, <1>2 DEF AgentInv, AtWork
  <2>3. ASSUME NEW d \in Calls, NEW j \in Conns, Carries(j, d)' PROVE d # c /\ Carries(j, d)
    <3>1. CASE j = k
      BY <1>4, <1>8, <2>2, <2>3, <3>1 DEF Carries
    <3>2. CASE j # k
      BY <1>8, <2>1, <2>3, <3>2 DEF Carries
    <3> QED
      BY <3>1, <3>2
  <2> QED
    BY <2>3
<1>12. Carries(k, c) /\ ~RanNow(c) /\ Len(runs[c]) <= 1 /\ SentOnce(c) /\ RunOnce(c)
  BY <1>2 DEF Carries, AgentInv, Sendings, SentOnce
<1>13. /\ Len(runs'[c]) = Len(runs[c]) + 1 /\ RunOnce(c)'
  <2> DEFINE s == runs[c]
  <2>1. s \in Seq(1 .. life) /\ DOMAIN s = 1 .. Len(s) /\ Len(s) \in Nat
    BY <1>1, <1>2, Parts
  <2>2. runs'[c] = Append(s, life)
    BY <1>2, <1>9
  <2>3. life \in 1 .. life
    BY <1>1 DEF Typed
  <2>4. /\ Len(runs'[c]) = Len(s) + 1 /\ runs'[c][Len(s) + 1] = life /\ DOMAIN runs'[c] = 1 .. Len(s) + 1
        /\ \A i \in 1 .. Len(s) : runs'[c][i] = s[i]
    <3> HIDE DEF s
    <3>1. /\ Append(s, life) \in Seq(1 .. life) /\ Len(Append(s, life)) = Len(s) + 1
          /\ Append(s, life)[Len(s) + 1] = life /\ \A i \in 1 .. Len(s) : Append(s, life)[i] = s[i]
      BY <2>1, <2>3, Longer
    <3>2. DOMAIN Append(s, life) = 1 .. Len(s) + 1
      BY <3>1, Places
    <3> QED
      BY <2>2, <3>1, <3>2
  <2>5. \A i \in 1 .. Len(s) : s[i] # life
    BY <1>12, <2>1 DEF RanNow
  <2>6. \A i, j \in 1 .. Len(s) : s[i] = s[j] => i = j
    BY <1>12, <2>1 DEF RunOnce
  <2>7. Len(s) <= 1
    BY <1>12
  <2> HIDE DEF s
  <2>8. ASSUME NEW i \in 1 .. Len(s) + 1, NEW j \in 1 .. Len(s) + 1, runs'[c][i] = runs'[c][j] PROVE i = j
    <3>1. (i \in 1 .. Len(s) \/ i = Len(s) + 1) /\ (j \in 1 .. Len(s) \/ j = Len(s) + 1)
      BY <2>1
    <3> QED
      BY <2>4, <2>5, <2>6, <2>8, <3>1
  <2>9. RunOnce(c)'
    <3>1. c' = c
      BY <1>4, <1>8
    <3>2. Len(runs'[c]) <= 2
      BY <2>1, <2>4, <2>7
    <3> QED
      BY <2>4, <2>8, <3>1, <3>2 DEF RunOnce
  <2> QED
    BY <2>4, <2>9 DEF s
<1>14. ASSUME NEW d \in Calls PROVE SentOnce(d)' /\ RunOnce(d)'
  <2>1. CASE d = c
    <3>1. SentOnce(d)'
      BY <1>8, <1>11, <2>1 DEF SentOnce
    <3>2. runs'[d] = runs'[c] /\ c' = c
      BY <1>4, <1>8, <2>1
    <3>3. RunOnce(d)'
      BY <1>13, <3>2 DEF RunOnce
    <3> QED
      BY <3>1, <3>3
  <2>2. CASE d # c
    <3>1. runs'[d] = runs[d] /\ life' = life
      BY <1>2, <1>9, <2>2
    <3>2. SentOnce(d) /\ RunOnce(d)
      BY DEF AgentInv, Sendings
    <3>3. RunOnce(d)'
      BY <3>1, <3>2 DEF RunOnce
    <3>4. RanNow(d)' <=> RanNow(d)
      BY <3>1 DEF RanNow
    <3> QED
      BY <1>8, <1>11, <3>1, <3>2, <3>3, <3>4 DEF SentOnce
  <2> QED
    BY <2>1, <2>2
<1>15. ASSUME NEW p \in Procs, client[p].call # 0, client[p].reused PROVE MaySendAgain(p, client[p].call)'
  <2> DEFINE m == client[p].conn
  <2> DEFINE e == client[p].call
  <2>1. m \in Conns /\ e \in Calls /\ client' = client
    BY <1>1, <1>2, <1>15, Parts DEF AgentInv, Held, ClientSet
  <2>2. MaySendAgain(p, e)
    BY <1>15 DEF AgentInv, Sendings
  <2>3. e' = e /\ m' = m
    BY <2>1
  <2>4. CASE e = c
    <3>1. k = m /\ runs[c] = <<>>
      BY <1>12, <2>2, <2>4 DEF MaySendAgain
    <3>2. Len(runs'[e]) <= 1
      <4>1. Len(runs[c]) = 0
        BY <3>1
      <4>2. Len(runs'[c]) = 1
        BY <1>13, <4>1
      <4>3. runs'[e] = runs'[c]
        BY <2>4
      <4>4. Len(runs'[e]) = 1
        BY <4>2, <4>3
      <4> QED
        BY <4>4
    <3>3. conns'[m].server /\ conns'[m].call = e
      BY <1>2, <1>4, <1>8, <2>1, <2>4, <3>1
    <3>4. \A j \in Conns' : ~ Carries(j, e)'
      BY <1>8, <1>11, <2>1, <2>3, <2>4
    <3> QED
      BY <2>3, <3>2, <3>3, <3>4 DEF MaySendAgain
  <2>5. CASE e # c
    <3>1. runs'[e] = runs[e] /\ life' = life
      BY <1>2, <1>9, <2>1, <2>5
    <3>2. RanNow(e)' <=> RanNow(e)
      BY <2>3, <3>1 DEF RanNow
    <3>3. /\ conns'[m].outbox = conns[m].outbox /\ conns'[m].server = conns[m].server
          /\ conns'[m].call = conns[m].call
      BY <1>4, <1>8, <2>1
    <3>4. \A j \in Conns' : Carries(j, e)' => Carries(j, e)
      BY <1>8, <1>11, <2>1, <2>3
    <3> QED
      BY <1>8, <2>2, <2>3, <3>1, <3>2, <3>3, <3>4 DEF MaySendAgain
  <2> QED
    BY <2>4, <2>5
<1>16. Sendings'
  BY <1>2, <1>9, <1>14, <1>15 DEF AgentInv, Sendings
<1> QED
  BY <1>8, <1>9, <1>10, <1>16 DEF AgentInv

-----------------------------------------------------------------------------
(* The service is killed. *)

\* What a kill leaves of a connection.
LEMMA KilledConn ==
  ASSUME NEW n \in Nat, NEW o \in ConnSet(n)
  PROVE  [o EXCEPT !.server = FALSE, !.inbox = 0, !.call = 0, !.pc = "closed", !.st = Blank] \in ConnSet(n)
<1>1. Blank \in Recs /\ "closed" \in Pcs /\ 0 \in 0 .. n
  BY DEF Blank, Recs, Pcs
<1> QED
  BY <1>1 DEF ConnSet

\* A new life begins without connections, lock and nonces, and nothing has run in it.
LEMMA KillKeeps == ASSUME AgentInv, Kill PROVE AgentInv'
<1> DEFINE Killed(k) == [conns[k] EXCEPT !.server = FALSE, !.inbox = 0, !.call = 0, !.pc = "closed", !.st = Blank]
<1>1. /\ Typed /\ Conns = 1 .. Len(conns) /\ Len(conns) \in Nat /\ Len(calls) \in Nat /\ life \in Nat
      /\ Calls = 1 .. Len(calls) /\ \A k \in Conns : conns[k] \in ConnSet(Len(calls))
  BY Parts DEF AgentInv
<1>2. /\ UNCHANGED <<calls, client, recorded, runs, signed>> /\ flock' = 0 /\ seen' = <<>>
      /\ life' = life + 1 /\ life <= MaxKills /\ conns' = [k \in Conns |-> Killed(k)]
  BY DEF Kill
<1>3. \A k \in Conns : Killed(k) \in ConnSet(Len(calls))
  BY <1>1, KilledConn
<1>4. \A k \in Conns : /\ ~Killed(k).server /\ Killed(k).inbox = 0 /\ Killed(k).call = 0 /\ Killed(k).pc = "closed"
                       /\ Killed(k).held = conns[k].held /\ Killed(k).outbox = conns[k].outbox
  BY <1>1 DEF ConnSet
<1> HIDE DEF Killed
<1>5. /\ conns' \in Seq(ConnSet(Len(calls))) /\ Len(conns') = Len(conns) /\ Conns' = Conns
      /\ \A k \in Conns : conns'[k] = Killed(k)
  <2>1. conns' \in [1 .. Len(conns) -> ConnSet(Len(calls))]
    BY <1>1, <1>2, <1>3
  <2>2. conns' \in Seq(ConnSet(Len(calls))) /\ Len(conns') = Len(conns)
    BY <1>1, <2>1, Tabulated
  <2>3. Conns' = Conns
    BY <1>1, <2>2, Places DEF Conns
  <2> QED
    BY <1>2, <2>2, <2>3
<1>6. Typed'
  <2>1. runs' \in Seq(Seq(1 .. life'))
    <3>1. runs \in Seq(Seq(1 .. life))
      BY <1>1 DEF Typed
    <3>2. 1 .. life \subseteq 1 .. life'
      BY <1>1, <1>2
    <3>3. Seq(1 .. life) \subseteq Seq(1 .. life')
      BY <3>2, SeqMonotonic
    <3> QED
      BY <1>2, <3>1, <3>3, SeqMonotonic
  <2>2. life' \in 1 .. MaxKills + 1
    BY <1>1, <1>2, AgentAssumption
  <2>3. seen' \in Seq(Nat) /\ Len(seen') <= NonceCap
    <3>1. seen' \in Seq(Nat) /\ Len(seen') = 0
      BY <1>2, EmptySeq
    <3> QED
      BY <3>1, AgentAssumption
  <2>4. floor' \in Recs /\ flock' \in 0 .. Len(conns')
    <3>1. Blank \in Recs /\ floor \in Recs
      BY <1>1 DEF Blank, Recs, Typed
    <3>2. floor' = Blank \/ floor' = floor
      BY DEF Kill
    <3>3. flock' = 0 /\ Len(conns') \in Nat
      BY <1>1, <1>2, <1>5
    <3> QED
      BY <3>1, <3>2, <3>3
  <2> QED
    BY <1>1, <1>2, <1>5, <2>1, <2>2, <2>3, <2>4 DEF Typed, ConnsTyped
<1>7. AtWork'
  BY <1>4, <1>5 DEF AtWork
<1>8. \A p \in Procs : client[p].conn # 0 => client[p].conn \in Conns
  BY <1>1, Parts DEF ClientSet
<1>9. Held' /\ OwnTraffic'
  <2>1. Held'
    BY <1>2, <1>4, <1>5, <1>8 DEF AgentInv, Held
  <2>2. ASSUME NEW p \in Procs, client[p].conn # 0 PROVE Own(client[p].call, conns'[client[p].conn])
    <3>1. Own(client[p].call, conns[client[p].conn])
      BY <2>2 DEF AgentInv, OwnTraffic
    <3> QED
      BY <1>4, <1>5, <1>8, <2>2, <3>1 DEF Own
  <2> QED
    BY <1>2, <2>1, <2>2 DEF OwnTraffic
<1>10. recorded' = floor'
  <2>1. CASE \E k \in Conns : conns[k].pc = "truncated"
    BY <1>2, <2>1 DEF Kill, AgentInv, Recorded, Ordered
  <2>2. CASE ~ \E k \in Conns : conns[k].pc = "truncated"
    <3>0. floor' = floor
      BY <2>2 DEF Kill
    <3>1. CASE flock = 0
      BY <1>2, <3>0, <3>1 DEF AgentInv, Recorded
    <3>2. CASE flock # 0
      <4>1. flock \in Conns
        BY <1>1, <3>2 DEF Typed
      <4>2. conns[flock].pc = "checked"
        BY <2>2, <3>2, <4>1 DEF AgentInv, Recorded
      <4> QED
        BY <1>2, <3>0, <4>1, <4>2 DEF AgentInv, Recorded, Ordered
    <3> QED
      BY <3>1, <3>2
  <2> QED
    BY <2>1, <2>2
<1>11. Recorded'
  BY <1>2, <1>4, <1>5, <1>10 DEF Recorded, Ordered
<1>12. \A k \in Conns, c \in Calls : ~ Carries(k, c)'
  BY <1>4, <1>5 DEF Carries
<1>13. \A c \in Calls : ~ RanNow(c)'
  <2>1. ASSUME NEW c \in Calls, NEW i \in DOMAIN runs[c] PROVE runs[c][i] # life + 1
    <3>1. runs[c] \in Seq(1 .. life) /\ DOMAIN runs[c] = 1 .. Len(runs[c])
      BY <1>1, Parts
    <3>2. runs[c][i] \in 1 .. life
      BY <3>1, ElementOfSeq
    <3> QED
      BY <1>1, <3>2
  <2> QED
    BY <1>2, <2>1 DEF RanNow
<1>14. Sendings'
  <2>1. Calls' = Calls
    BY <1>2 DEF Calls
  <2>2. ASSUME NEW c \in Calls PROVE SentOnce(c)' /\ RunOnce(c)'
    BY <1>2, <1>5, <1>12 DEF SentOnce, RunOnce, AgentInv, Sendings
  <2>3. ASSUME NEW p \in Procs, client[p].call # 0, client[p].reused PROVE MaySendAgain(p, client[p].call)'
    <3>1. client[p].call \in Calls /\ MaySendAgain(p, client[p].call) /\ client'[p].call = client[p].call
      BY <1>1, <1>2, <2>3, Parts DEF AgentInv, Sendings, ClientSet
    <3> QED
      BY <1>2, <1>5, <1>12, <1>13, <3>1 DEF MaySendAgain
  <2> QED
    BY <1>2, <2>1, <2>2, <2>3 DEF AgentInv, Sendings
<1> QED
  BY <1>6, <1>7, <1>9, <1>11, <1>14 DEF AgentInv

-----------------------------------------------------------------------------
(* The aggregator's steps. *)

\* They leave state.json, and what the handlers are doing, alone.
LEMMA CallerKeepsRecord ==
  ASSUME AgentInv, UNCHANGED <<recorded, floor, flock>>, Conns \subseteq Conns',
         \A j \in Conns : conns'[j].pc = conns[j].pc /\ conns'[j].call = conns[j].call /\ conns'[j].st = conns[j].st,
         \A j \in Conns' \ Conns : conns'[j].pc = "read",
         \A c \in Calls : calls'[c] = calls[c]
  PROVE  Recorded'
<1>1. /\ Conns = 1 .. Len(conns) /\ Len(conns) \in Nat /\ Calls = 1 .. Len(calls)
      /\ \A j \in Conns : conns[j] \in ConnSet(Len(calls))
  BY Parts DEF AgentInv
<1>2. flock # 0 => flock \in Conns
  BY <1>1 DEF AgentInv, Typed
<1>3. ASSUME NEW j \in Conns' PROVE Ordered(j)'
  <2>1. CASE j \in Conns /\ conns[j].pc \in {"admitted", "checked", "truncated"}
    <3>1. conns[j].call \in Calls
      BY <1>1, <2>1 DEF ConnSet, AgentInv, AtWork
    <3>2. Request(j)' = Request(j)
      BY <2>1, <3>1 DEF Request
    <3> QED
      BY <2>1, <3>2 DEF Ordered, AgentInv, Recorded, Blank
  <2>2. CASE j \in Conns /\ conns[j].pc \notin {"admitted", "checked", "truncated"}
    BY <2>2 DEF Ordered
  <2>3. CASE j \notin Conns
    BY <2>3 DEF Ordered
  <2> QED
    BY <2>1, <2>2, <2>3
<1> QED
  BY <1>2, <1>3 DEF AgentInv, Recorded

\* A process has its answer, or lets go of its connection.
LEMMA LetGoKeeps ==
  ASSUME AgentInv, NEW p \in Procs, client[p].conn # 0,
         NEW r \in ConnSet(Len(calls)), NEW d \in ClientSet(Len(calls), Len(conns)),
         conns' = [conns EXCEPT ![client[p].conn] = r], client' = [client EXCEPT ![p] = d],
         UNCHANGED <<calls, recorded, flock, floor, seen, runs, signed, life>>,
         r.server = conns[client[p].conn].server, r.inbox = conns[client[p].conn].inbox,
         r.call = conns[client[p].conn].call, r.pc = conns[client[p].conn].pc, r.st = conns[client[p].conn].st,
         d.call = 0, d.conn \in {0, client[p].conn}, d.conn # 0 => r.held /\ Own(0, r)
  PROVE  AgentInv'
<1> DEFINE k == client[p].conn
<1>1. /\ Typed /\ Conns = 1 .. Len(conns) /\ Len(conns) \in Nat /\ Len(calls) \in Nat
      /\ Calls = 1 .. Len(calls) /\ \A j \in Conns : conns[j] \in ConnSet(Len(calls))
      /\ \A q \in Procs : client[q] \in ClientSet(Len(calls), Len(conns))
  BY Parts DEF AgentInv
<1>2. \A q \in Procs : client[q].conn # 0 => client[q].conn \in Conns
  BY <1>1 DEF ClientSet
<1>3. k \in Conns
  BY <1>2
<1>4. Becomes(k, r)
  BY <1>1, <1>3, ConnBecomes
<1>5. Conns' = Conns /\ Calls' = Calls /\ \A j \in Conns : conns'[j] = IF j = k THEN r ELSE conns[j]
  BY <1>1, <1>4 DEF Becomes, Conns, Calls
<1>6. \A q \in Procs : client'[q] = IF q = p THEN d ELSE client[q]
  BY DEF AgentInv, Typed
<1>7. Typed'
  <2>1. client' \in [Procs -> ClientSet(Len(calls), Len(conns))]
    BY <1>1 DEF Typed
  <2> QED
    BY <1>1, <1>4, <2>1 DEF Typed, ConnsTyped, Becomes
<1>8. AtWork'
  BY <1>3, <1>5 DEF AgentInv, AtWork
<1>9. \A q \in Procs : q # p /\ client[q].conn # 0 => client[q].conn # k /\ conns'[client[q].conn] = conns[client[q].conn]
  BY <1>2, <1>5 DEF AgentInv, Held
<1>10. Held'
  <2>1. \A q \in Procs : client'[q].call # 0 => client'[q].conn # 0
    BY <1>6 DEF AgentInv, Held
  <2>2. \A q \in Procs : client'[q].conn # 0 => conns'[client'[q].conn].held
    BY <1>3, <1>5, <1>6, <1>9 DEF AgentInv, Held
  <2>3. \A q, s \in Procs : q # s /\ client'[q].conn # 0 => client'[q].conn # client'[s].conn
    BY <1>6 DEF AgentInv, Held
  <2> QED
    BY <2>1, <2>2, <2>3 DEF Held
<1>11. OwnTraffic'
  <2> SUFFICES ASSUME NEW q \in Procs, client'[q].conn # 0 PROVE Own(client'[q].call, conns'[client'[q].conn])
    BY DEF OwnTraffic
  <2>1. CASE q = p
    BY <1>3, <1>5, <1>6, <2>1
  <2>2. CASE q # p
    BY <1>6, <1>9, <2>2 DEF AgentInv, OwnTraffic
  <2> QED
    BY <2>1, <2>2
<1>12. Recorded'
  BY <1>3, <1>5, CallerKeepsRecord
<1>13. \A j \in Conns, c \in Calls : Carries(j, c)' <=> Carries(j, c)
  BY <1>3, <1>5 DEF Carries
<1>14. \A c \in Calls : SentOnce(c)' /\ RunOnce(c)'
  <2>1. \A c \in Calls : RanNow(c)' <=> RanNow(c)
    BY DEF RanNow
  <2> QED
    BY <1>5, <1>13, <2>1 DEF AgentInv, Sendings, SentOnce, RunOnce
<1>15. ASSUME NEW q \in Procs, client'[q].call # 0, client'[q].reused PROVE MaySendAgain(q, client[q].call)'
  <2>1. q # p /\ client'[q] = client[q] /\ client[q].conn # 0
    BY <1>6, <1>15 DEF AgentInv, Held
  <2> DEFINE e == client[q].call
  <2>2. e \in Calls /\ MaySendAgain(q, e)
    BY <1>1, <1>15, <2>1 DEF ClientSet, AgentInv, Sendings
  <2>3. e' = e
    BY <2>1
  <2>4. RanNow(e)' <=> RanNow(e)
    BY <2>3 DEF RanNow
  <2>5. \A j \in Conns : Carries(j, e)' <=> Carries(j, e)
    BY <1>13, <2>2, <2>3
  <2>6. MaySendAgain(q, e)'
    BY <1>5, <1>9, <2>1, <2>2, <2>3, <2>4, <2>5 DEF MaySendAgain
  <2> QED
    BY <2>6
<1>16. Sendings'
  BY <1>5, <1>6, <1>14, <1>15 DEF AgentInv, Sendings
<1> QED
  BY <1>7, <1>8, <1>10, <1>11, <1>12, <1>16 DEF AgentInv

\* What an answer read, and a connection dropped, leave of it.
LEMMA LetGoConn ==
  ASSUME NEW n \in Nat, NEW o \in ConnSet(n)
  PROVE  [o EXCEPT !.outbox = 0] \in ConnSet(n) /\ [o EXCEPT !.held = FALSE, !.outbox = 0] \in ConnSet(n)
<1>1. 0 \in 0 .. n
  OBVIOUS
<1>2. [o EXCEPT !.outbox = 0] \in ConnSet(n)
  BY <1>1 DEF ConnSet
<1>3. [o EXCEPT !.held = FALSE, !.outbox = 0] \in ConnSet(n)
  BY <1>1 DEF ConnSet
<1> QED
  BY <1>2, <1>3

\* The answer is read.
LEMMA AnswerKeeps == ASSUME AgentInv, NEW p \in Procs, Answer(p) PROVE AgentInv'
<1> DEFINE k == client[p].conn
<1> DEFINE r == [conns[k] EXCEPT !.outbox = 0]
<1> DEFINE d == [client[p] EXCEPT !.call = 0]
<1>1. /\ Len(conns) \in Nat /\ Len(calls) \in Nat /\ \A j \in 1 .. Len(conns) : conns[j] \in ConnSet(Len(calls))
      /\ client[p] \in ClientSet(Len(calls), Len(conns))
  BY Parts DEF AgentInv
<1>2. client[p].call # 0 /\ k # 0 /\ k \in 1 .. Len(conns) /\ conns[k].held /\ conns[k].outbox # 0
  BY <1>1 DEF Answer, AgentInv, Held, ClientSet
<1>3. r \in ConnSet(Len(calls))
  BY <1>1, <1>2, LetGoConn
<1>4. /\ r.server = conns[k].server /\ r.held = conns[k].held /\ r.inbox = conns[k].inbox /\ r.outbox = 0
      /\ r.pc = conns[k].pc /\ r.call = conns[k].call /\ r.st = conns[k].st
  BY <1>1, <1>2 DEF ConnSet
<1>5. d \in ClientSet(Len(calls), Len(conns)) /\ d.call = 0 /\ d.conn = k
  BY <1>1 DEF ClientSet
<1>6. Own(0, r)
  <2>1. Own(client[p].call, conns[k])
    BY <1>2 DEF AgentInv, OwnTraffic
  <2> HIDE DEF r
  <2> QED
    BY <1>2, <1>4, <2>1 DEF Own
<1>7. /\ conns' = [conns EXCEPT ![k] = r] /\ client' = [client EXCEPT ![p] = d]
      /\ UNCHANGED <<calls, recorded, flock, floor, seen, runs, signed, life>>
  BY DEF Answer
<1> HIDE DEF r, d
<1> QED
  BY <1>2, <1>3, <1>4, <1>5, <1>6, <1>7, LetGoKeeps

\* A connection is dropped, with the call or without.
LEMMA DropKeeps ==
  ASSUME AgentInv, NEW p \in Procs, client[p].conn # 0,
         conns' = Dropped(client[p].conn), client' = [client EXCEPT ![p] = NoCall],
         UNCHANGED <<calls, recorded, flock, floor, seen, runs, signed, life>>
  PROVE  AgentInv'
<1> DEFINE k == client[p].conn
<1> DEFINE r == [conns[k] EXCEPT !.held = FALSE, !.outbox = 0]
<1>1. /\ Len(conns) \in Nat /\ Len(calls) \in Nat /\ \A j \in 1 .. Len(conns) : conns[j] \in ConnSet(Len(calls))
      /\ client[p] \in ClientSet(Len(calls), Len(conns))
  BY Parts DEF AgentInv
<1>2. k \in 1 .. Len(conns)
  BY <1>1 DEF ClientSet
<1>3. r \in ConnSet(Len(calls))
  BY <1>1, <1>2, LetGoConn
<1>4. /\ r.server = conns[k].server /\ r.inbox = conns[k].inbox
      /\ r.pc = conns[k].pc /\ r.call = conns[k].call /\ r.st = conns[k].st
  BY <1>1, <1>2 DEF ConnSet
<1>5. NoCall \in ClientSet(Len(calls), Len(conns)) /\ NoCall.call = 0 /\ NoCall.conn = 0
  BY <1>1 DEF ClientSet, NoCall
<1> DEFINE d == NoCall
<1>6. /\ conns' = [conns EXCEPT ![k] = r] /\ client' = [client EXCEPT ![p] = d]
      /\ UNCHANGED <<calls, recorded, flock, floor, seen, runs, signed, life>>
  BY DEF Dropped
<1>7. d \in ClientSet(Len(calls), Len(conns)) /\ d.call = 0 /\ d.conn = 0
  BY <1>5
<1> HIDE DEF r, d
<1> QED
  BY <1>3, <1>4, <1>6, <1>7, LetGoKeeps

\* A call fails.
LEMMA RaiseKeeps == ASSUME AgentInv, NEW p \in Procs, Raise(p) PROVE AgentInv'
<1>1. client[p].conn # 0
  BY DEF Raise, AgentInv, Held
<1> QED
  BY <1>1, DropKeeps DEF Raise

\* A process ends.
LEMMA ExitKeeps == ASSUME AgentInv, NEW p \in Procs, Exit(p) PROVE AgentInv'
BY DropKeeps DEF Exit

\* A connection just opened.
LEMMA OpenedConn ==
  ASSUME NEW n \in Nat, NEW c \in 0 .. n
  PROVE  /\ Opened(c) \in ConnSet(n) /\ Own(c, Opened(c))
         /\ Opened(c).server /\ Opened(c).held /\ Opened(c).inbox = c /\ Opened(c).outbox = 0
         /\ Opened(c).pc = "read" /\ Opened(c).call = 0
<1>1. Blank \in Recs /\ "read" \in Pcs /\ 0 \in 0 .. n
  BY DEF Blank, Recs, Pcs
<1> QED
  BY <1>1 DEF Opened, ConnSet, Own

\* The request goes out once more, on a fresh connection: nothing has come of it,
\* and nothing will.
LEMMA ResendKeeps == ASSUME AgentInv, NEW p \in Procs, Resend(p) PROVE AgentInv'
<1> DEFINE k == client[p].conn
<1> DEFINE c == client[p].call
<1> DEFINE n == Len(conns) + 1
<1> DEFINE r == [conns[k] EXCEPT !.held = FALSE, !.outbox = 0]
<1> DEFINE d == [client[p] EXCEPT !.conn = n, !.reused = FALSE]
<1>1. /\ Typed /\ Conns = 1 .. Len(conns) /\ Len(conns) \in Nat /\ Len(calls) \in Nat
      /\ Calls = 1 .. Len(calls) /\ \A j \in Conns : conns[j] \in ConnSet(Len(calls))
      /\ \A q \in Procs : client[q] \in ClientSet(Len(calls), Len(conns))
  BY Parts DEF AgentInv
<1>2. /\ c # 0 /\ c \in Calls /\ client[p].reused /\ k \in Conns /\ ~conns[k].server /\ conns[k].outbox = 0
      /\ conns' = Append([conns EXCEPT ![k] = r], Opened(c)) /\ client' = [client EXCEPT ![p] = d]
      /\ UNCHANGED <<calls, recorded, flock, floor, seen, runs, signed, life>>
  <2>1. c # 0 /\ client[p].reused /\ ~conns[k].server /\ conns[k].outbox = 0
    BY DEF Resend
  <2>2. c \in Calls /\ k \in Conns
    <3>1. k # 0
      BY <2>1 DEF AgentInv, Held
    <3> QED
      BY <1>1, <2>1, <3>1 DEF ClientSet
  <2>3. conns' = Append([conns EXCEPT ![k] = r], Opened(c))
    BY DEF Resend, Dropped
  <2>4. client' = [client EXCEPT ![p] = d]
    <3>1. client' = [client EXCEPT ![p].conn = n, ![p].reused = FALSE]
      BY DEF Resend
    <3>2. client \in [Procs -> ClientSet(Len(calls), Len(conns))]
      BY <1>1 DEF Typed
    <3> HIDE DEF n
    <3> QED
      BY <3>1, <3>2
  <2> QED
    BY <2>1, <2>2, <2>3, <2>4 DEF Resend
<1>3. r \in ConnSet(Len(calls))
  BY <1>1, <1>2, LetGoConn
<1>4. /\ r.server = conns[k].server /\ r.inbox = conns[k].inbox
      /\ r.pc = conns[k].pc /\ r.call = conns[k].call /\ r.st = conns[k].st
  BY <1>1, <1>2 DEF ConnSet
<1>5. d \in ClientSet(Len(calls), n) /\ d.call = c /\ d.conn = n /\ ~d.reused
  <2>1. client[p] \in [call : 0 .. Len(calls), conn : 0 .. Len(conns), reused : BOOLEAN] /\ n \in 0 .. n
    BY <1>1 DEF ClientSet
  <2> HIDE DEF n
  <2> QED
    BY <2>1 DEF ClientSet
<1> HIDE DEF r, d
<1>6. /\ Opened(c) \in ConnSet(Len(calls)) /\ Own(c, Opened(c)) /\ Opened(c).server /\ Opened(c).held
      /\ Opened(c).inbox = c /\ Opened(c).outbox = 0 /\ Opened(c).pc = "read" /\ Opened(c).call = 0
  BY <1>1, <1>2, OpenedConn
<1>7. /\ conns' \in Seq(ConnSet(Len(calls))) /\ Len(conns') = n /\ Conns' = Conns \cup {n} /\ n \notin Conns
      /\ \A j \in Conns : conns'[j] = IF j = k THEN r ELSE conns[j]
      /\ conns'[n] = Opened(c)
  <2> DEFINE s == [conns EXCEPT ![k] = r]
  <2>1. conns \in Seq(ConnSet(Len(calls))) /\ k \in 1 .. Len(conns)
    BY <1>1, <1>2 DEF Typed, ConnsTyped
  <2>2. s \in Seq(ConnSet(Len(calls))) /\ Len(s) = Len(conns) /\ \A j \in 1 .. Len(conns) : s[j] = IF j = k THEN r ELSE conns[j]
    BY <1>3, <2>1, Replaced
  <2> HIDE DEF s
  <2>3. /\ conns' \in Seq(ConnSet(Len(calls))) /\ Len(conns') = Len(s) + 1 /\ conns'[Len(s) + 1] = Opened(c)
        /\ \A j \in 1 .. Len(s) : conns'[j] = s[j]
    <3>1. conns' = Append(s, Opened(c))
      BY <1>2 DEF s
    <3> QED
      BY <1>6, <2>2, <3>1, Longer
  <2>4. DOMAIN conns' = 1 .. n /\ 1 .. n = Conns \cup {n} /\ n \notin Conns
    BY <1>1, <2>2, <2>3, Places
  <2> QED
    BY <1>1, <2>2, <2>3, <2>4 DEF Conns
<1>8. Calls' = Calls /\ \A q \in Procs : client'[q] = IF q = p THEN d ELSE client[q]
  BY <1>2 DEF AgentInv, Typed, Calls
<1>9. \A q \in Procs : client[q].conn # 0 => client[q].conn \in Conns
  BY <1>1 DEF ClientSet
<1>10. \A q \in Procs : q # p /\ client[q].conn # 0 => client[q].conn # k /\ conns'[client[q].conn] = conns[client[q].conn]
  BY <1>2, <1>7, <1>9 DEF AgentInv, Held
<1>11. Typed'
  <2>1. ClientSet(Len(calls), Len(conns)) \subseteq ClientSet(Len(calls), n)
    BY <1>1 DEF ClientSet
  <2>2. client' \in [Procs -> ClientSet(Len(calls), n)]
    BY <1>2, <1>5, <2>1 DEF AgentInv, Typed
  <2>3. flock \in 0 .. n
    BY <1>1 DEF Typed
  <2> QED
    BY <1>1, <1>2, <1>7, <2>2, <2>3 DEF Typed, ConnsTyped
<1>12. AtWork'
  <2>1. ASSUME NEW j \in Conns
        PROVE  /\ conns'[j].server = conns[j].server /\ conns'[j].inbox = conns[j].inbox
               /\ conns'[j].pc = conns[j].pc /\ conns'[j].call = conns[j].call
    BY <1>2, <1>4, <1>7
  <2> QED
    BY <1>6, <1>7, <2>1 DEF AgentInv, AtWork
<1>13. Held'
  <2>1. \A q \in Procs : client'[q].call # 0 => client'[q].conn # 0
    BY <1>1, <1>5, <1>8 DEF AgentInv, Held
  <2>2. \A q \in Procs : client'[q].conn # 0 => conns'[client'[q].conn].held
    BY <1>5, <1>6, <1>7, <1>8, <1>10 DEF AgentInv, Held
  <2>3. \A q, s \in Procs : q # s /\ client'[q].conn # 0 => client'[q].conn # client'[s].conn
    BY <1>1, <1>5, <1>7, <1>8, <1>9 DEF AgentInv, Held
  <2> QED
    BY <2>1, <2>2, <2>3 DEF Held
<1>14. OwnTraffic'
  <2> SUFFICES ASSUME NEW q \in Procs, client'[q].conn # 0 PROVE Own(client'[q].call, conns'[client'[q].conn])
    BY DEF OwnTraffic
  <2>1. CASE q = p
    BY <1>5, <1>6, <1>7, <1>8, <2>1
  <2>2. CASE q # p
    BY <1>8, <1>10, <2>2 DEF AgentInv, OwnTraffic
  <2> QED
    BY <2>1, <2>2
<1>15. Recorded'
  BY <1>2, <1>4, <1>6, <1>7, CallerKeepsRecord
<1>16. MaySendAgain(p, c)
  BY <1>2 DEF AgentInv, Sendings
<1>17. \A j \in Conns : ~ Carries(j, c)
  BY <1>2, <1>16 DEF MaySendAgain, Carries
<1>18. ~ RanNow(c) /\ Len(runs[c]) <= 1
  BY <1>1, <1>2, <1>16 DEF MaySendAgain
<1>19. \A e \in Calls, j \in Conns' : Carries(j, e)' => (j \in Conns /\ Carries(j, e)) \/ (j = n /\ e = c)
  <2>1. ASSUME NEW e \in Calls, NEW j \in Conns, Carries(j, e)' PROVE Carries(j, e)
    BY <1>2, <1>4, <1>7, <2>1 DEF Carries
  <2>2. ASSUME NEW e \in Calls, NEW j, j = n, Carries(j, e)' PROVE e = c
    BY <1>1, <1>6, <1>7, <2>2 DEF Carries
  <2> QED
    BY <1>7, <2>1, <2>2
<1>20. ASSUME NEW e \in Calls PROVE SentOnce(e)' /\ RunOnce(e)' /\ (RanNow(e)' <=> RanNow(e))
  <2>1. RanNow(e)' <=> RanNow(e)
    BY <1>2 DEF RanNow
  <2>2. SentOnce(e) /\ RunOnce(e)
    BY DEF AgentInv, Sendings
  <2>3. SentOnce(e)'
    <3>1. CASE e = c
      BY <1>2, <1>17, <1>18, <1>19, <2>1, <3>1 DEF SentOnce
    <3>2. CASE e # c
      BY <1>2, <1>19, <2>1, <2>2, <3>2 DEF SentOnce
    <3> QED
      BY <3>1, <3>2
  <2> QED
    BY <1>2, <2>1, <2>2, <2>3 DEF RunOnce
<1>21. ASSUME NEW q \in Procs, client'[q].call # 0, client'[q].reused PROVE MaySendAgain(q, client[q].call)'
  <2>1. q # p /\ client'[q] = client[q] /\ client[q].conn # 0 /\ client[q].call # c
    BY <1>2, <1>5, <1>8, <1>21 DEF AgentInv, Held, Sendings
  <2> DEFINE e == client[q].call
  <2>2. e \in Calls /\ MaySendAgain(q, e)
    BY <1>1, <1>21, <2>1 DEF ClientSet, AgentInv, Sendings
  <2>3. e' = e
    BY <2>1
  <2>4. RanNow(e)' <=> RanNow(e)
    BY <1>2, <2>3 DEF RanNow
  <2>5. \A j \in Conns' : Carries(j, e)' => j \in Conns /\ Carries(j, e)
    BY <1>19, <2>1, <2>2, <2>3
  <2>6. conns'[client[q].conn] = conns[client[q].conn]
    BY <1>10, <2>1
  <2> QED
    BY <1>2, <2>1, <2>2, <2>3, <2>4, <2>5, <2>6 DEF MaySendAgain
<1>22. Sendings'
  <2>1. \A q, s \in Procs : client'[q].call # 0 /\ client'[q].call = client'[s].call => q = s
    BY <1>5, <1>8 DEF AgentInv, Sendings
  <2> QED
    BY <1>8, <1>20, <1>21, <2>1 DEF Sendings
<1> QED
  BY <1>11, <1>12, <1>13, <1>14, <1>15, <1>22 DEF AgentInv

\* A new request goes out on one connection of its process, kept or new, on which
\* there is nothing else.
SentOn(p, m, d, c) ==
  /\ conns' \in Seq(ConnSet(c)) /\ Conns' = Conns \cup {m} /\ m \in Nat \ {0} /\ Len(conns') >= Len(conns)
  /\ \A j \in Conns \ {m} : conns'[j] = conns[j]
  /\ conns'[m].held /\ conns'[m].outbox = 0 /\ conns'[m].call = 0 /\ conns'[m].inbox \in {0, c}
  /\ IF conns'[m].server THEN conns'[m].pc = "read" ELSE conns'[m].pc = "closed"
  /\ m \in Conns => conns[m].call = 0 /\ conns[m].pc = conns'[m].pc /\ conns[m].st = conns'[m].st
  /\ m \notin Conns => conns'[m].pc = "read"
  /\ d \in ClientSet(c, Len(conns')) /\ d.call = c /\ d.conn = m
  /\ \A q \in Procs \ {p} : client[q].conn # m
LEMMA SentKeeps ==
  ASSUME AgentInv, NEW p \in Procs, NEW m, NEW d, NEW c, c = Len(calls) + 1, SentOn(p, m, d, c),
         NEW q \in RequestSet, calls' = Append(calls, q), client' = [client EXCEPT ![p] = d],
         runs' = Append(runs, <<>>), UNCHANGED <<recorded, flock, floor, seen, signed, life>>
  PROVE  AgentInv'
<1>1. /\ Typed /\ Conns = 1 .. Len(conns) /\ Len(conns) \in Nat /\ Len(calls) \in Nat
      /\ Calls = 1 .. Len(calls) /\ \A j \in Conns : conns[j] \in ConnSet(Len(calls))
      /\ \A s \in Procs : client[s] \in ClientSet(Len(calls), Len(conns))
  BY Parts DEF AgentInv
<1>2. /\ calls' \in Seq(RequestSet) /\ Len(calls') = c /\ Calls' = Calls \cup {c} /\ c \notin Calls /\ c # 0
      /\ \A e \in Calls : calls'[e] = calls[e]
  <2>1. calls' \in Seq(RequestSet) /\ Len(calls') = Len(calls) + 1 /\ \A e \in 1 .. Len(calls) : calls'[e] = calls[e]
    BY <1>1, Longer DEF Typed
  <2>2. Calls' = 1 .. c
    BY <2>1, Places DEF Calls
  <2> QED
    BY <1>1, <2>1, <2>2
<1>3. /\ runs' \in Seq(Seq(1 .. life)) /\ Len(runs') = c /\ runs'[c] = <<>> /\ \A e \in Calls : runs'[e] = runs[e]
  <2>1. runs \in Seq(Seq(1 .. life)) /\ Len(runs) = Len(calls) /\ <<>> \in Seq(1 .. life)
    BY <1>1, EmptySeq DEF Typed
  <2> QED
    BY <1>1, <2>1, Longer
<1>4. \A s \in Procs : client'[s] = IF s = p THEN d ELSE client[s]
  BY <1>1 DEF Typed
<1>5. Typed'
  <2>1. Len(conns') \in Nat
    BY Places DEF SentOn
  <2>2. ClientSet(Len(calls), Len(conns)) \subseteq ClientSet(c, Len(conns'))
    BY <1>1, <2>1 DEF SentOn, ClientSet
  <2>3. client' \in [Procs -> ClientSet(c, Len(conns'))]
    BY <1>1, <2>2 DEF SentOn, Typed
  <2>4. flock \in 0 .. Len(conns')
    BY <1>1, <2>1 DEF SentOn, Typed
  <2> QED
    BY <1>1, <1>2, <1>3, <2>3, <2>4 DEF SentOn, Typed, ConnsTyped
<1>6. AtWork'
  BY DEF SentOn, AgentInv, AtWork
<1>7. \A s \in Procs \ {p} : client[s].conn # 0 => client[s].conn \in Conns \ {m} /\ conns'[client[s].conn] = conns[client[s].conn]
  BY <1>1 DEF SentOn, ClientSet
<1>8. Held'
  BY <1>4, <1>7 DEF SentOn, AgentInv, Held
<1>9. OwnTraffic'
  <2> SUFFICES ASSUME NEW s \in Procs, client'[s].conn # 0 PROVE Own(client'[s].call, conns'[client'[s].conn])
    BY DEF OwnTraffic
  <2>1. CASE s = p
    BY <1>4, <2>1 DEF SentOn, Own
  <2>2. CASE s # p
    BY <1>4, <1>7, <2>2 DEF AgentInv, OwnTraffic
  <2> QED
    BY <2>1, <2>2
<1>10. Recorded'
  BY <1>2, CallerKeepsRecord DEF SentOn
<1>11. \A e \in Calls, j \in Conns' : Carries(j, e)' => j \in Conns /\ Carries(j, e)
  BY <1>1, <1>2 DEF SentOn, Carries
<1>12. ASSUME NEW e \in Calls PROVE SentOnce(e)' /\ RunOnce(e)' /\ (RanNow(e)' <=> RanNow(e))
  <2>1. RanNow(e)' <=> RanNow(e)
    BY <1>3 DEF RanNow
  <2>2. SentOnce(e) /\ RunOnce(e)
    BY DEF AgentInv, Sendings
  <2> QED
    BY <1>3, <1>11, <2>1, <2>2 DEF SentOnce, RunOnce
<1>13. \A j \in Conns' : Carries(j, c)' => j = m
  <2>1. ASSUME NEW j \in Conns, j # m PROVE conns[j].inbox # c /\ conns[j].call # c
    BY <1>1, <2>1 DEF ConnSet
  <2> QED
    BY <2>1 DEF SentOn, Carries
<1>14. Len(runs'[c]) <= 2 /\ Len(runs'[c]) <= 1 /\ \A i \in DOMAIN runs'[c] : FALSE
  <2>1. runs'[c] \in Seq(Nat) /\ Len(runs'[c]) = 0
    BY <1>3, EmptySeq
  <2>2. DOMAIN runs'[c] = 1 .. Len(runs'[c])
    BY <2>1, Places
  <2>3. DOMAIN runs'[c] = 1 .. 0
    BY <2>1, <2>2
  <2> DEFINE len == Len(runs'[c])
  <2>4. len = 0
    BY <2>1
  <2>5. len <= 2 /\ len <= 1
    <3> HIDE DEF len
    <3> QED
      BY <2>4
  <2>6. \A i \in 1 .. 0 : FALSE
    OBVIOUS
  <2> QED
    BY <2>3, <2>5, <2>6
<1>17. SentOnce(c)' /\ RunOnce(c)'
  <2>1. SentOnce(c)'
    BY <1>13, <1>14 DEF SentOnce, RanNow
  <2>2. RunOnce(c)'
    BY <1>14 DEF RunOnce
  <2> QED
    BY <2>1, <2>2
<1>15. ASSUME NEW s \in Procs, client'[s].call # 0, client'[s].reused PROVE MaySendAgain(s, client[s].call)'
  <2>1. CASE s = p
    <3>1. client'[s].call = c /\ client'[s].conn = m
      BY <1>4, <2>1 DEF SentOn
    <3> QED
      BY <1>3, <1>13, <1>14, <3>1 DEF MaySendAgain, RanNow
  <2>2. CASE s # p
    <3> DEFINE e == client[s].call
    <3>1. client'[s] = client[s] /\ e # 0 /\ client[s].conn # 0 /\ client[s].reused
      BY <1>4, <1>15, <2>2 DEF AgentInv, Held
    <3>2. e \in Calls /\ MaySendAgain(s, e)
      BY <1>1, <3>1 DEF ClientSet, AgentInv, Sendings
    <3>3. e' = e
      BY <3>1
    <3>4. RanNow(e)' <=> RanNow(e)
      BY <1>3, <3>2, <3>3 DEF RanNow
    <3>5. \A j \in Conns' : Carries(j, e)' => j \in Conns /\ Carries(j, e)
      BY <1>11, <3>2, <3>3
    <3>6. conns'[client[s].conn] = conns[client[s].conn]
      BY <1>7, <2>2, <3>1
    <3> QED
      BY <1>3, <3>1, <3>2, <3>3, <3>4, <3>5, <3>6 DEF MaySendAgain
  <2> QED
    BY <2>1, <2>2
<1>16. Sendings'
  <2>1. \A s \in Procs : client[s].call # c
    BY <1>1 DEF ClientSet
  <2>2. \A s, t \in Procs : client'[s].call # 0 /\ client'[s].call = client'[t].call => s = t
    BY <1>4, <2>1 DEF AgentInv, Sendings, SentOn
  <2> QED
    BY <1>2, <1>12, <1>15, <1>17, <2>2 DEF Sendings
<1> QED
  BY <1>5, <1>6, <1>8, <1>9, <1>10, <1>16 DEF AgentInv

\* A call is sent on the kept connection, or on a new one.
LEMMA CallKeeps == ASSUME AgentInv, NEW p \in Procs, Call(p) PROVE AgentInv'
<1> DEFINE k == client[p].conn
<1> DEFINE c == Len(calls) + 1
<1>1. /\ Typed /\ Conns = 1 .. Len(conns) /\ Len(conns) \in Nat /\ Len(calls) \in Nat /\ c \in Nat
      /\ \A j \in Conns : conns[j] \in ConnSet(Len(calls))
      /\ \A s \in Procs : client[s] \in ClientSet(Len(calls), Len(conns))
  BY Parts DEF AgentInv
<1>2. /\ client[p].call = 0 /\ runs' = Append(runs, <<>>)
      /\ UNCHANGED <<recorded, flock, floor, seen, signed, life>>
  BY DEF Call
<1>3. PICK q \in RequestSet : calls' = Append(calls, q)
  <2>1. PICK ph \in Phases \cup {Unordered}, s \in Seqs : calls' = Append(calls, [phase |-> ph, seq |-> s])
    BY DEF Call
  <2> QED
    BY <2>1 DEF RequestSet
<1>4. /\ ConnSet(Len(calls)) \subseteq ConnSet(c) /\ conns \in Seq(ConnSet(c))
  <2>1. 0 .. Len(calls) \subseteq 0 .. c
    BY <1>1
  <2>2. ConnSet(Len(calls)) \subseteq ConnSet(c)
    <3> HIDE DEF c
    <3> QED
      BY <2>1 DEF ConnSet
  <2> QED
    BY <1>1, <2>2, SeqMonotonic DEF Typed, ConnsTyped
<1>5. \A s \in Procs : client[s].conn # 0 => client[s].conn \in Conns
  BY <1>1 DEF ClientSet
<1>6. CASE k # 0
  <2> DEFINE d == [call |-> c, conn |-> k, reused |-> TRUE]
  <2>1. /\ k \in Conns /\ conns[k].held /\ Own(0, conns[k]) /\ conns[k] \in ConnSet(c)
    BY <1>1, <1>2, <1>4, <1>5, <1>6 DEF AgentInv, Held, OwnTraffic
  <2>2. /\ conns[k].inbox = 0 /\ conns[k].call = 0 /\ conns[k].outbox = 0
        /\ conns[k].pc \in {"read", "closed"} /\ (conns[k].server <=> conns[k].pc # "closed")
    BY <2>1 DEF Own, AgentInv, AtWork
  <2>3. conns' = Sent(k, c) /\ client' = [client EXCEPT ![p] = d]
    BY <1>6 DEF Call
  <2>4. /\ conns' \in Seq(ConnSet(c)) /\ Len(conns') = Len(conns)
        /\ \A j \in Conns : j # k => conns'[j] = conns[j]
        /\ conns'[k].held /\ conns'[k].outbox = 0 /\ conns'[k].call = 0 /\ conns'[k].inbox \in {0, c}
        /\ conns'[k].server = conns[k].server /\ conns'[k].pc = conns[k].pc /\ conns'[k].st = conns[k].st
    <3>1. CASE conns[k].server
      <4> DEFINE r == [conns[k] EXCEPT !.inbox = c]
      <4>1. r \in ConnSet(c)
        <5>1. c \in 0 .. c
          BY <1>1
        <5> HIDE DEF c
        <5> QED
          BY <2>1, <5>1 DEF ConnSet
      <4>2. /\ r.held /\ r.outbox = 0 /\ r.call = 0 /\ r.inbox = c
            /\ r.server = conns[k].server /\ r.pc = conns[k].pc /\ r.st = conns[k].st
        BY <2>1, <2>2 DEF ConnSet
      <4>3. conns' = [conns EXCEPT ![k] = r]
        BY <2>3, <3>1 DEF Sent
      <4> HIDE DEF r, c
      <4>4. conns' \in Seq(ConnSet(c)) /\ Len(conns') = Len(conns) /\ \A j \in 1 .. Len(conns) : conns'[j] = IF j = k THEN r ELSE conns[j]
        BY <1>1, <1>4, <2>1, <4>1, <4>3, Replaced
      <4> QED
        BY <1>1, <2>1, <4>2, <4>4
    <3>2. CASE ~conns[k].server
      BY <1>4, <2>1, <2>2, <2>3, <3>2 DEF Sent
    <3> QED
      BY <3>1, <3>2
  <2>5. Conns' = Conns
    BY <1>1, <2>4, Places DEF Conns
  <2>6. d \in ClientSet(c, Len(conns')) /\ d.call = c /\ d.conn = k
    BY <1>1, <2>1, <2>4 DEF ClientSet
  <2>7. \A s \in Procs \ {p} : client[s].conn # k
    BY <1>6 DEF AgentInv, Held
  <2> HIDE DEF d
  <2>8. SentOn(p, k, d, c)
    <3>1. k \in Nat \ {0} /\ Conns' = Conns \cup {k} /\ Len(conns') >= Len(conns)
      BY <1>1, <2>1, <2>4, <2>5
    <3> HIDE DEF c
    <3> QED
      BY <2>1, <2>2, <2>4, <2>6, <2>7, <3>1 DEF SentOn
  <2> QED
    <3>1. c = Len(calls) + 1
      OBVIOUS
    <3> HIDE DEF c, k
    <3> QED
      BY <1>2, <1>3, <2>3, <2>8, <3>1, SentKeeps
<1>7. CASE k = 0
  <2> DEFINE m == Len(conns) + 1
  <2> DEFINE d == [call |-> c, conn |-> m, reused |-> FALSE]
  <2>1. conns' = Append(conns, Opened(c)) /\ client' = [client EXCEPT ![p] = d]
    BY <1>7 DEF Call
  <2>2. /\ Opened(c) \in ConnSet(c) /\ Opened(c).server /\ Opened(c).held /\ Opened(c).inbox = c
        /\ Opened(c).outbox = 0 /\ Opened(c).pc = "read" /\ Opened(c).call = 0
    BY <1>1, OpenedConn
  <2>3. /\ conns' \in Seq(ConnSet(c)) /\ Len(conns') = m /\ conns'[m] = Opened(c)
        /\ \A j \in 1 .. Len(conns) : conns'[j] = conns[j]
    <3> HIDE DEF c
    <3> QED
      BY <1>4, <2>1, <2>2, Longer
  <2>4. Conns' = Conns \cup {m} /\ m \in Nat \ {0} /\ m \notin Conns /\ Len(conns') >= Len(conns)
    <3>1. Conns' = 1 .. m
      BY <2>3, Places DEF Conns
    <3> QED
      BY <1>1, <2>3, <3>1
  <2>5. d \in ClientSet(c, Len(conns')) /\ d.call = c /\ d.conn = m
    <3>1. c \in 0 .. c /\ m \in 0 .. Len(conns')
      BY <1>1, <2>3
    <3> HIDE DEF c, m
    <3> QED
      BY <3>1 DEF ClientSet
  <2>6. \A s \in Procs \ {p} : client[s].conn # m
    BY <1>1, <1>5, <2>4
  <2> HIDE DEF d, m
  <2>7. SentOn(p, m, d, c)
    <3> HIDE DEF c
    <3> QED
      BY <1>1, <2>2, <2>3, <2>4, <2>5, <2>6 DEF SentOn
  <2> QED
    <3>1. c = Len(calls) + 1
      OBVIOUS
    <3> HIDE DEF c
    <3> QED
      BY <1>2, <1>3, <2>1, <2>7, <3>1, SentKeeps
<1> QED
  BY <1>6, <1>7

-----------------------------------------------------------------------------
(* The theorems. *)

\* At the beginning nothing is sent.
LEMMA InitInv == ASSUME Init PROVE AgentInv
<1>1. /\ calls = <<>> /\ conns = <<>> /\ seen = <<>> /\ runs = <<>> /\ Len(calls) = 0 /\ Len(conns) = 0
      /\ calls \in Seq(RequestSet) /\ conns \in Seq(ConnSet(0)) /\ seen \in Seq(Nat) /\ runs \in Seq(Seq(1 .. 1))
  BY EmptySeq DEF Init
<1>2. Conns = {} /\ Calls = {}
  BY <1>1 DEF Conns, Calls
<1>3. client = [p \in Procs |-> NoCall] /\ NoCall \in ClientSet(0, 0) /\ NoCall.call = 0 /\ NoCall.conn = 0
  BY DEF Init, NoCall, ClientSet
<1>4. Blank \in Recs /\ recorded = Blank /\ floor = Blank /\ signed = Blank /\ flock = 0 /\ life = 1
  BY DEF Init, Blank, Recs
<1>5. Typed
  <2>1. life \in 1 .. MaxKills + 1 /\ Len(seen) <= NonceCap
    BY <1>1, <1>4, AgentAssumption
  <2> QED
    BY <1>1, <1>3, <1>4, <2>1 DEF Typed, ConnsTyped
<1>6. AtWork /\ Recorded
  BY <1>2, <1>4 DEF AtWork, Recorded
<1>7. Held /\ OwnTraffic /\ Sendings
  BY <1>2, <1>3 DEF Held, OwnTraffic, Sendings
<1> QED
  BY <1>5, <1>6, <1>7 DEF AgentInv

\* Every step keeps the invariant.
LEMMA StepKeeps == ASSUME AgentInv, [Next]_vars PROVE AgentInv'
<1>1. ASSUME NEW p \in Procs, Call(p) \/ Answer(p) \/ Resend(p) \/ Raise(p) \/ Exit(p) PROVE AgentInv'
  BY <1>1, CallKeeps, AnswerKeeps, ResendKeeps, RaiseKeeps, ExitKeeps
<1>2. ASSUME NEW k \in Conns,
             HangUp(k) \/ Authenticate(k) \/ CheckSeq(k) \/ Truncate(k) \/ WriteSeq(k) \/ Run(k) \/ Respond(k)
      PROVE  AgentInv'
  BY <1>2, HangUpKeeps, AuthenticateKeeps, CheckSeqKeeps, TruncateKeeps, WriteSeqKeeps, RunKeeps, RespondKeeps
<1>3. ASSUME Kill PROVE AgentInv'
  BY <1>3, KillKeeps
<1>4. ASSUME UNCHANGED vars PROVE AgentInv'
  <2> USE <1>4 DEF vars
  <2>1. Typed' /\ AtWork'
    BY DEF AgentInv, Typed, ConnsTyped, AtWork, Conns
  <2>2. Held' /\ OwnTraffic'
    BY DEF AgentInv, Held, OwnTraffic
  <2>3. Recorded'
    BY DEF AgentInv, Recorded, Ordered, Request, Conns
  <2>4. Sendings'
    BY DEF AgentInv, Sendings, SentOnce, RunOnce, MaySendAgain, Carries, RanNow, Conns, Calls
  <2> QED
    BY <2>1, <2>2, <2>3, <2>4 DEF AgentInv
<1> QED
  BY <1>1, <1>2, <1>3, <1>4 DEF Next

\* The inductive invariant.
THEOREM AgentAlways == Spec => []AgentInv
<1>1. Init => AgentInv
  BY InitInv
<1>2. AgentInv /\ [Next]_vars => AgentInv'
  BY StepKeeps
<1> QED
  BY <1>1, <1>2, PTL DEF Spec

\* Types, and how the parts belong together: a thread is at work on a request
\* exactly while it is not reading, the lock on state.json is its holder's, two
\* processes share no connection and a process waits on one that it holds.
THEOREM AgentTypes == Spec => []AgentTypeOK
<1>1. AgentInv => AgentTypeOK
  <2> SUFFICES ASSUME AgentInv PROVE AgentTypeOK
    OBVIOUS
  <2>1. /\ Typed /\ Conns = 1 .. Len(conns) /\ Len(conns) \in Nat /\ \A k \in Conns : conns[k] \in ConnSet(Len(calls))
        /\ Calls = 1 .. Len(calls) /\ \A p \in Procs : client[p] \in ClientSet(Len(calls), Len(conns))
    BY Parts DEF AgentInv
  <2>2. ASSUME NEW k \in Conns PROVE ConnOK(k)
    <3>1. conns[k] \in [server : BOOLEAN, held : BOOLEAN, inbox : 0 .. Len(calls), outbox : 0 .. Len(calls),
                        pc : {"read", "admitted", "checked", "truncated", "queued", "ran", "closed"},
                        call : 0 .. Len(calls), st : [Phases -> {0} \cup Seqs]]
      BY <2>1 DEF ConnSet, Pcs, Recs
    <3>2. k # 0
      BY <2>1
    <3> QED
      BY <3>1, <3>2 DEF ConnOK, AgentInv, AtWork, Held, Recorded
  <2>3. runs \in [Calls -> Seq(1 .. life)]
    BY <2>1, Places DEF Typed
  <2>4. calls \in Seq([phase : Phases \cup {Unordered}, seq : Seqs])
    BY <2>1 DEF Typed, RequestSet
  <2>5. client \in [Procs -> [call : 0 .. Len(calls), conn : 0 .. Len(conns), reused : BOOLEAN]]
    BY <2>1 DEF Typed, ClientSet
  <2> QED
    BY <2>1, <2>2, <2>3, <2>4, <2>5 DEF AgentTypeOK, AgentInv, Held, Typed, Recs
<1> QED
  BY <1>1, AgentAlways, PTL

\* What call() returns is the answer to this call, never that of an earlier request.
THEOREM AnswersStayOwn == Spec => []AnswerIsOwn
<1>1. AgentInv => AnswerIsOwn
  BY DEF AgentInv, Held, OwnTraffic, Own, AnswerIsOwn
<1> QED
  BY <1>1, AgentAlways, PTL

\* Between two handlers' turns state.json says the highest seq admitted in every
\* phase since a kill last emptied it.
THEOREM RecordStaysTrue == Spec => []RecordCoversAdmitted
<1>1. AgentInv => RecordCoversAdmitted
  BY DEF AgentInv, Recorded, RecordCoversAdmitted
<1> QED
  BY <1>1, AgentAlways, PTL

\* A request runs its script once in a life of the service at most, and twice at all.
THEOREM RunsStayBounded == Spec => []RunsBounded
<1>1. AgentInv => RunsBounded
  BY DEF AgentInv, Sendings, RunOnce, RunsBounded
<1> QED
  BY <1>1, AgentAlways, PTL

=============================================================================
