------------------------------- MODULE HostAgent -------------------------------
(***************************************************************************)
(* The service on every role host (hosts/agentd.py) and the aggregator's   *)
(* side of it (hosts/rpc.py): signed requests over kept TCP connections, a *)
(* thread per connection at the host, a cache of the nonces seen, and a    *)
(* file with the last sequence number admitted in each phase.  Aggregator  *)
(* processes come and go; calls time out while the host still works on     *)
(* them; connections are closed while idle; the service is killed and      *)
(* started again.                                                          *)
(***************************************************************************)
EXTENDS Naturals, Sequences, FiniteSets

CONSTANTS
  Procs,     \* aggregator processes: each has its own connections
  Phases,    \* phases with a monotonic sequence: commit, reveal, failure
  Unordered, \* the operations without one (finalize, pending)
  Seqs,      \* sequence numbers asked for
  NonceCap,  \* nonces remembered (4096)
  MaxCalls, MaxConns, MaxKills   \* bounds

ASSUME AgentAssumption ==
  /\ Seqs \subseteq Nat \ {0} /\ NonceCap \in Nat \ {0}
  /\ Unordered \notin Phases
  /\ MaxCalls \in Nat /\ MaxConns \in Nat /\ MaxKills \in Nat

VARIABLES
  calls,     \* the requests signed so far; a request's place stands for its nonce
  client,    \* each process: the call it waits for, its kept connection
  conns,     \* the connections opened so far: their two ends and the handler
  recorded,  \* state.json: the last seq admitted in each phase
  flock,     \* the connection whose handler holds the lock on it, or 0
  floor,     \* the highest seq admitted in each phase while the file was whole
  seen,      \* the nonces remembered, oldest first
  runs,      \* for each request the lives of the service in which its script ran
  signed,    \* the seq of the last script run in each phase
  life       \* how often the service was started

vars == <<calls, client, conns, recorded, flock, floor, seen, runs, signed, life>>

Calls == 1 .. Len(calls)
Conns == 1 .. Len(conns)
Blank == [ph \in Phases |-> 0]
NoCall == [call |-> 0, conn |-> 0, reused |-> FALSE]

Init ==
  /\ calls = <<>> /\ client = [p \in Procs |-> NoCall] /\ conns = <<>>
  /\ recorded = Blank /\ flock = 0 /\ floor = Blank /\ seen = <<>>
  /\ runs = <<>> /\ signed = Blank /\ life = 1

-----------------------------------------------------------------------------
(* The aggregator. *)
\* A connection with a request on it, and what sending it on a kept one does: a
\* connection the service has closed takes the bytes and drops them.
Opened(c) == [server |-> TRUE, held |-> TRUE, inbox |-> c, outbox |-> 0, pc |-> "read", call |-> 0, st |-> Blank]
Sent(k, c) == IF conns[k].server THEN [conns EXCEPT ![k].inbox = c] ELSE conns

\* rpc.call up to the wait for the response: sign, take the kept connection or
\* open one, send.
Call(p) ==
  /\ client[p].call = 0 /\ Len(calls) < MaxCalls
  /\ \E ph \in Phases \cup {Unordered}, s \in Seqs : calls' = Append(calls, [phase |-> ph, seq |-> s])
  /\ LET c == Len(calls) + 1  k == client[p].conn IN
       IF k # 0
       THEN /\ conns' = Sent(k, c)
            /\ client' = [client EXCEPT ![p] = [call |-> c, conn |-> k, reused |-> TRUE]]
       ELSE /\ Len(conns) < MaxConns
            /\ conns' = Append(conns, Opened(c))
            /\ client' = [client EXCEPT ![p] = [call |-> c, conn |-> Len(conns) + 1, reused |-> FALSE]]
  /\ runs' = Append(runs, <<>>)
  /\ UNCHANGED <<recorded, flock, floor, seen, signed, life>>

\* A response, of a call that was run or refused: the connection is kept.
Answer(p) ==
  LET k == client[p].conn IN
  /\ client[p].call # 0 /\ conns[k].outbox # 0
  /\ conns' = [conns EXCEPT ![k].outbox = 0]
  /\ client' = [client EXCEPT ![p].call = 0]
  /\ UNCHANGED <<calls, recorded, flock, floor, seen, runs, signed, life>>

Dropped(k) == [conns EXCEPT ![k].held = FALSE, ![k].outbox = 0]
\* End of file before the first byte, on a kept connection: the same request is
\* sent once more, on a fresh connection.
Resend(p) ==
  LET k == client[p].conn IN
  /\ client[p].call # 0 /\ client[p].reused
  /\ ~conns[k].server /\ conns[k].outbox = 0
  /\ Len(conns) < MaxConns
  /\ conns' = Append(Dropped(k), Opened(client[p].call))
  /\ client' = [client EXCEPT ![p].conn = Len(conns) + 1, ![p].reused = FALSE]
  /\ UNCHANGED <<calls, recorded, flock, floor, seen, runs, signed, life>>

\* Mutant: a call that timed out leaves the connection in the cache.
RaiseAndKeep(p) ==
  /\ client[p].call # 0
  /\ client' = [client EXCEPT ![p].call = 0]
  /\ UNCHANGED <<calls, conns, recorded, flock, floor, seen, runs, signed, life>>
\* Mutant: a call that timed out is sent again too.
RaiseOrRetry(p) ==
  /\ client[p].call # 0 /\ Len(conns) < MaxConns
  /\ conns' = Append(Dropped(client[p].conn), Opened(client[p].call))
  /\ client' = [client EXCEPT ![p].conn = Len(conns) + 1, ![p].reused = FALSE]
  /\ UNCHANGED <<calls, recorded, flock, floor, seen, runs, signed, life>>
\* Mutant: a call that timed out closes the connection it leaves in the cache.
RaiseAndForget(p) ==
  /\ client[p].call # 0
  /\ conns' = Dropped(client[p].conn)
  /\ client' = [client EXCEPT ![p].call = 0]
  /\ UNCHANGED <<calls, recorded, flock, floor, seen, runs, signed, life>>
\* The timeout, a reset, end of file on a fresh connection or no connection for
\* the second attempt: the connection is dropped and the caller told.
Raise(p) ==
  /\ client[p].call # 0
  /\ conns' = Dropped(client[p].conn)
  /\ client' = [client EXCEPT ![p] = NoCall]
  /\ UNCHANGED <<calls, recorded, flock, floor, seen, runs, signed, life>>

\* The process ends: its connection goes with it.
Exit(p) ==
  /\ client[p].call = 0 /\ client[p].conn # 0
  /\ conns' = Dropped(client[p].conn)
  /\ client' = [client EXCEPT ![p] = NoCall]
  /\ UNCHANGED <<calls, recorded, flock, floor, seen, runs, signed, life>>

-----------------------------------------------------------------------------
(* A handler thread of the service: Handler.handle. *)
At(k, pc) == conns[k].server /\ conns[k].pc = pc
Request(k) == calls[conns[k].call]

\* A response, or the end of the connection when the peer has gone.
Reply(k, c) ==
  IF conns[k].held THEN [conns EXCEPT ![k].outbox = c, ![k].pc = "read", ![k].call = 0, ![k].inbox = 0]
  ELSE [conns EXCEPT ![k].server = FALSE, ![k].inbox = 0, ![k].call = 0, ![k].pc = "closed"]

\* The peer has closed, or idle_s have passed; a request that comes while the
\* connection is being closed is not read.
HangUp(k) ==
  /\ At(k, "read")
  /\ conns' = [conns EXCEPT ![k].server = FALSE, ![k].inbox = 0, ![k].pc = "closed"]
  /\ UNCHANGED <<calls, client, recorded, flock, floor, seen, runs, signed, life>>

Known(c) == \E i \in DOMAIN seen : seen[i] = c
Remember(c) ==
  LET all == Append(seen, c) IN
  IF Len(all) > NonceCap THEN Tail(all) ELSE all

\* authenticate: within MAX_SKEW_S of the host's clock (inTime) and with an unseen
\* nonce, or refused on the spot.  An operation without a sequence goes straight
\* to its script.
Authenticate(k) ==
  LET c == conns[k].inbox IN
  /\ At(k, "read") /\ c # 0
  /\ \E inTime \in BOOLEAN :
     IF ~inTime \/ Known(c)
     THEN conns' = Reply(k, c) /\ UNCHANGED seen
     ELSE /\ conns' = [conns EXCEPT ![k].inbox = 0, ![k].call = c,
                                    ![k].pc = IF calls[c].phase = Unordered THEN "queued" ELSE "admitted"]
          /\ seen' = Remember(c)
  /\ UNCHANGED <<calls, client, recorded, flock, floor, runs, signed, life>>

\* Mutant: the file is read without the lock.
LockFree == TRUE
LockTaken == flock = 0
\* monotonic: under the lock on state.json read it, refuse a lower seq ...
CheckSeq(k) ==
  LET r == Request(k) IN
  /\ At(k, "admitted") /\ LockTaken
  /\ IF r.seq < recorded[r.phase]
     THEN conns' = Reply(k, conns[k].call) /\ UNCHANGED flock
     ELSE /\ conns' = [conns EXCEPT ![k].pc = "checked", ![k].st = [recorded EXCEPT ![r.phase] = r.seq]]
          /\ flock' = k
  /\ UNCHANGED <<calls, client, recorded, floor, seen, runs, signed, life>>
\* ... truncate it in place ...
Truncate(k) ==
  /\ At(k, "checked")
  /\ recorded' = Blank
  /\ conns' = [conns EXCEPT ![k].pc = "truncated"]
  /\ UNCHANGED <<calls, client, flock, floor, seen, runs, signed, life>>
\* ... and write it.
WriteSeq(k) ==
  LET r == Request(k) IN
  /\ At(k, "truncated")
  /\ recorded' = conns[k].st
  /\ floor' = [floor EXCEPT ![r.phase] = IF r.seq > @ THEN r.seq ELSE @]
  /\ flock' = 0
  /\ conns' = [conns EXCEPT ![k].pc = "queued", ![k].st = Blank]
  /\ UNCHANGED <<calls, client, seen, runs, signed, life>>

\* run: the host script, one at a time (_exec_lock).
Run(k) ==
  /\ At(k, "queued")
  /\ runs' = [runs EXCEPT ![conns[k].call] = Append(@, life)]
  /\ signed' = IF Request(k).phase = Unordered THEN signed ELSE [signed EXCEPT ![Request(k).phase] = Request(k).seq]
  /\ conns' = [conns EXCEPT ![k].pc = "ran"]
  /\ UNCHANGED <<calls, client, recorded, flock, floor, seen, life>>
\* Whether the script succeeded or not, what it printed is the response.
Respond(k) ==
  /\ At(k, "ran")
  /\ conns' = Reply(k, conns[k].call)
  /\ UNCHANGED <<calls, client, recorded, flock, floor, seen, runs, signed, life>>

\* The service is killed and started again: connections, locks and nonces go,
\* the file stays as it is.
Kill ==
  /\ life <= MaxKills
  /\ life' = life + 1
  /\ conns' = [k \in Conns |-> [conns[k] EXCEPT !.server = FALSE, !.inbox = 0, !.call = 0, !.pc = "closed", !.st = Blank]]
  /\ flock' = 0 /\ seen' = <<>>
  /\ floor' = IF \E k \in Conns : conns[k].pc = "truncated" THEN Blank ELSE floor
  /\ UNCHANGED <<calls, client, recorded, runs, signed>>

Next ==
  \/ \E p \in Procs : Call(p) \/ Answer(p) \/ Resend(p) \/ Raise(p) \/ Exit(p)
  \/ \E k \in Conns :
       HangUp(k) \/ Authenticate(k) \/ CheckSeq(k) \/ Truncate(k) \/ WriteSeq(k) \/ Run(k) \/ Respond(k)
  \/ Kill

Spec == Init /\ [][Next]_vars

-----------------------------------------------------------------------------
(* Types. *)
ConnOK(k) ==
  /\ conns[k] \in [server : BOOLEAN, held : BOOLEAN, inbox : 0 .. Len(calls), outbox : 0 .. Len(calls),
                   pc : {"read", "admitted", "checked", "truncated", "queued", "ran", "closed"},
                   call : 0 .. Len(calls), st : [Phases -> {0} \cup Seqs]]
  /\ (conns[k].call # 0) <=> (conns[k].pc \notin {"read", "closed"})
  /\ flock = k => conns[k].pc \in {"checked", "truncated"}
  /\ conns[k].server <=> (conns[k].pc # "closed")
  /\ \A p \in Procs : client[p].conn = k => conns[k].held
\* Types, and how the parts belong together: a thread is at work on a request
\* exactly while it is not reading, the lock on state.json is its holder's, two
\* processes share no connection and a process waits on one it holds.
AgentTypeOK ==
  /\ calls \in Seq([phase : Phases \cup {Unordered}, seq : Seqs])
  /\ client \in [Procs -> [call : 0 .. Len(calls), conn : 0 .. Len(conns), reused : BOOLEAN]]
  /\ \A p \in Procs : client[p].call # 0 => client[p].conn # 0
  /\ \A p, q \in Procs : p # q /\ client[p].conn # 0 => client[p].conn # client[q].conn
  /\ \A k \in Conns : ConnOK(k)
  /\ recorded \in [Phases -> {0} \cup Seqs] /\ floor \in [Phases -> {0} \cup Seqs]
  /\ flock \in 0 .. Len(conns) /\ Len(seen) <= NonceCap /\ life \in 1 .. MaxKills + 1
  /\ runs \in [Calls -> Seq(1 .. life)] /\ signed \in [Phases -> {0} \cup Seqs]

(* Safety. *)
\* What call() returns is the answer to this call: no answer of an earlier
\* request, one that timed out while the host was still at work, is taken for it
\* (rpc.py: the connection is dropped on any error).
AnswerIsOwn ==
  \A p \in Procs :
    LET answer == conns[client[p].conn].outbox IN
    client[p].call # 0 /\ answer # 0 => answer = client[p].call

\* Between two handlers' turns with it, state.json says exactly the highest seq
\* that was admitted in every phase since a kill last emptied it: no concurrent
\* handler writes back an older copy, of its own phase or of another.
RecordCoversAdmitted == flock = 0 => recorded = floor

\* One request runs its script at most once in a life of the service, although
\* the nonce cache forgets, and at most twice at all, although the client sends
\* it again after an end of file.
RunsBounded == \A c \in Calls : Len(runs[c]) <= 2 /\ \A i, j \in DOMAIN runs[c] : runs[c][i] = runs[c][j] => i = j

-----------------------------------------------------------------------------
(* What comments in the code say, and what it does. *)
\* rpc.py:65-67: a kept connection that fails with end of file before any byte
\* was one "the server had already closed ... such a request was never read, so
\* ONE fresh attempt is safe".
NeverTwice == \A c \in Calls : Len(runs[c]) <= 1
\* agentd.py:7-8: "a request can never make this host sign a lower seq than it
\* already signed".
NeverLower == [][\A ph \in Phases : signed'[ph] >= signed[ph]]_vars
=============================================================================
