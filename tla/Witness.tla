------------------------------- MODULE Witness -------------------------------
(***************************************************************************)
(* One witness (witness/nbwitness.py), one log, and the clients that ask   *)
(* it to cosign: tlog.witness_submit as called by gather_cosignatures, from *)
(* write_checkpoint, cosign_existing and decisions_mirror.py.              *)
(*                                                                         *)
(* The witness is a threading server: every request has a thread, and the  *)
(* head is read, compared and replaced under one lock.  The head is a file *)
(* replaced atomically; the server may be killed and restarted at any      *)
(* time.  A client whose request times out gives up, but its request stays *)
(* where it is and may still be served.                                    *)
(*                                                                         *)
(* A note is any tree at all: what is signed with the key of the log need  *)
(* not be one history, which is why there are witnesses.  The root of a    *)
(* tree is the tree (what a hash commits to).  A consistency proof is the  *)
(* tree it reaches as the old root; what the real proofs are is Merkle's   *)
(* subject.  Requests that do not parse or whose signature fails are left  *)
(* out: they are refused before anything is read.                          *)
(***************************************************************************)
EXTENDS Naturals, FiniteSets, Sequences

CONSTANTS
  Leaves,      \* what can be in a log
  Trees,       \* bound: the trees that get signed, as sequences of leaves
  Clients,     \* calls of witness_submit at the same time
  Threads,     \* of the server
  MaxAttempts  \* 4 in witness_submit

ASSUME WitnessAssumption ==
  /\ Trees \subseteq Seq(Leaves) \ {<<>>}
  /\ \A tree \in Trees : \A n \in 1..Len(tree) : SubSeq(tree, 1, n) \in Trees
  /\ MaxAttempts \in Nat \ {0}

VARIABLES
  head,     \* state file of the witness: the tree it holds, <<>> if none
  lock,     \* state.lock: the threads inside
  thread,   \* what each thread of the server is doing
  call,     \* what each client is doing
  cosigned  \* history: every tree cosigned

server == <<head, lock, thread, cosigned>>
vars   == <<server, call>>

IsPrefixOf(l, m) == Len(l) <= Len(m) /\ SubSeq(m, 1, Len(l)) = l

NoThread == [pc |-> "free", for |-> {}, old |-> 0, tree |-> <<>>, proof |-> <<>>,
             seen |-> <<>>, code |-> 0, size |-> 0]
\* moves is history: how often the head was replaced during the call.
NoCall == [pc |-> "idle", tree |-> <<>>, old |-> 0, attempt |-> 0, moves |-> 0]

Init ==
  /\ head = <<>> /\ lock = {} /\ cosigned = {}
  /\ thread = [t \in Threads |-> NoThread]
  /\ call = [c \in Clients |-> NoCall]

-----------------------------------------------------------------------------
(* The server                                                              *)

\* add_checkpoint: with self.state.lock: st = self.state.get(origin)
Enter(t) ==
  /\ thread[t].pc = "waiting" /\ lock = {}
  /\ lock' = {t}
  /\ thread' = [thread EXCEPT ![t].pc = "inside", ![t].seen = head]
  /\ UNCHANGED <<head, cosigned, call>>

\* The thread leaves the lock with its answer; a client that is gone gets none.
Reply(t, code, size) ==
  /\ lock' = lock \ {t}
  /\ thread' = [thread EXCEPT ![t] = IF @.for = {} THEN NoThread
                  ELSE [NoThread EXCEPT !.pc = "answered", !.for = thread[t].for,
                                        !.code = code, !.size = size]]

Stale(q)  == q.old # Len(q.seen) \/ Len(q.tree) < Len(q.seen)
Same(q)   == Len(q.tree) = Len(q.seen)
\* First sight of this log, or verify_consistency.
Proven(q) ==
  \/ q.seen = <<>> /\ q.proof = <<>>
  \/ q.seen # <<>> /\ q.proof = q.seen /\ IsPrefixOf(q.proof, q.tree)

\* return 409, the size of the head
Conflict(t) ==
  /\ thread[t].pc = "inside" /\ Stale(thread[t])
  /\ Reply(t, 409, Len(thread[t].seen))
  /\ UNCHANGED <<head, cosigned, call>>

\* return 403: same size, other root; or the proof does not verify
Refuse(t) ==
  /\ thread[t].pc = "inside" /\ ~Stale(thread[t])
  /\ IF Same(thread[t]) THEN thread[t].tree # thread[t].seen ELSE ~Proven(thread[t])
  /\ Reply(t, 403, 0)
  /\ UNCHANGED <<head, cosigned, call>>

\* Mutant: equal sizes are taken for equal trees.
CosignAgainAnyRoot(t) ==
  /\ thread[t].pc = "inside" /\ ~Stale(thread[t]) /\ Same(thread[t])
  /\ cosigned' = cosigned \cup {thread[t].tree}
  /\ Reply(t, 200, 0)
  /\ UNCHANGED <<head, call>>
\* return 200: what the witness holds already is cosigned again
CosignAgain(t) ==
  /\ thread[t].pc = "inside" /\ ~Stale(thread[t])
  /\ Same(thread[t]) /\ thread[t].tree = thread[t].seen
  /\ cosigned' = cosigned \cup {thread[t].tree}
  /\ Reply(t, 200, 0)
  /\ UNCHANGED <<head, call>>

\* Mutant: the head that is replaced is cosigned, not the new one.
AdvanceCosignOld(t) ==
  /\ thread[t].pc = "inside" /\ ~Stale(thread[t])
  /\ ~Same(thread[t]) /\ Proven(thread[t])
  /\ head' = thread[t].tree
  /\ cosigned' = cosigned \cup {thread[t].seen}
  /\ Reply(t, 200, 0)
  /\ call' = [c \in Clients |-> IF call[c].pc = "idle" THEN call[c]
                               ELSE [call[c] EXCEPT !.moves = @ + 1]]
\* return 200: cosign, and self.state.put
Advance(t) ==
  /\ thread[t].pc = "inside" /\ ~Stale(thread[t])
  /\ ~Same(thread[t]) /\ Proven(thread[t])
  /\ head' = thread[t].tree
  /\ cosigned' = cosigned \cup {thread[t].tree}
  /\ Reply(t, 200, 0)
  /\ call' = [c \in Clients |-> IF call[c].pc = "idle" THEN call[c]
                               ELSE [call[c] EXCEPT !.moves = @ + 1]]

\* Mutant: the head is only in memory.
RestartEmpty ==
  /\ \E t \in Threads : thread[t] # NoThread
  /\ thread' = [t \in Threads |-> NoThread] /\ lock' = {} /\ head' = <<>>
  /\ call' = [c \in Clients |-> IF call[c].pc = "wait" THEN NoCall ELSE call[c]]
  /\ UNCHANGED cosigned
\* The process is killed and started again: the threads are gone, the file
\* is there.
Restart ==
  /\ \E t \in Threads : thread[t] # NoThread
  /\ thread' = [t \in Threads |-> NoThread] /\ lock' = {}
  /\ call' = [c \in Clients |-> IF call[c].pc = "wait" THEN NoCall ELSE call[c]]
  /\ UNCHANGED <<head, cosigned>>

-----------------------------------------------------------------------------
(* The clients                                                             *)

\* witness_submit(url, note, leaves)
Begin(c, tree) ==
  /\ call[c].pc = "idle"
  /\ call' = [call EXCEPT ![c] = [NoCall EXCEPT !.pc = "send", !.tree = tree]]
  /\ UNCHANGED server

\* consistency_proof(old, leaves[:size]) if 0 < old < size else []
ProofFrom(old, tree) == IF 0 < old /\ old < Len(tree) THEN SubSeq(tree, 1, old) ELSE <<>>

\* POST /add-checkpoint
Send(c) ==
  /\ call[c].pc = "send"
  /\ \E t \in Threads :
       /\ thread[t].pc = "free"
       /\ thread' = [thread EXCEPT ![t] =
            [NoThread EXCEPT !.pc = "waiting", !.for = {c}, !.old = call[c].old,
               !.tree = call[c].tree, !.proof = ProofFrom(call[c].old, call[c].tree)]]
  /\ call' = [call EXCEPT ![c].pc = "wait"]
  /\ UNCHANGED <<head, lock, cosigned>>

\* known == old or known > size: raise; else the next turn of the loop.
GivesUp(c, known) ==
  \/ known = call[c].old \/ known > Len(call[c].tree)
  \/ call[c].attempt + 1 = MaxAttempts

\* The answer is read: cosignature lines, a size to try with, or a refusal.
Receive(c) ==
  /\ call[c].pc = "wait"
  /\ \E t \in Threads :
       /\ thread[t].pc = "answered" /\ thread[t].for = {c}
       /\ call' = [call EXCEPT ![c] =
            IF thread[t].code = 409 /\ ~GivesUp(c, thread[t].size)
              THEN [call[c] EXCEPT !.pc = "send", !.old = thread[t].size, !.attempt = @ + 1]
              ELSE NoCall]
       /\ thread' = [thread EXCEPT ![t] = NoThread]
  /\ UNCHANGED <<head, lock, cosigned>>

\* The request times out, or is lost: the call ends with an exception.  A
\* thread that works on it goes on.
GiveUp(c) ==
  /\ call[c].pc = "wait"
  /\ call' = [call EXCEPT ![c] = NoCall]
  /\ thread' = [t \in Threads |->
       IF c \notin thread[t].for THEN thread[t]
       ELSE IF thread[t].pc = "answered" THEN NoThread
       ELSE [thread[t] EXCEPT !.for = {}]]
  /\ UNCHANGED <<head, lock, cosigned>>

Next ==
  \/ \E t \in Threads : Enter(t) \/ Conflict(t) \/ Refuse(t) \/ CosignAgain(t) \/ Advance(t)
  \/ \E c \in Clients : Send(c) \/ Receive(c) \/ GiveUp(c) \/ \E tree \in Trees : Begin(c, tree)
  \/ Restart

Spec == Init /\ [][Next]_vars

-----------------------------------------------------------------------------
(* Properties                                                              *)

Views == Trees \cup {<<>>}
ThreadStates ==
  [pc : {"free", "waiting", "inside", "answered"}, for : SUBSET Clients, old : Nat,
   tree : Views, proof : Views, seen : Views,
   code : {0, 200, 403, 409}, size : Nat]
CallStates ==
  [pc : {"idle", "send", "wait"}, tree : Views, old : Nat,
   attempt : Nat, moves : Nat]

\* Every variable has its type.
WitnessTypeOK ==
  /\ head \in Views /\ lock \subseteq Threads /\ cosigned \subseteq Trees
  /\ thread \in [Threads -> ThreadStates] /\ call \in [Clients -> CallStates]

\* A split view shows: two trees cosigned by the witness, whoever asked, in
\* whatever order and however often it was restarted, are one history.
NoForkCosigned == \A l, m \in cosigned : IsPrefixOf(l, m) \/ IsPrefixOf(m, l)

\* Nothing the witness vouched for is ever forgotten by it.
HeadCoversCosigned == \A l \in cosigned : IsPrefixOf(l, head)

\* A turn of the size dance after the second is only needed because the head
\* was moved by somebody else meanwhile.
TurnsMeanMoves == \A c \in Clients : call[c].attempt <= 1 + call[c].moves

\* To the world the witness is one tree that grows.
Promise == INSTANCE WitnessPromise WITH newest <- head
KeepsVouching == Promise!Spec
=============================================================================
