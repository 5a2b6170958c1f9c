---------------------------- MODULE WitnessProofs ----------------------------
(***************************************************************************)
(* What a witness guarantees for every set of trees, however many clients  *)
(* and threads there are, and however often it is restarted.               *)
(***************************************************************************)
EXTENDS Witness, SequenceTheorems, TLAPS

(* The inductive invariant.                                                *)

\* The lock is held by who is inside, and by one thread only.
LockHeld ==
  /\ \A t \in Threads : thread[t].pc = "inside" <=> t \in lock
  /\ \A s, t \in lock : s = t

\* What a thread inside the lock read is still the head.
SeenIsHead == \A t \in Threads : thread[t].pc = "inside" => thread[t].seen = head

\* What is asked for is a tree of at least one leaf.
TreesAsked ==
  /\ \A t \in Threads : thread[t].pc \in {"waiting", "inside"} => thread[t].tree \in Trees
  /\ \A c \in Clients : call[c].pc # "idle" => call[c].tree \in Trees

\* One thread at most works for a client, and with the size the client sent.
Serving ==
  /\ \A t \in Threads : \A c \in thread[t].for :
       /\ call[c].pc = "wait"
       /\ thread[t].pc \in {"waiting", "inside"} => thread[t].old = call[c].old
  /\ \A s, t \in Threads : \A c \in Clients :
       c \in thread[s].for /\ c \in thread[t].for => s = t

\* A client asks with a size the head had; if the head has moved since, the
\* turns so far are paid for.
TurnsPaid ==
  /\ \A c \in Clients :
       /\ call[c].old <= Len(head) /\ call[c].attempt <= 1 + call[c].moves
       /\ call[c].old < Len(head) => call[c].attempt <= call[c].moves
  /\ \A t \in Threads :
       thread[t].pc = "answered" /\ thread[t].code = 409 =>
         /\ thread[t].size <= Len(head)
         /\ \A c \in thread[t].for : thread[t].size # call[c].old =>
              /\ call[c].attempt <= call[c].moves
              /\ thread[t].size < Len(head) => call[c].attempt + 1 <= call[c].moves

\* What makes cosigning safe: one thread decides at a time, on the head as it is.
CustodyInv == WitnessTypeOK /\ TreesAsked /\ LockHeld /\ SeenIsHead /\ HeadCoversCosigned

\* A call that is over has no turns.
IdleUnused == \A c \in Clients : call[c].pc = "idle" => call[c].attempt = 0

\* What bounds the size dance.
TurnsInv == Serving /\ TurnsPaid /\ IdleUnused

-----------------------------------------------------------------------------
(* Trees, and prefixes.                                                    *)

\* Every view of the log is a finite sequence of leaves.
LEMMA ViewsAreSequences == Views \subseteq Seq(Leaves)
BY WitnessAssumption, EmptySeq DEF Views

\* The empty log is a view: a tree that has not started.
LEMMA EmptyIsView == <<>> \in Views
BY DEF Views

\* Every tree a client may present is a view.
LEMMA TreesAreViews == Trees \subseteq Views
BY DEF Views

\* A prefix has the elements of the sequence it is a prefix of.
LEMMA PrefixElements ==
  ASSUME NEW S, NEW l \in Seq(S), NEW m \in Seq(S)
  PROVE  IsPrefixOf(l, m) <=> Len(l) <= Len(m) /\ \A i \in 1..Len(l) : l[i] = m[i]
<1>0. Len(l) \in Nat /\ Len(m) \in Nat
  BY LenProperties
<1> SUFFICES ASSUME Len(l) <= Len(m)
             PROVE  SubSeq(m, 1, Len(l)) = l <=> \A i \in 1..Len(l) : l[i] = m[i]
  BY DEF IsPrefixOf
<1> DEFINE p == SubSeq(m, 1, Len(l))
<1>1. \A i \in 1..Len(l) : m[i] \in S
  BY <1>0, ElementOfSeq
<1>2. /\ p \in Seq(S) /\ Len(p) = Len(l)
      /\ \A i \in 1..Len(l) : p[i] = m[i]
  BY <1>0, <1>1, SubSeqProperties
<1> HIDE DEF p
<1>3. p = l <=> \A i \in 1..Len(l) : p[i] = l[i]
  BY <1>0, <1>2, SeqEqual
<1>4. QED
  BY <1>2, <1>3 DEF p

\* The same tree presented again extends the head it left.
LEMMA PrefixReflexive ==
  ASSUME NEW S, NEW l \in Seq(S)
  PROVE  IsPrefixOf(l, l)
BY PrefixElements, LenProperties

\* The empty log has no entries.
LEMMA EmptyLength == Len(<<>>) = 0
BY EmptySeq

\* Every tree extends the empty log.
LEMMA EmptyPrefix ==
  ASSUME NEW S, NEW m \in Seq(S)
  PROVE  IsPrefixOf(<<>>, m)
<1>1. Len(<<>>) = 0 /\ Len(m) \in Nat
  BY EmptySeq, LenProperties
<1>2. SubSeq(m, 1, 0) = <<>>
  BY SubSeqEmpty
<1>3. QED
  BY <1>1, <1>2 DEF IsPrefixOf

\* A tree that extends an extension of the head extends the head.
LEMMA PrefixTransitive ==
  ASSUME NEW S, NEW k \in Seq(S), NEW l \in Seq(S), NEW m \in Seq(S),
         IsPrefixOf(k, l), IsPrefixOf(l, m)
  PROVE  IsPrefixOf(k, m)
<1>1. Len(k) \in Nat /\ Len(l) \in Nat /\ Len(m) \in Nat
  BY LenProperties
<1>2. QED
  BY <1>1, PrefixElements

\* Two prefixes of one sequence: one is a prefix of the other.
LEMMA PrefixesAgree ==
  ASSUME NEW S, NEW k \in Seq(S), NEW l \in Seq(S), NEW m \in Seq(S),
         IsPrefixOf(k, m), IsPrefixOf(l, m)
  PROVE  IsPrefixOf(k, l) \/ IsPrefixOf(l, k)
<1>1. Len(k) \in Nat /\ Len(l) \in Nat /\ Len(m) \in Nat
  BY LenProperties
<1>2. /\ \A i \in 1..Len(k) : k[i] = m[i]
      /\ \A i \in 1..Len(l) : l[i] = m[i]
  BY PrefixElements
<1>3. CASE Len(k) <= Len(l)
  BY <1>1, <1>2, <1>3, PrefixElements
<1>4. CASE Len(l) <= Len(k)
  BY <1>1, <1>2, <1>4, PrefixElements
<1>5. QED
  BY <1>1, <1>3, <1>4

\* The proof a client sends is a tree, or nothing.
LEMMA ProofIsView ==
  ASSUME NEW old \in Nat, NEW tree \in Views
  PROVE  ProofFrom(old, tree) \in Views
<1>1. Len(tree) \in Nat
  BY ViewsAreSequences, LenProperties
<1>2. ASSUME 0 < old, old < Len(tree) PROVE SubSeq(tree, 1, old) \in Views
  <2>1. tree # <<>>
    BY <1>2, EmptySeq
  <2>2. tree \in Trees /\ old \in 1..Len(tree)
    BY <1>1, <1>2, <2>1 DEF Views
  <2>3. QED
    BY <2>2, WitnessAssumption DEF Views
<1>3. QED
  BY <1>2 DEF ProofFrom, Views

-----------------------------------------------------------------------------
(* Custody of the head.                                                    *)

\* The initial states of a thread and of a call, and what may be put into them.
LEMMA FreshStates == NoThread \in ThreadStates /\ NoCall \in CallStates
BY WitnessAssumption, EmptyIsView DEF NoThread, NoCall, ThreadStates, CallStates

\* What a request that enters the handler leaves is a state of a thread.
LEMMA EnteredIsState ==
  ASSUME NEW q \in ThreadStates, NEW l \in Views
  PROVE  [q EXCEPT !.pc = "inside", !.seen = l] \in ThreadStates
BY DEF ThreadStates

\* What a client that sends leaves is a state of a call.
LEMMA SentIsState ==
  ASSUME NEW f \in SUBSET Clients, NEW old \in Nat, NEW tree \in Views, NEW proof \in Views
  PROVE  [NoThread EXCEPT !.pc = "waiting", !.for = f, !.old = old,
                          !.tree = tree, !.proof = proof] \in ThreadStates
BY EmptyIsView DEF NoThread, ThreadStates

\* What a thread whose client gave up is left with is a state of a thread.
LEMMA LeftIsState ==
  ASSUME NEW q \in ThreadStates
  PROVE  [q EXCEPT !.for = {}] \in ThreadStates
BY DEF ThreadStates

\* A call that saw the head move is in a state of a call.
LEMMA MovedIsState ==
  ASSUME NEW x \in CallStates
  PROVE  [x EXCEPT !.moves = @ + 1] \in CallStates
BY DEF CallStates

\* What a client that takes another turn leaves is a state of a call.
LEMMA TurnIsState ==
  ASSUME NEW x \in CallStates, NEW old \in Nat
  PROVE  [x EXCEPT !.pc = "send", !.old = old, !.attempt = @ + 1] \in CallStates
<1>1. x.attempt + 1 \in Nat
  BY DEF CallStates
<1>2. QED
  BY <1>1 DEF CallStates

\* Reply changes one thread, to a state of a thread.
LEMMA ReplyTyped ==
  ASSUME WitnessTypeOK, NEW t \in Threads, NEW code \in {0, 200, 403, 409}, NEW size \in Nat,
         Reply(t, code, size)
  PROVE  lock' \subseteq Threads /\ thread' \in [Threads -> ThreadStates]
<1>1. thread[t] \in ThreadStates
  BY DEF WitnessTypeOK
<1>2. thread[t].for \in SUBSET Clients
  BY <1>1 DEF ThreadStates
<1> DEFINE r == IF thread[t].for = {} THEN NoThread
                ELSE [NoThread EXCEPT !.pc = "answered", !.for = thread[t].for,
                                      !.code = code, !.size = size]
<1>a. [NoThread EXCEPT !.pc = "answered", !.for = thread[t].for,
                        !.code = code, !.size = size] \in ThreadStates
  BY <1>2, EmptyIsView DEF NoThread, ThreadStates
<1>3. r \in ThreadStates
  BY <1>a, FreshStates
<1>4. thread' = [thread EXCEPT ![t] = r] /\ lock' = lock \ {t}
  BY DEF Reply
<1> HIDE DEF r
<1>5. QED
  BY <1>3, <1>4 DEF WitnessTypeOK

\* A call that is not idle sees the head move.
LEMMA MovesTyped ==
  ASSUME call \in [Clients -> CallStates],
         call' = [c \in Clients |-> IF call[c].pc = "idle" THEN call[c]
                                   ELSE [call[c] EXCEPT !.moves = @ + 1]]
  PROVE  call' \in [Clients -> CallStates]
BY MovedIsState

\* The invariant holds before any request.
LEMMA WitnessInitCustody == Init => CustodyInv
<1> SUFFICES ASSUME Init PROVE CustodyInv
  OBVIOUS
<1> USE DEF Init
<1>1. WitnessTypeOK
  BY FreshStates, EmptyIsView DEF WitnessTypeOK
<1>2. LockHeld /\ SeenIsHead /\ HeadCoversCosigned
  BY DEF LockHeld, SeenIsHead, HeadCoversCosigned, NoThread
<1>a. TreesAsked
  BY DEF TreesAsked, NoThread, NoCall
<1>3. QED
  BY <1>1, <1>2, <1>a DEF CustodyInv

\* Every action, with its parameters named.
LEMMA WitnessSteps ==
  ASSUME NEW P,
         \A t \in Threads : Enter(t) => P,
         \A t \in Threads : Conflict(t) => P,
         \A t \in Threads : Refuse(t) => P,
         \A t \in Threads : CosignAgain(t) => P,
         \A t \in Threads : Advance(t) => P,
         \A c \in Clients : Send(c) => P,
         \A c \in Clients : Receive(c) => P,
         \A c \in Clients : GiveUp(c) => P,
         \A c \in Clients : \A tree \in Trees : Begin(c, tree) => P,
         Restart => P,
         UNCHANGED vars => P
  PROVE  [Next]_vars => P
BY DEF Next

\* No step takes a variable out of its type.
LEMMA WitnessTypeKept == WitnessTypeOK /\ TreesAsked /\ [Next]_vars => WitnessTypeOK'
<1> SUFFICES ASSUME WitnessTypeOK, TreesAsked PROVE [Next]_vars => WitnessTypeOK'
  OBVIOUS
<1>0. \A l \in Views : Len(l) \in Nat
  BY ViewsAreSequences, LenProperties
<1>a. \A t \in Threads : thread[t] \in ThreadStates
  BY DEF WitnessTypeOK
<1>b. \A c \in Clients : call[c] \in CallStates
  BY DEF WitnessTypeOK
<1>1. ASSUME NEW t \in Threads, Enter(t) PROVE WitnessTypeOK'
  <2> DEFINE r == [thread[t] EXCEPT !.pc = "inside", !.seen = head]
  <2>1. r \in ThreadStates
    BY <1>a, EnteredIsState DEF WitnessTypeOK
  <2>2. thread' = [thread EXCEPT ![t] = r]
    BY <1>1 DEF Enter, WitnessTypeOK
  <2> HIDE DEF r
  <2>3. QED
    BY <1>1, <2>1, <2>2 DEF Enter, WitnessTypeOK
<1>2. ASSUME NEW t \in Threads, Conflict(t) PROVE WitnessTypeOK'
  <2>1. Len(thread[t].seen) \in Nat
    BY <1>0, <1>a DEF ThreadStates
  <2>2. QED
    BY <1>2, <2>1, ReplyTyped DEF Conflict, WitnessTypeOK
<1>3. ASSUME NEW t \in Threads, Refuse(t) PROVE WitnessTypeOK'
  BY <1>3, ReplyTyped DEF Refuse, WitnessTypeOK
<1>4. ASSUME NEW t \in Threads, CosignAgain(t) PROVE WitnessTypeOK'
  <2>1. thread[t].tree \in Trees
    BY <1>4 DEF CosignAgain, TreesAsked
  <2>2. QED
    BY <1>4, <2>1, ReplyTyped DEF CosignAgain, WitnessTypeOK
<1>5. ASSUME NEW t \in Threads, Advance(t) PROVE WitnessTypeOK'
  <2>1. thread[t].tree \in Trees
    BY <1>5 DEF Advance, TreesAsked
  <2>2. lock' \subseteq Threads /\ thread' \in [Threads -> ThreadStates]
    BY <1>5, ReplyTyped DEF Advance
  <2>3. call' \in [Clients -> CallStates]
    BY <1>5, MovesTyped DEF Advance, WitnessTypeOK
  <2>4. QED
    BY <1>5, <2>1, <2>2, <2>3 DEF Advance, WitnessTypeOK, Views
<1>6. ASSUME NEW c \in Clients, Send(c) PROVE WitnessTypeOK'
  <2>1. PICK t \in Threads : thread' = [thread EXCEPT ![t] =
            [NoThread EXCEPT !.pc = "waiting", !.for = {c}, !.old = call[c].old,
               !.tree = call[c].tree, !.proof = ProofFrom(call[c].old, call[c].tree)]]
    BY <1>6 DEF Send
  <2> DEFINE r == [NoThread EXCEPT !.pc = "waiting", !.for = {c}, !.old = call[c].old,
                     !.tree = call[c].tree, !.proof = ProofFrom(call[c].old, call[c].tree)]
  <2>2. call[c].old \in Nat /\ call[c].tree \in Views
    BY <1>b DEF CallStates
  <2>3. r \in ThreadStates
    BY <2>2, ProofIsView, SentIsState
  <2>4. [call[c] EXCEPT !.pc = "wait"] \in CallStates
    BY <1>b DEF CallStates
  <2> HIDE DEF r
  <2>5. thread' \in [Threads -> ThreadStates]
    BY <2>1, <2>3 DEF r, WitnessTypeOK
  <2>6. call' \in [Clients -> CallStates]
    BY <1>6, <2>4 DEF Send, WitnessTypeOK
  <2>7. QED
    BY <1>6, <2>5, <2>6 DEF Send, WitnessTypeOK
<1>7. ASSUME NEW c \in Clients, Receive(c) PROVE WitnessTypeOK'
  <2>1. PICK t \in Threads :
          /\ call' = [call EXCEPT ![c] =
               IF thread[t].code = 409 /\ ~GivesUp(c, thread[t].size)
                 THEN [call[c] EXCEPT !.pc = "send", !.old = thread[t].size, !.attempt = @ + 1]
                 ELSE NoCall]
          /\ thread' = [thread EXCEPT ![t] = NoThread]
    BY <1>7 DEF Receive
  <2>2. thread[t].size \in Nat
    BY <1>a DEF ThreadStates
  <2>3. [call[c] EXCEPT !.pc = "send", !.old = thread[t].size, !.attempt = @ + 1] \in CallStates
    BY <1>b, <2>1, <2>2, TurnIsState
  <2>4. NoCall \in CallStates
    BY FreshStates
  <2>5. call' \in [Clients -> CallStates] /\ thread' \in [Threads -> ThreadStates]
    <3> DEFINE r == IF thread[t].code = 409 /\ ~GivesUp(c, thread[t].size)
                      THEN [call[c] EXCEPT !.pc = "send", !.old = thread[t].size, !.attempt = @ + 1]
                      ELSE NoCall
    <3>1. r \in CallStates
      BY <2>3, <2>4
    <3>2. call' = [call EXCEPT ![c] = r]
      BY <2>1
    <3> HIDE DEF r
    <3>3. QED
      BY <2>1, <3>1, <3>2, FreshStates DEF WitnessTypeOK
  <2>6. QED
    BY <1>7, <2>5 DEF Receive, WitnessTypeOK
<1>8. ASSUME NEW c \in Clients, GiveUp(c) PROVE WitnessTypeOK'
  <2>1. \A t \in Threads : [thread[t] EXCEPT !.for = {}] \in ThreadStates
    BY <1>a, LeftIsState
  <2>2. thread' \in [Threads -> ThreadStates]
    BY <1>8, <1>a, <2>1, FreshStates DEF GiveUp
  <2>3. call' \in [Clients -> CallStates]
    BY <1>8, FreshStates DEF GiveUp, WitnessTypeOK
  <2>4. QED
    BY <1>8, <2>2, <2>3 DEF GiveUp, WitnessTypeOK
<1>9. ASSUME NEW c \in Clients, NEW tree \in Trees, Begin(c, tree) PROVE WitnessTypeOK'
  <2>1. [NoCall EXCEPT !.pc = "send", !.tree = tree] \in CallStates
    <3>1. tree \in Views
      BY WitnessAssumption, TreesAreViews
    <3>2. QED
      BY <3>1 DEF NoCall, CallStates
  <2>2. QED
    BY <1>9, <2>1 DEF Begin, server, WitnessTypeOK
<1>10. ASSUME Restart PROVE WitnessTypeOK'
  BY <1>10, FreshStates DEF Restart, WitnessTypeOK
<1>11. ASSUME UNCHANGED vars PROVE WitnessTypeOK'
  BY <1>11 DEF vars, server, WitnessTypeOK
<1>12. QED
  BY <1>1, <1>2, <1>3, <1>4, <1>5, <1>6, <1>7, <1>8, <1>9, <1>10, <1>11, WitnessSteps

\* A thread that replies is out of the lock, and has an answer or nothing.
LEMMA ReplyLeaves ==
  ASSUME WitnessTypeOK, NEW t \in Threads, NEW code, NEW size, Reply(t, code, size)
  PROVE  /\ lock' = lock \ {t}
         /\ \A s \in Threads : s # t => thread'[s] = thread[s]
         /\ \/ thread'[t] = NoThread
            \/ /\ thread'[t].pc = "answered" /\ thread'[t].for = thread[t].for
               /\ thread'[t].code = code /\ thread'[t].size = size
BY DEF Reply, WitnessTypeOK, NoThread

\* What is asked for, by clients and threads, stays one of the trees.
LEMMA TreesAskedKept == WitnessTypeOK /\ TreesAsked /\ [Next]_vars => TreesAsked'
<1> SUFFICES ASSUME WitnessTypeOK, TreesAsked PROVE [Next]_vars => TreesAsked'
  OBVIOUS
<1> USE DEF WitnessTypeOK, TreesAsked
<1>1. ASSUME NEW t \in Threads, Enter(t) PROVE TreesAsked'
  BY <1>1 DEF Enter
<1>2. ASSUME NEW t \in Threads, Conflict(t) PROVE TreesAsked'
  BY <1>2, ReplyLeaves DEF Conflict, NoThread
<1>3. ASSUME NEW t \in Threads, Refuse(t) PROVE TreesAsked'
  BY <1>3, ReplyLeaves DEF Refuse, NoThread
<1>4. ASSUME NEW t \in Threads, CosignAgain(t) PROVE TreesAsked'
  BY <1>4, ReplyLeaves DEF CosignAgain, NoThread
<1>5. ASSUME NEW t \in Threads, Advance(t) PROVE TreesAsked'
  <2>1. /\ thread'[t].pc \notin {"waiting", "inside"}
        /\ \A s \in Threads : s # t => thread'[s] = thread[s]
    <3>1. Reply(t, 200, 0)
      BY <1>5 DEF Advance
    <3>2. QED
      BY <3>1, ReplyLeaves DEF NoThread
  <2>2. \A c \in Clients : call'[c].pc = call[c].pc /\ call'[c].tree = call[c].tree
    BY <1>5 DEF Advance, CallStates
  <2>3. QED
    BY <2>1, <2>2
<1>6. ASSUME NEW c \in Clients, Send(c) PROVE TreesAsked'
  BY <1>6 DEF Send, NoThread
<1>7. ASSUME NEW c \in Clients, Receive(c) PROVE TreesAsked'
  BY <1>7 DEF Receive, NoThread, NoCall
<1>8. ASSUME NEW c \in Clients, GiveUp(c) PROVE TreesAsked'
  BY <1>8 DEF GiveUp, NoThread, NoCall
<1>9. ASSUME NEW c \in Clients, NEW tree \in Trees, Begin(c, tree) PROVE TreesAsked'
  BY <1>9 DEF Begin, server, NoCall
<1>10. ASSUME Restart PROVE TreesAsked'
  BY <1>10 DEF Restart, NoThread, NoCall
<1>11. ASSUME UNCHANGED vars PROVE TreesAsked'
  BY <1>11 DEF vars, server
<1>12. QED
  BY <1>1, <1>2, <1>3, <1>4, <1>5, <1>6, <1>7, <1>8, <1>9, <1>10, <1>11, WitnessSteps

\* One thread at a time is between the reading of the head and its writing.
LEMMA LockKept ==
  WitnessTypeOK /\ LockHeld /\ SeenIsHead /\ [Next]_vars => LockHeld' /\ SeenIsHead'
<1> SUFFICES ASSUME WitnessTypeOK, LockHeld, SeenIsHead
             PROVE  [Next]_vars => LockHeld' /\ SeenIsHead'
  OBVIOUS
<1> USE DEF WitnessTypeOK, LockHeld, SeenIsHead
<1>1. ASSUME NEW t \in Threads, Enter(t) PROVE LockHeld' /\ SeenIsHead'
  BY <1>1 DEF Enter
<1>2. ASSUME NEW t \in Threads, Conflict(t) PROVE LockHeld' /\ SeenIsHead'
  BY <1>2, ReplyLeaves DEF Conflict, NoThread
<1>3. ASSUME NEW t \in Threads, Refuse(t) PROVE LockHeld' /\ SeenIsHead'
  BY <1>3, ReplyLeaves DEF Refuse, NoThread
<1>4. ASSUME NEW t \in Threads, CosignAgain(t) PROVE LockHeld' /\ SeenIsHead'
  BY <1>4, ReplyLeaves DEF CosignAgain, NoThread
<1>5. ASSUME NEW t \in Threads, Advance(t) PROVE LockHeld' /\ SeenIsHead'
  <2>1. \A s \in Threads : s # t => thread[s].pc # "inside"
    BY <1>5 DEF Advance
  <2>2. /\ lock' = lock \ {t} /\ thread'[t].pc # "inside"
        /\ \A s \in Threads : s # t => thread'[s] = thread[s]
    <3>1. Reply(t, 200, 0)
      BY <1>5 DEF Advance
    <3>2. QED
      BY <3>1, ReplyLeaves DEF NoThread
  <2>3. QED
    BY <2>1, <2>2
<1>6. ASSUME NEW c \in Clients, Send(c) PROVE LockHeld' /\ SeenIsHead'
  BY <1>6 DEF Send, NoThread
<1>7. ASSUME NEW c \in Clients, Receive(c) PROVE LockHeld' /\ SeenIsHead'
  BY <1>7 DEF Receive, NoThread
<1>8. ASSUME NEW c \in Clients, GiveUp(c) PROVE LockHeld' /\ SeenIsHead'
  BY <1>8 DEF GiveUp, NoThread
<1>9. ASSUME NEW c \in Clients, NEW tree \in Trees, Begin(c, tree)
      PROVE  LockHeld' /\ SeenIsHead'
  BY <1>9 DEF Begin, server
<1>10. ASSUME Restart PROVE LockHeld' /\ SeenIsHead'
  BY <1>10 DEF Restart, NoThread
<1>11. ASSUME UNCHANGED vars PROVE LockHeld' /\ SeenIsHead'
  BY <1>11 DEF vars, server
<1>12. QED
  BY <1>1, <1>2, <1>3, <1>4, <1>5, <1>6, <1>7, <1>8, <1>9, <1>10, <1>11, WitnessSteps

\* Only three kinds of step touch what the witness vouches for: none, the head
\* again, and a tree that extends it.
LEMMA VouchKinds ==
  ASSUME CustodyInv, [Next]_vars
  PROVE  \/ UNCHANGED <<head, cosigned>>
         \/ /\ head' \in Trees /\ IsPrefixOf(head, head')
            /\ cosigned' = cosigned \cup {head'}
<1> DEFINE P == \/ UNCHANGED <<head, cosigned>>
                \/ /\ head' \in Trees /\ IsPrefixOf(head, head')
                   /\ cosigned' = cosigned \cup {head'}
<1>0. head \in Seq(Leaves)
  BY ViewsAreSequences DEF CustodyInv, WitnessTypeOK
<1>1. ASSUME NEW t \in Threads, CosignAgain(t) PROVE P
  <2>1. thread[t].seen = head /\ thread[t].tree \in Trees /\ thread[t].tree = thread[t].seen
    BY <1>1 DEF CosignAgain, CustodyInv, SeenIsHead, TreesAsked
  <2>2. QED
    BY <1>0, <1>1, <2>1, PrefixReflexive DEF CosignAgain
<1>2. ASSUME NEW t \in Threads, Advance(t) PROVE P
  <2>1. thread[t].seen = head /\ thread[t].tree \in Trees
    BY <1>2 DEF Advance, CustodyInv, SeenIsHead, TreesAsked
  <2>2. thread[t].tree \in Seq(Leaves)
    BY <2>1, ViewsAreSequences DEF Views
  <2>3. CASE head = <<>>
    BY <1>2, <2>1, <2>2, <2>3, EmptyPrefix DEF Advance
  <2>4. CASE head # <<>>
    BY <1>2, <2>1, <2>4 DEF Advance, Proven
  <2>5. QED
    BY <2>3, <2>4
<1>3. ASSUME UNCHANGED <<head, cosigned>> PROVE P
  BY <1>3
<1> HIDE DEF P
<1>4. [Next]_vars => P
  BY <1>1, <1>2, <1>3, WitnessSteps
     DEF Enter, Conflict, Refuse, Send, Receive, GiveUp, Begin, Restart, vars, server
<1>5. QED
  BY <1>4 DEF P

\* No step breaks the invariant of the head and its lock.
LEMMA CustodyKept == CustodyInv /\ [Next]_vars => CustodyInv'
<1> SUFFICES ASSUME CustodyInv, [Next]_vars PROVE CustodyInv'
  OBVIOUS
<1>1. WitnessTypeOK' /\ TreesAsked' /\ LockHeld' /\ SeenIsHead'
  BY WitnessTypeKept, TreesAskedKept, LockKept DEF CustodyInv
<1>2. HeadCoversCosigned'
  <2>1. /\ head \in Seq(Leaves) /\ head' \in Seq(Leaves)
        /\ \A l \in cosigned : l \in Seq(Leaves)
    BY <1>1, ViewsAreSequences DEF CustodyInv, WitnessTypeOK, Views
  <2>2. CASE UNCHANGED <<head, cosigned>>
    BY <2>2 DEF CustodyInv, HeadCoversCosigned
  <2>3. CASE IsPrefixOf(head, head') /\ cosigned' = cosigned \cup {head'}
    <3>1. \A l \in cosigned : IsPrefixOf(l, head')
      BY <2>1, <2>3, PrefixTransitive DEF CustodyInv, HeadCoversCosigned
    <3>2. QED
      BY <2>1, <2>3, <3>1, PrefixReflexive DEF HeadCoversCosigned
  <2>4. QED
    BY <2>2, <2>3, VouchKinds
<1>3. QED
  BY <1>1, <1>2 DEF CustodyInv

\* The invariant holds in every reachable state.
LEMMA CustodyAlways == Spec => []CustodyInv
BY WitnessInitCustody, CustodyKept, PTL DEF Spec

\* Every variable has its type.
THEOREM WitnessTypes == Spec => []WitnessTypeOK
BY CustodyAlways, PTL DEF CustodyInv

\* What the witness cosigned (nbwitness.py, add_checkpoint) it never goes back
\* on, however it was restarted: its head extends all of it.
THEOREM NothingForgotten == Spec => []HeadCoversCosigned
BY CustodyAlways, PTL DEF CustodyInv

\* Two trees that a witness cosigned, for whomever, are one history.
THEOREM NoForkIsCosigned == Spec => []NoForkCosigned
<1>1. CustodyInv => NoForkCosigned
  <2> SUFFICES ASSUME CustodyInv, NEW l \in cosigned, NEW m \in cosigned
               PROVE  IsPrefixOf(l, m) \/ IsPrefixOf(m, l)
    BY DEF NoForkCosigned
  <2>1. l \in Seq(Leaves) /\ m \in Seq(Leaves) /\ head \in Seq(Leaves)
    BY ViewsAreSequences DEF CustodyInv, WitnessTypeOK, Views
  <2>2. IsPrefixOf(l, head) /\ IsPrefixOf(m, head)
    BY DEF CustodyInv, HeadCoversCosigned
  <2>3. QED
    BY <2>1, <2>2, PrefixesAgree
<1>2. QED
  BY <1>1, CustodyAlways, PTL

\* The witness with its threads, its lock, its file and its restarts implements
\* a tree that grows and is vouched for.
THEOREM WitnessKeepsPromise == Spec => KeepsVouching
<1>1. Init => Promise!Init
  BY DEF Init, Promise!Init
<1>2. CustodyInv /\ [Next]_vars => [Promise!Vouch]_(Promise!promised)
  <2> SUFFICES ASSUME CustodyInv, [Next]_vars
               PROVE  [Promise!Vouch]_(Promise!promised)
    OBVIOUS
  <2>1. QED
    BY VouchKinds DEF Promise!Vouch, Promise!promised, Promise!IsPrefixOf, IsPrefixOf
<1>3. QED
  BY <1>1, <1>2, CustodyAlways, PTL DEF Spec, KeepsVouching, Promise!Spec

-----------------------------------------------------------------------------
(* The size dance.                                                         *)

\* The invariant of the size dance holds before any request.
LEMMA TurnsInit == Init => TurnsInv
BY EmptyLength DEF Init, TurnsInv, Serving, TurnsPaid, IdleUnused, NoThread, NoCall

\* At most one thread works for a client, with the size it sent, whatever the step.
LEMMA ServingKept == WitnessTypeOK /\ Serving /\ [Next]_vars => Serving'
<1> SUFFICES ASSUME WitnessTypeOK, Serving PROVE [Next]_vars => Serving'
  OBVIOUS
<1>a. \A t \in Threads : thread[t].for \subseteq Clients
  BY DEF WitnessTypeOK, ThreadStates
<1> USE DEF WitnessTypeOK, Serving
<1>0. ASSUME NEW t \in Threads, NEW code, NEW size, Reply(t, code, size),
             \A c \in Clients : call'[c].pc = call[c].pc /\ call'[c].old = call[c].old
      PROVE  Serving'
  BY <1>0, <1>a, ReplyLeaves DEF NoThread
<1>1. ASSUME NEW t \in Threads, Enter(t) PROVE Serving'
  BY <1>1, <1>a DEF Enter
<1>2. ASSUME NEW t \in Threads, Conflict(t) PROVE Serving'
  BY <1>0, <1>2 DEF Conflict
<1>3. ASSUME NEW t \in Threads, Refuse(t) PROVE Serving'
  BY <1>0, <1>3 DEF Refuse
<1>4. ASSUME NEW t \in Threads, CosignAgain(t) PROVE Serving'
  BY <1>0, <1>4 DEF CosignAgain
<1>5. ASSUME NEW t \in Threads, Advance(t) PROVE Serving'
  <2>1. \A c \in Clients : call'[c].pc = call[c].pc /\ call'[c].old = call[c].old
    BY <1>5 DEF Advance, CallStates
  <2>2. QED
    BY <1>0, <1>5, <2>1 DEF Advance
<1>6. ASSUME NEW c \in Clients, Send(c) PROVE Serving'
  BY <1>6, <1>a DEF Send, NoThread
<1>7. ASSUME NEW c \in Clients, Receive(c) PROVE Serving'
  BY <1>7, <1>a DEF Receive, NoThread
<1>8. ASSUME NEW c \in Clients, GiveUp(c) PROVE Serving'
  BY <1>8, <1>a DEF GiveUp, NoThread
<1>9. ASSUME NEW c \in Clients, NEW tree \in Trees, Begin(c, tree) PROVE Serving'
  BY <1>9, <1>a DEF Begin, server
<1>10. ASSUME Restart PROVE Serving'
  BY <1>10 DEF Restart, NoThread
<1>11. ASSUME UNCHANGED vars PROVE Serving'
  BY <1>11 DEF vars, server
<1>12. QED
  BY <1>1, <1>2, <1>3, <1>4, <1>5, <1>6, <1>7, <1>8, <1>9, <1>10, <1>11, WitnessSteps

\* The numbers of a thread and of a call.
LEMMA Numbers ==
  ASSUME WitnessTypeOK
  PROVE  /\ Len(head) \in Nat
         /\ \A t \in Threads : thread[t].size \in Nat /\ thread[t].old \in Nat
                               /\ Len(thread[t].seen) \in Nat /\ thread[t].for \subseteq Clients
         /\ \A c \in Clients : /\ call[c].old \in Nat /\ call[c].attempt \in Nat
                               /\ call[c].moves \in Nat
<1>1. \A l \in Views : Len(l) \in Nat
  BY ViewsAreSequences, LenProperties
<1>2. QED
  BY <1>1 DEF WitnessTypeOK, ThreadStates, CallStates

\* An answer of a thread that saw the head, while the head and the calls stay.
LEMMA ReplyPaid ==
  ASSUME WitnessTypeOK, Serving, TurnsPaid,
         NEW t \in Threads, NEW code, NEW size, Reply(t, code, size),
         code = 409 => size = Len(head) /\ thread[t].pc = "inside",
         UNCHANGED <<head, call>>
  PROVE  TurnsPaid'
<1> USE Numbers
<1>1. \A c \in Clients :
        /\ call'[c].old <= Len(head') /\ call'[c].attempt <= 1 + call'[c].moves
        /\ call'[c].old < Len(head') => call'[c].attempt <= call'[c].moves
  BY DEF TurnsPaid
<1> DEFINE Paid(s) == thread'[s].pc = "answered" /\ thread'[s].code = 409 =>
         /\ thread'[s].size <= Len(head')
         /\ \A c \in thread'[s].for : thread'[s].size # call'[c].old =>
              /\ call'[c].attempt <= call'[c].moves
              /\ thread'[s].size < Len(head') => call'[c].attempt + 1 <= call'[c].moves
<1>2. \A s \in Threads : s # t => Paid(s)
  BY ReplyLeaves DEF TurnsPaid
<1>3. Paid(t)
  <2> SUFFICES ASSUME thread'[t].pc = "answered", thread'[t].code = 409 PROVE Paid(t)
    OBVIOUS
  <2>1. thread'[t].for = thread[t].for /\ thread'[t].size = Len(head)
    BY ReplyLeaves DEF NoThread
  <2>2. \A c \in thread[t].for : call[c].old # Len(head) => call[c].attempt <= call[c].moves
    BY DEF TurnsPaid
  <2>3. QED
    BY <2>1, <2>2
<1> HIDE DEF Paid
<1>4. \A s \in Threads : Paid(s)
  BY <1>2, <1>3
<1>5. QED
  BY <1>1, <1>4 DEF TurnsPaid, Paid

\* Whatever the step, every further turn stays paid for by a move of the head.
LEMMA TurnsPaidKept == CustodyInv /\ TurnsInv /\ [Next]_vars => TurnsPaid'
<1> SUFFICES ASSUME CustodyInv, TurnsInv PROVE [Next]_vars => TurnsPaid'
  OBVIOUS
<1>a. WitnessTypeOK /\ Serving /\ TurnsPaid
  BY DEF CustodyInv, TurnsInv
<1>b. \A t \in Threads : thread[t].pc = "inside" => thread[t].seen = head
  BY DEF CustodyInv, SeenIsHead
<1> USE <1>a, Numbers
<1>1. ASSUME NEW t \in Threads, Enter(t) PROVE TurnsPaid'
  BY <1>1 DEF Enter, TurnsPaid, WitnessTypeOK
<1>2. ASSUME NEW t \in Threads, Conflict(t) PROVE TurnsPaid'
  BY <1>2, <1>b, ReplyPaid DEF Conflict
<1>3. ASSUME NEW t \in Threads, Refuse(t) PROVE TurnsPaid'
  BY <1>3, ReplyPaid DEF Refuse
<1>4. ASSUME NEW t \in Threads, CosignAgain(t) PROVE TurnsPaid'
  BY <1>4, ReplyPaid DEF CosignAgain
<1>5. ASSUME NEW t \in Threads, Advance(t) PROVE TurnsPaid'
  <2>1. Len(head) < Len(head') /\ Len(head') \in Nat
    <3>1. Len(thread[t].tree) \in Nat
      BY ViewsAreSequences, LenProperties DEF WitnessTypeOK, ThreadStates
    <3>2. QED
      BY <1>5, <1>b, <3>1 DEF Advance, Stale, Same
  <2>2. Reply(t, 200, 0)
    BY <1>5 DEF Advance
  <2>3. \A c \in Clients :
          /\ call'[c].old = call[c].old /\ call'[c].attempt = call[c].attempt
          /\ call[c].pc # "idle" => call'[c].moves = call[c].moves + 1
          /\ call[c].pc = "idle" => call'[c].moves = call[c].moves
    BY <1>5 DEF Advance, WitnessTypeOK, CallStates
  <2>4. \A c \in Clients : call[c].pc = "idle" => call[c].attempt = 0
    BY DEF TurnsInv, IdleUnused
  <2>5. \A c \in Clients :
          /\ call'[c].old <= Len(head') /\ call'[c].attempt <= 1 + call'[c].moves
          /\ call'[c].old < Len(head') => call'[c].attempt <= call'[c].moves
    <3> SUFFICES ASSUME NEW c \in Clients
                 PROVE  /\ call'[c].old <= Len(head') /\ call'[c].attempt <= 1 + call'[c].moves
                        /\ call'[c].old < Len(head') => call'[c].attempt <= call'[c].moves
      OBVIOUS
    <3>1. call[c].old <= Len(head) /\ call[c].attempt <= 1 + call[c].moves
      BY DEF TurnsPaid
    <3>2. CASE call[c].pc = "idle"
      BY <2>1, <2>3, <2>4, <3>1, <3>2
    <3>3. CASE call[c].pc # "idle"
      BY <2>1, <2>3, <3>1, <3>3
    <3>4. QED
      BY <3>2, <3>3
  <2>6. ASSUME NEW s \in Threads, thread'[s].pc = "answered", thread'[s].code = 409
        PROVE  /\ thread'[s].size <= Len(head')
               /\ \A c \in thread'[s].for : thread'[s].size # call'[c].old =>
                    /\ call'[c].attempt <= call'[c].moves
                    /\ thread'[s].size < Len(head') => call'[c].attempt + 1 <= call'[c].moves
    <3>1. s # t /\ thread'[s] = thread[s]
      BY <2>2, <2>6, ReplyLeaves DEF NoThread
    <3>2. \A c \in thread[s].for : call'[c].moves = call[c].moves + 1
      BY <2>3 DEF Serving
    <3>3. thread[s].size <= Len(head) /\ thread[s].pc = "answered" /\ thread[s].code = 409
      BY <2>6, <3>1 DEF TurnsPaid
    <3>4. ASSUME NEW c \in thread[s].for, thread[s].size # call'[c].old
          PROVE  call'[c].attempt + 1 <= call'[c].moves
      <4>1. c \in Clients /\ thread[s].size # call[c].old
        BY <2>3, <3>4
      <4>2. call[c].attempt <= call[c].moves
        BY <3>3, <3>4, <4>1 DEF TurnsPaid
      <4>3. QED
        BY <2>3, <3>2, <3>4, <4>1, <4>2
    <3>5. \A c \in Clients : call'[c].attempt \in Nat /\ call'[c].moves \in Nat
      BY <2>3
    <3>6. QED
      BY <2>1, <3>1, <3>3, <3>4, <3>5
  <2>7. QED
    BY <2>5, <2>6 DEF TurnsPaid
<1>6. ASSUME NEW c \in Clients, Send(c) PROVE TurnsPaid'
  BY <1>6 DEF Send, TurnsPaid, WitnessTypeOK, NoThread, CallStates
<1>7. ASSUME NEW c \in Clients, Receive(c) PROVE TurnsPaid'
  <2>1. PICK t \in Threads :
          /\ thread[t].pc = "answered" /\ thread[t].for = {c}
          /\ call' = [call EXCEPT ![c] =
               IF thread[t].code = 409 /\ ~GivesUp(c, thread[t].size)
                 THEN [call[c] EXCEPT !.pc = "send", !.old = thread[t].size, !.attempt = @ + 1]
                 ELSE NoCall]
          /\ thread' = [thread EXCEPT ![t] = NoThread]
          /\ head' = head
    BY <1>7 DEF Receive
  <2>2. \A x \in Clients : x # c => call'[x] = call[x]
    BY <2>1 DEF WitnessTypeOK
  <2>3. /\ call'[c].old <= Len(head) /\ call'[c].attempt <= 1 + call'[c].moves
        /\ call'[c].old < Len(head) => call'[c].attempt <= call'[c].moves
    <3>1. CASE thread[t].code = 409 /\ ~GivesUp(c, thread[t].size)
      <4>1. thread[t].size # call[c].old
        BY <3>1 DEF GivesUp
      <4>2. /\ thread[t].size <= Len(head) /\ call[c].attempt <= call[c].moves
            /\ thread[t].size < Len(head) => call[c].attempt + 1 <= call[c].moves
        BY <2>1, <3>1, <4>1 DEF TurnsPaid
      <4>3. /\ call'[c].old = thread[t].size /\ call'[c].attempt = call[c].attempt + 1
            /\ call'[c].moves = call[c].moves
        BY <2>1, <3>1 DEF WitnessTypeOK, CallStates
      <4>4. QED
        BY <4>2, <4>3
    <3>2. CASE ~(thread[t].code = 409 /\ ~GivesUp(c, thread[t].size))
      <4>1. call'[c] = NoCall
        BY <2>1, <3>2 DEF WitnessTypeOK
      <4>2. call'[c].old = 0 /\ call'[c].attempt = 0 /\ call'[c].moves = 0
        BY <4>1 DEF NoCall
      <4>3. QED
        BY <4>2
    <3>3. QED
      BY <3>1, <3>2
  <2>4. \A s \in Threads : s # t => thread'[s] = thread[s] /\ c \notin thread[s].for
    <3>1. \A s \in Threads : s # t => thread'[s] = thread[s]
      BY <2>1 DEF WitnessTypeOK
    <3>2. \A s \in Threads : s # t => c \notin thread[s].for
      BY <2>1 DEF Serving
    <3>3. QED
      BY <3>1, <3>2
  <2>5. thread'[t].pc # "answered"
    BY <2>1 DEF WitnessTypeOK, NoThread
  <2>6. QED
    BY <2>1, <2>2, <2>3, <2>4, <2>5 DEF TurnsPaid
<1>8. ASSUME NEW c \in Clients, GiveUp(c) PROVE TurnsPaid'
  BY <1>8 DEF GiveUp, TurnsPaid, WitnessTypeOK, NoThread, NoCall
<1>9. ASSUME NEW c \in Clients, NEW tree \in Trees, Begin(c, tree) PROVE TurnsPaid'
  <2>1. /\ call'[c].old = 0 /\ call'[c].attempt = 0 /\ call'[c].moves = 0
        /\ \A x \in Clients : x # c => call'[x] = call[x]
        /\ UNCHANGED <<head, thread>>
    BY <1>9 DEF Begin, server, WitnessTypeOK, NoCall
  <2>2. \A t \in Threads : c \notin thread[t].for
    BY <1>9 DEF Begin, Serving
  <2>3. \A t \in Threads : \A x \in thread[t].for : call'[x] = call[x]
    BY <2>1, <2>2
  <2>4. \A x \in Clients :
          /\ call'[x].old <= Len(head) /\ call'[x].attempt <= 1 + call'[x].moves
          /\ call'[x].old < Len(head) => call'[x].attempt <= call'[x].moves
    BY <2>1 DEF TurnsPaid
  <2>5. QED
    BY <2>1, <2>3, <2>4 DEF TurnsPaid
<1>10. ASSUME Restart PROVE TurnsPaid'
  BY <1>10 DEF Restart, TurnsPaid, WitnessTypeOK, NoThread, NoCall
<1>11. ASSUME UNCHANGED vars PROVE TurnsPaid'
  BY <1>11 DEF vars, server, TurnsPaid
<1>12. QED
  BY <1>1, <1>2, <1>3, <1>4, <1>5, <1>6, <1>7, <1>8, <1>9, <1>10, <1>11, WitnessSteps

\* A client that is not calling has taken no turn, whatever the step.
LEMMA IdleUnusedKept == WitnessTypeOK /\ IdleUnused /\ [Next]_vars => IdleUnused'
<1> SUFFICES ASSUME WitnessTypeOK, IdleUnused PROVE [Next]_vars => IdleUnused'
  OBVIOUS
<1> USE DEF WitnessTypeOK, IdleUnused, NoCall
<1>1. ASSUME UNCHANGED call PROVE IdleUnused'
  BY <1>1
<1>2. ASSUME NEW t \in Threads, Advance(t) PROVE IdleUnused'
  BY <1>2 DEF Advance, CallStates
<1>3. ASSUME NEW c \in Clients, Send(c) PROVE IdleUnused'
  BY <1>3 DEF Send, CallStates
<1>4. ASSUME NEW c \in Clients, Receive(c) PROVE IdleUnused'
  BY <1>4 DEF Receive, CallStates
<1>5. ASSUME NEW c \in Clients, GiveUp(c) PROVE IdleUnused'
  BY <1>5 DEF GiveUp
<1>6. ASSUME NEW c \in Clients, NEW tree \in Trees, Begin(c, tree) PROVE IdleUnused'
  BY <1>6 DEF Begin
<1>7. ASSUME Restart PROVE IdleUnused'
  BY <1>7 DEF Restart
<1> HIDE DEF WitnessTypeOK, IdleUnused, NoCall
<1>8. QED
  BY <1>1, <1>2, <1>3, <1>4, <1>5, <1>6, <1>7, WitnessSteps
     DEF Enter, Conflict, Refuse, CosignAgain, vars

\* However many clients submit at once, and whatever is lost or restarted, a
\* call of witness_submit (tlog.py) that needs another turn needs it because the
\* head moved: k turns too many mean k trees that were cosigned meanwhile.
THEOREM RetriesMeanCosignings == Spec => []TurnsMeanMoves
<1>1. CustodyInv /\ TurnsInv /\ [Next]_vars => TurnsInv'
  BY ServingKept, TurnsPaidKept, IdleUnusedKept DEF CustodyInv, TurnsInv
<1>2. TurnsInv => TurnsMeanMoves
  BY DEF TurnsInv, TurnsPaid, TurnsMeanMoves
<1>3. QED
  BY <1>1, <1>2, TurnsInit, CustodyAlways, PTL DEF Spec
=============================================================================
