----------------------------- MODULE Correlator -----------------------------
(***************************************************************************)
(* internal/call/correlator.go: one Correlator of a transport.Conn.        *)
(* Goroutines that Call, the Serve goroutine that delivers answers with    *)
(* Resolve, and the two goroutines that may Close it (Serve on a read      *)
(* error, Conn.Close) run concurrently.  Every critical section of c.mu is *)
(* one step; what the code does outside the lock is a step of its own.     *)
(***************************************************************************)
EXTENDS Naturals

CONSTANTS
  Callers,  \* goroutines that use Call
  MaxId     \* bound: how many ids nextID may hand out

ASSUME MaxIdAssumption == MaxId \in Nat

(* The goroutines that close: Serve after a read error, and Conn.Close.    *)
Closers == {"serve", "conn"}

Ids == 1 .. MaxId

(* Content of a waiter's channel, which has a buffer of one.               *)
Empty == "empty"
Slots == {Empty, "answer", "closed"}

(* What a Call returned.                                                   *)
Returns == {"none", "answer", "closed", "timeout", "sendfail"}

VARIABLES
  closed,    \* c.closed
  nextID,    \* c.nextID
  waiters,   \* the ids that are keys of c.waiters
  slot,      \* slot[i]: content of the channel made for id i
  pc,        \* pc[c]: where caller c is in Call
  my,        \* my[c]: the id of caller c's last Call, 0 before the first
  ret,       \* ret[c]: what caller c's last Call returned
  answered,  \* ids for which the peer has sent an answer
  sent,      \* ids whose request reached the wire
  serving,   \* TRUE until Serve has seen the read error
  taken,     \* id Resolve has taken out of waiters and not delivered, or 0
  closing,   \* closing[k]: has closer k swapped the map
  waking     \* waking[k]: ids closer k still has to wake

callVars  == <<pc, my, ret>>
closeVars == <<closing, waking>>
vars == <<closed, nextID, waiters, slot, pc, my, ret, answered, sent,
          serving, taken, closing, waking>>

-----------------------------------------------------------------------------
Init ==
  /\ closed = FALSE
  /\ nextID = 0
  /\ waiters = {}
  /\ slot = [i \in Ids |-> Empty]
  /\ pc = [c \in Callers |-> "idle"]
  /\ my = [c \in Callers |-> 0]
  /\ ret = [c \in Callers |-> "none"]
  /\ answered = {}
  /\ sent = {}
  /\ serving = TRUE
  /\ taken = 0
  /\ closing = [k \in Closers |-> FALSE]
  /\ waking = [k \in Closers |-> {}]

(* Mutants of the guards and updates below.                                *)
NotChecked == TRUE
StuckId == 1
SkippedId == nextID + 2
KeptBy(i) == waiters
NotWoken == {}

(* The closed check, under the lock that also registers the waiter.        *)
IsOpen == ~closed

(* The id given out next.                                                  *)
NewId == nextID + 1

(* The map after Resolve took id i, and after discard(i).                  *)
AfterTake(i) == waiters \ {i}
AfterDiscard(i) == waiters \ {i}

(* The waiters Close found in the map it swapped.                          *)
ToWake == waiters

(* Call, first critical section, when the correlator is open: a new id and *)
(* its waiter.                                                             *)
Register(c) ==
  /\ pc[c] = "idle"
  /\ IsOpen
  /\ nextID < MaxId
  /\ nextID' = NewId
  /\ waiters' = waiters \cup {NewId}
  /\ my' = [my EXCEPT ![c] = NewId]
  /\ pc' = [pc EXCEPT ![c] = "send"]
  /\ ret' = [ret EXCEPT ![c] = "none"]
  /\ UNCHANGED <<closed, slot, answered, sent, serving, taken, closeVars>>

(* Call on a closed correlator: ErrClosed before any id is taken.          *)
Refuse(c) ==
  /\ pc[c] = "idle"
  /\ closed
  /\ my' = [my EXCEPT ![c] = 0]
  /\ ret' = [ret EXCEPT ![c] = "closed"]
  /\ UNCHANGED <<closed, nextID, waiters, slot, pc, answered, sent, serving,
                 taken, closeVars>>

(* c.send outside the lock; the write may fail.                            *)
Send(c) ==
  /\ pc[c] = "send"
  /\ \/ /\ sent' = sent \cup {my[c]}
        /\ pc' = [pc EXCEPT ![c] = "wait"]
        /\ UNCHANGED ret
     \/ /\ pc' = [pc EXCEPT ![c] = "leave"]
        /\ ret' = [ret EXCEPT ![c] = "sendfail"]
        /\ UNCHANGED sent
  /\ UNCHANGED <<closed, nextID, waiters, slot, my, answered, serving, taken,
                 closeVars>>

(* The select of Call, its channel ready.                                  *)
Receive(c) ==
  /\ pc[c] = "wait"
  /\ slot[my[c]] # Empty
  /\ ret' = [ret EXCEPT ![c] = slot[my[c]]]
  /\ slot' = [slot EXCEPT ![my[c]] = Empty]
  /\ pc' = [pc EXCEPT ![c] = "leave"]
  /\ UNCHANGED <<closed, nextID, waiters, my, answered, sent, serving, taken,
                 closeVars>>

(* The select of Call, its context done (also when the channel is ready).  *)
Timeout(c) ==
  /\ pc[c] = "wait"
  /\ ret' = [ret EXCEPT ![c] = "timeout"]
  /\ pc' = [pc EXCEPT ![c] = "leave"]
  /\ UNCHANGED <<closed, nextID, waiters, slot, my, answered, sent, serving,
                 taken, closeVars>>

(* The deferred discard, and the return.                                   *)
Discard(c) ==
  /\ pc[c] = "leave"
  /\ waiters' = AfterDiscard(my[c])
  /\ pc' = [pc EXCEPT ![c] = "idle"]
  /\ UNCHANGED <<closed, nextID, slot, my, ret, answered, sent, serving, taken,
                 closeVars>>

(* The peer answers a request it received.                                 *)
PeerAnswers(i) ==
  /\ i \in sent \ answered
  /\ answered' = answered \cup {i}
  /\ UNCHANGED <<closed, nextID, waiters, slot, callVars, sent, serving, taken,
                 closeVars>>

(* Resolve, its critical section: an answer frame (possibly one delivered  *)
(* before) takes the waiter out of the map; an unknown id is ignored.      *)
ResolveTake(i) ==
  /\ serving /\ taken = 0
  /\ i \in answered \cap waiters
  /\ waiters' = AfterTake(i)
  /\ taken' = i
  /\ UNCHANGED <<closed, nextID, slot, callVars, answered, sent, serving,
                 closeVars>>

(* Resolve, the channel send after the unlock: blocks on a full buffer.    *)
ResolvePut ==
  /\ taken # 0
  /\ slot[taken] = Empty
  /\ slot' = [slot EXCEPT ![taken] = "answer"]
  /\ taken' = 0
  /\ UNCHANGED <<closed, nextID, waiters, callVars, answered, sent, serving,
                 closeVars>>

(* Close, its critical section: swap the map for an empty one.  Serve      *)
(* closes after its read error, never in the middle of a Resolve.          *)
CloseSwap(k) ==
  /\ ~closing[k]
  /\ k = "serve" => taken = 0
  /\ serving' = (serving /\ k # "serve")
  /\ closed' = TRUE
  /\ waking' = [waking EXCEPT ![k] = ToWake]
  /\ waiters' = {}
  /\ closing' = [closing EXCEPT ![k] = TRUE]
  /\ UNCHANGED <<nextID, slot, callVars, answered, sent, taken>>

(* Close, one channel send after the unlock: blocks on a full buffer.      *)
CloseWake(k, i) ==
  /\ i \in waking[k]
  /\ slot[i] = Empty
  /\ slot' = [slot EXCEPT ![i] = "closed"]
  /\ waking' = [waking EXCEPT ![k] = @ \ {i}]
  /\ UNCHANGED <<closed, nextID, waiters, callVars, answered, sent, serving,
                 taken, closing>>

Next ==
  \/ \E c \in Callers : \/ Register(c) \/ Refuse(c) \/ Send(c)
                        \/ Receive(c) \/ Timeout(c) \/ Discard(c)
  \/ \E i \in Ids : PeerAnswers(i) \/ ResolveTake(i)
  \/ ResolvePut
  \/ \E k \in Closers : CloseSwap(k) \/ \E i \in Ids : CloseWake(k, i)

Spec == Init /\ [][Next]_vars

(* Goroutines that can run do run: the code between two blocking points of *)
(* Call, Resolve and Close always proceeds.  Nothing is assumed of the     *)
(* peer, of the context (many Calls use context.Background()), nor that    *)
(* anyone closes.                                                          *)
Fairness ==
  /\ \A c \in Callers : /\ WF_vars(Send(c))
                        /\ WF_vars(Receive(c))
                        /\ WF_vars(Discard(c))
  /\ WF_vars(ResolvePut)
  /\ \A k \in Closers : WF_vars(\E i \in Ids : CloseWake(k, i))

FairSpec == Spec /\ Fairness

-----------------------------------------------------------------------------
TypeOK ==
  /\ closed \in BOOLEAN
  /\ nextID \in 0 .. MaxId
  /\ waiters \subseteq Ids
  /\ slot \in [Ids -> Slots]
  /\ pc \in [Callers -> {"idle", "send", "wait", "leave"}]
  /\ my \in [Callers -> 0 .. MaxId]
  /\ ret \in [Callers -> Returns]
  /\ answered \subseteq Ids
  /\ sent \subseteq Ids
  /\ serving \in BOOLEAN
  /\ taken \in 0 .. MaxId
  /\ closing \in [Closers -> BOOLEAN]
  /\ waking \in [Closers -> SUBSET Ids]

(* Ids a goroutine has taken out of the map and not yet put in a channel.  *)
Owed == {i \in Ids : i = taken \/ \E k \in Closers : i \in waking[k]}

(* "Buffer 1: Resolve and Close never block" (correlator.go:58): whenever  *)
(* Resolve or Close still owes an id its send, that channel is empty, so   *)
(* neither the receive loop nor Conn.Close can be stopped by a caller.     *)
SendsNeverBlock == \A i \in Owed : slot[i] = Empty

(* A waiter in the map belongs to a Call in progress: neither a timeout,   *)
(* a failed send nor a Close leaves an entry behind.                       *)
NoWaiterLeaks == \A i \in waiters : \E c \in Callers : pc[c] # "idle" /\ my[c] = i

(* A Call that returns an answer returns the answer to its own request:    *)
(* the peer answered that very id, and no other caller shares it.          *)
AnswersMatch ==
  \A c \in Callers :
    /\ ret[c] = "answer" => my[c] \in answered
    /\ \A d \in Callers : d # c /\ my[c] # 0 => my[d] # my[c]

(* Once closed, the map stays empty: no Call can slip in a waiter that the *)
(* swap of Close missed and that nobody would ever wake.                   *)
NoWaiterAfterClose == closed => waiters = {}

(* "Close wakes every Call in progress" (correlator.go:98): after Close,   *)
(* each Call returns even if its context never expires and the peer is     *)
(* silent.                                                                 *)
CloseWakesAll == \A c \in Callers : closed /\ pc[c] # "idle" ~> pc[c] = "idle"
=============================================================================
