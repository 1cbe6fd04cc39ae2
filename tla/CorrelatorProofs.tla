-------------------------- MODULE CorrelatorProofs --------------------------
(***************************************************************************)
(* Safety of the Correlator for any set of callers and any number of ids.  *)
(* The invariants TLC checks are not inductive: that no channel send can   *)
(* block rests on who owns an id.  IInv says that an id is in at most one  *)
(* place (the map, Resolve's hand, one closer's swapped map), that its     *)
(* channel is empty while it is in any of them, and that ids above nextID  *)
(* are nowhere.                                                            *)
(***************************************************************************)
EXTENDS Correlator, TLAPS

(* Ids not handed out yet are unused.                                      *)
Fresh ==
  \A i \in Ids : i > nextID =>
    /\ i \notin waiters /\ i # taken /\ slot[i] = Empty
    /\ \A k \in Closers : i \notin waking[k]
    /\ \A c \in Callers : my[c] # i

(* An id has one owner, and an owned id an empty channel.                  *)
OneOwner ==
  \A i \in Ids :
    /\ i \in waiters =>
         /\ i # taken /\ slot[i] = Empty
         /\ \A k \in Closers : i \notin waking[k]
    /\ i = taken => slot[i] = Empty /\ \A k \in Closers : i \notin waking[k]
    /\ \A k \in Closers : i \in waking[k] =>
         /\ slot[i] = Empty
         /\ \A l \in Closers : l # k => i \notin waking[l]

(* What is called an answer was answered by the peer.                      *)
Truthful ==
  /\ taken # 0 => taken \in answered
  /\ \A i \in Ids : slot[i] = "answer" => i \in answered
  /\ \A c \in Callers : ret[c] = "answer" => my[c] \in answered

(* Callers own distinct ids, and a Call in progress owns one.              *)
CallersApart ==
  /\ \A c, d \in Callers : c # d /\ my[c] # 0 => my[d] # my[c]
  /\ \A c \in Callers : pc[c] # "idle" => my[c] \in Ids

CloseFlags == \A k \in Closers : closing[k] => closed

IInv ==
  /\ TypeOK /\ Fresh /\ OneOwner /\ Truthful /\ CallersApart
  /\ NoWaiterLeaks /\ NoWaiterAfterClose /\ CloseFlags

-----------------------------------------------------------------------------
LEMMA InitIInv == Init => IInv
<1> SUFFICES ASSUME Init PROVE IInv
  OBVIOUS
<1> USE MaxIdAssumption DEF Init, Ids, Empty, Closers
<1>1. TypeOK
  <2>1. /\ slot \in [Ids -> Slots] /\ pc \in [Callers -> {"idle", "send", "wait", "leave"}]
        /\ my \in [Callers -> 0 .. MaxId] /\ ret \in [Callers -> Returns]
    BY DEF Slots, Returns
  <2>2. closing \in [Closers -> BOOLEAN] /\ waking \in [Closers -> SUBSET Ids]
    OBVIOUS
  <2>3. nextID \in 0 .. MaxId /\ taken \in 0 .. MaxId /\ waiters \subseteq Ids
        /\ answered \subseteq Ids /\ sent \subseteq Ids
    OBVIOUS
  <2>4. closed \in BOOLEAN /\ serving \in BOOLEAN
    OBVIOUS
  <2> HIDE DEF Init, Ids, Closers
  <2> QED BY <2>1, <2>2, <2>3, <2>4 DEF TypeOK
<1>2. Fresh /\ OneOwner BY DEF Fresh, OneOwner
<1>3. Truthful BY DEF Truthful
<1>4. CallersApart BY DEF CallersApart
<1>5. NoWaiterLeaks /\ NoWaiterAfterClose /\ CloseFlags
  BY DEF NoWaiterLeaks, NoWaiterAfterClose, CloseFlags
<1> QED BY <1>1, <1>2, <1>3, <1>4, <1>5 DEF IInv

LEMMA NextIInv == IInv /\ [Next]_vars => IInv'
<1> SUFFICES ASSUME IInv, [Next]_vars PROVE IInv'
  OBVIOUS
<1> USE MaxIdAssumption DEF IInv, TypeOK, Ids, Slots, Returns, Empty, Closers,
        callVars, closeVars
<1>1. ASSUME NEW c \in Callers, Register(c) PROVE IInv'
  <2> USE <1>1 DEF Register, IsOpen, NewId
  <2>1. TypeOK' OBVIOUS
  <2>2. Fresh' BY DEF Fresh
  <2>3. OneOwner' BY DEF OneOwner, Fresh
  <2>4. Truthful' BY DEF Truthful
  <2>5. CallersApart' BY DEF CallersApart, Fresh
  <2>6. NoWaiterLeaks' BY DEF NoWaiterLeaks
  <2>7. NoWaiterAfterClose' /\ CloseFlags' BY DEF NoWaiterAfterClose, CloseFlags
  <2> QED BY <2>1, <2>2, <2>3, <2>4, <2>5, <2>6, <2>7
<1>2. ASSUME NEW c \in Callers, Refuse(c) PROVE IInv'
  <2> USE <1>2 DEF Refuse
  <2>1. TypeOK' OBVIOUS
  <2>2. Fresh' BY DEF Fresh
  <2>3. OneOwner' BY DEF OneOwner
  <2>4. Truthful' BY DEF Truthful
  <2>5. CallersApart' BY DEF CallersApart
  <2>6. NoWaiterLeaks' BY DEF NoWaiterLeaks
  <2>7. NoWaiterAfterClose' /\ CloseFlags' BY DEF NoWaiterAfterClose, CloseFlags
  <2> QED BY <2>1, <2>2, <2>3, <2>4, <2>5, <2>6, <2>7
<1>3. ASSUME NEW c \in Callers, Send(c) PROVE IInv'
  <2> USE <1>3 DEF Send
  <2>1. TypeOK' BY DEF CallersApart
  <2>2. Fresh' BY DEF Fresh
  <2>3. OneOwner' BY DEF OneOwner
  <2>4. Truthful' BY DEF Truthful
  <2>5. CallersApart' BY DEF CallersApart
  <2>6. NoWaiterLeaks' BY DEF NoWaiterLeaks
  <2>7. NoWaiterAfterClose' /\ CloseFlags' BY DEF NoWaiterAfterClose, CloseFlags
  <2> QED BY <2>1, <2>2, <2>3, <2>4, <2>5, <2>6, <2>7
<1>12. ASSUME NEW c \in Callers, Timeout(c) PROVE IInv'
  <2> USE <1>12 DEF Timeout
  <2>1. TypeOK' BY DEF CallersApart
  <2>2. Fresh' BY DEF Fresh
  <2>3. OneOwner' BY DEF OneOwner
  <2>4. Truthful' BY DEF Truthful
  <2>5. CallersApart' BY DEF CallersApart
  <2>6. NoWaiterLeaks' BY DEF NoWaiterLeaks
  <2>7. NoWaiterAfterClose' /\ CloseFlags' BY DEF NoWaiterAfterClose, CloseFlags
  <2> QED BY <2>1, <2>2, <2>3, <2>4, <2>5, <2>6, <2>7
<1>4. ASSUME NEW c \in Callers, Receive(c) PROVE IInv'
  <2> USE <1>4 DEF Receive
  <2>0. my[c] \in Ids BY DEF CallersApart
  <2>1. TypeOK' BY <2>0
  <2>2. Fresh' BY <2>0 DEF Fresh
  <2>3. OneOwner' BY <2>0 DEF OneOwner
  <2>4. Truthful' BY <2>0 DEF Truthful
  <2>5. CallersApart' BY DEF CallersApart
  <2>6. NoWaiterLeaks' BY DEF NoWaiterLeaks
  <2>7. NoWaiterAfterClose' /\ CloseFlags' BY DEF NoWaiterAfterClose, CloseFlags
  <2> QED BY <2>1, <2>2, <2>3, <2>4, <2>5, <2>6, <2>7
<1>5. ASSUME NEW c \in Callers, Discard(c) PROVE IInv'
  <2> USE <1>5 DEF Discard, AfterDiscard
  <2>1. TypeOK' OBVIOUS
  <2>2. Fresh' BY DEF Fresh
  <2>3. OneOwner' BY DEF OneOwner
  <2>4. Truthful' BY DEF Truthful
  <2>5. CallersApart' BY DEF CallersApart
  <2>6. NoWaiterLeaks' BY DEF NoWaiterLeaks
  <2>7. NoWaiterAfterClose' /\ CloseFlags' BY DEF NoWaiterAfterClose, CloseFlags
  <2> QED BY <2>1, <2>2, <2>3, <2>4, <2>5, <2>6, <2>7
<1>6. ASSUME NEW i \in Ids, PeerAnswers(i) PROVE IInv'
  <2> USE <1>6 DEF PeerAnswers
  <2>1. TypeOK' OBVIOUS
  <2>2. Fresh' BY DEF Fresh
  <2>3. OneOwner' BY DEF OneOwner
  <2>4. Truthful' BY DEF Truthful
  <2>5. CallersApart' BY DEF CallersApart
  <2>6. NoWaiterLeaks' BY DEF NoWaiterLeaks
  <2>7. NoWaiterAfterClose' /\ CloseFlags' BY DEF NoWaiterAfterClose, CloseFlags
  <2> QED BY <2>1, <2>2, <2>3, <2>4, <2>5, <2>6, <2>7
<1>7. ASSUME NEW i \in Ids, ResolveTake(i) PROVE IInv'
  <2> USE <1>7 DEF ResolveTake, AfterTake
  <2>1. TypeOK' OBVIOUS
  <2>2. Fresh' BY DEF Fresh
  <2>3. OneOwner' BY DEF OneOwner
  <2>4. Truthful' BY DEF Truthful
  <2>5. CallersApart' BY DEF CallersApart
  <2>6. NoWaiterLeaks' BY DEF NoWaiterLeaks
  <2>7. NoWaiterAfterClose' /\ CloseFlags' BY DEF NoWaiterAfterClose, CloseFlags
  <2> QED BY <2>1, <2>2, <2>3, <2>4, <2>5, <2>6, <2>7
<1>8. ASSUME ResolvePut PROVE IInv'
  <2> USE <1>8 DEF ResolvePut
  <2>1. TypeOK' OBVIOUS
  <2>2. Fresh' BY DEF Fresh
  <2>3. OneOwner' BY DEF OneOwner
  <2>4. Truthful' BY DEF Truthful
  <2>5. CallersApart' BY DEF CallersApart
  <2>6. NoWaiterLeaks' BY DEF NoWaiterLeaks
  <2>7. NoWaiterAfterClose' /\ CloseFlags' BY DEF NoWaiterAfterClose, CloseFlags
  <2> QED BY <2>1, <2>2, <2>3, <2>4, <2>5, <2>6, <2>7
<1>9. ASSUME NEW k \in Closers, CloseSwap(k) PROVE IInv'
  <2> USE <1>9 DEF CloseSwap, ToWake
  <2>1. TypeOK' OBVIOUS
  <2>2. Fresh' BY DEF Fresh
  <2>3. OneOwner' BY DEF OneOwner
  <2>4. Truthful' BY DEF Truthful
  <2>5. CallersApart' BY DEF CallersApart
  <2>6. NoWaiterLeaks' BY DEF NoWaiterLeaks
  <2>7. NoWaiterAfterClose' /\ CloseFlags' BY DEF NoWaiterAfterClose, CloseFlags
  <2> QED BY <2>1, <2>2, <2>3, <2>4, <2>5, <2>6, <2>7
<1>10. ASSUME NEW k \in Closers, NEW i \in Ids, CloseWake(k, i) PROVE IInv'
  <2> USE <1>10 DEF CloseWake
  <2>1. TypeOK' OBVIOUS
  <2>2. Fresh' BY DEF Fresh
  <2>3. OneOwner' BY DEF OneOwner
  <2>4. Truthful' BY DEF Truthful
  <2>5. CallersApart' BY DEF CallersApart
  <2>6. NoWaiterLeaks' BY DEF NoWaiterLeaks
  <2>7. NoWaiterAfterClose' /\ CloseFlags' BY DEF NoWaiterAfterClose, CloseFlags
  <2> QED BY <2>1, <2>2, <2>3, <2>4, <2>5, <2>6, <2>7
<1>11. CASE UNCHANGED vars
  BY <1>11 DEF vars, Fresh, OneOwner, Truthful, CallersApart, NoWaiterLeaks,
     NoWaiterAfterClose, CloseFlags
<1> QED
  BY <1>1, <1>2, <1>3, <1>4, <1>5, <1>6, <1>7, <1>8, <1>9, <1>10,
     <1>11, <1>12 DEF Next

(* IInv holds throughout: the base of the three theorems below.            *)
THEOREM Invariance == Spec => []IInv
  BY InitIInv, NextIInv, PTL DEF Spec

(* Every variable keeps its type (the typing of the fields and channels of *)
(* correlator.go).                                                         *)
THEOREM TypeCorrect == Spec => []TypeOK
  BY Invariance, PTL DEF IInv

(* Resolve and Close never block on a waiter's channel, for any number of  *)
(* callers: the claim of correlator.go:58.                                 *)
THEOREM NeverBlocks == Spec => []SendsNeverBlock
<1>1. IInv => SendsNeverBlock
  BY DEF IInv, OneOwner, SendsNeverBlock, Owed
<1> QED BY <1>1, Invariance, PTL

(* A closed correlator holds no waiter, and an open one only those of      *)
(* Calls in progress.                                                      *)
THEOREM WaitersTracked == Spec => [](NoWaiterLeaks /\ NoWaiterAfterClose)
  BY Invariance, PTL DEF IInv

(* Each Call gets the answer to its own request.                           *)
THEOREM OwnAnswer == Spec => []AnswersMatch
<1>1. IInv => AnswersMatch
  BY DEF IInv, Truthful, CallersApart, AnswersMatch
<1> QED BY <1>1, Invariance, PTL
=============================================================================
