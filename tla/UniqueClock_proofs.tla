------------------------ MODULE UniqueClock_proofs ------------------------
(***************************************************************************)
(* Proofs about UniqueClock, for any set of threads, any clock and any     *)
(* number of calls.                                                        *)
(***************************************************************************)
EXTENDS UniqueClock, TLAPS

(* Every variable of the clock keeps its type: the state of Monotonic::Next *)
(* is made of integers and program counters.                               *)
THEOREM TypeCorrect == Spec => []TypeOK
<1> USE ConstantsAssumption DEF TypeOK
<1>1. Init => TypeOK
  BY DEF Init
<1>2. TypeOK /\ [Next]_vars => TypeOK'
  <2> SUFFICES ASSUME TypeOK, [Next]_vars PROVE TypeOK'
    OBVIOUS
  <2>1. ASSUME NEW t \in Threads, Timestamp(t) PROVE TypeOK'
    BY <2>1 DEF Timestamp
  <2>2. ASSUME NEW t \in Threads, FetchAdd(t) PROVE TypeOK'
    BY <2>2 DEF FetchAdd, Larger
  <2>3. ASSUME NEW t \in Threads, ExchangeReturn(t) PROVE TypeOK'
    BY <2>3 DEF ExchangeReturn
  <2>4. ASSUME NEW t \in Threads, ExchangeRetry(t) PROVE TypeOK'
    BY <2>4 DEF ExchangeRetry, Larger
  <2>5. CASE UNCHANGED vars
    BY <2>5 DEF vars
  <2> QED
    BY <2>1, <2>2, <2>3, <2>4, <2>5 DEF Next, Step
<1> QED
  BY <1>1, <1>2, PTL DEF Spec

(* ClaimsAreExclusive is inductive on its own, given the types: every      *)
(* atomic operation of Monotonic::Next keeps the claims apart.             *)
LEMMA ClaimsStep == TypeOK /\ ClaimsAreExclusive /\ [Next]_vars => ClaimsAreExclusive'
<1> SUFFICES ASSUME TypeOK, ClaimsAreExclusive, [Next]_vars
             PROVE  ClaimsAreExclusive'
  OBVIOUS
<1> USE DEF TypeOK, ClaimsAreExclusive, Claims
<1>1. ASSUME NEW t \in Threads, Timestamp(t) PROVE ClaimsAreExclusive'
  BY <1>1 DEF Timestamp
<1>2. ASSUME NEW t \in Threads, FetchAdd(t) PROVE ClaimsAreExclusive'
  BY <1>2 DEF FetchAdd, Larger
<1>3. ASSUME NEW t \in Threads, ExchangeReturn(t) PROVE ClaimsAreExclusive'
  BY <1>3 DEF ExchangeReturn
<1>4. ASSUME NEW t \in Threads, ExchangeRetry(t) PROVE ClaimsAreExclusive'
  BY <1>4 DEF ExchangeRetry, Larger
<1>5. CASE UNCHANGED vars
  BY <1>5 DEF vars
<1> QED
  BY <1>1, <1>2, <1>3, <1>4, <1>5 DEF Next, Step

(* At no point do two threads hold the same proposal unnoticed, nor is a   *)
(* proposal that equals prev already handed out.                           *)
THEOREM ClaimsExclusive == Spec => []ClaimsAreExclusive
<1>1. Init => ClaimsAreExclusive
  BY ConstantsAssumption DEF Init, ClaimsAreExclusive, Claims
<1> QED
  BY <1>1, ClaimsStep, TypeCorrect, PTL DEF Spec

(* UniqueClock implements StampSource: the stamps that Monotonic::Next     *)
(* returns are strictly increasing, so that no two XValueRT ever share one *)
(* and none carries kAbsentRT.                                             *)
THEOREM StampsIncrease == Spec => HandsOutIncreasingStamps
<1>1. Init => Source!Init
  BY DEF Init, Source!Init
<1>2. TypeOK /\ ClaimsAreExclusive /\ [Next]_vars => [Source!HandOut]_<<last, handed>>
  <2> SUFFICES ASSUME TypeOK, ClaimsAreExclusive, [Next]_vars
               PROVE  [Source!HandOut]_<<last, handed>>
    OBVIOUS
  <2>1. ASSUME NEW t \in Threads, Timestamp(t) PROVE UNCHANGED <<last, handed>>
    BY <2>1 DEF Timestamp
  <2>2. ASSUME NEW t \in Threads, FetchAdd(t) PROVE UNCHANGED <<last, handed>>
    BY <2>2 DEF FetchAdd
  <2>3. ASSUME NEW t \in Threads, ExchangeReturn(t) PROVE Source!HandOut
    BY <2>3 DEF ExchangeReturn, TypeOK, ClaimsAreExclusive, Claims, Source!HandOut
  <2>4. ASSUME NEW t \in Threads, ExchangeRetry(t) PROVE UNCHANGED <<last, handed>>
    BY <2>4 DEF ExchangeRetry
  <2>5. CASE UNCHANGED vars
    BY <2>5 DEF vars
  <2> QED
    BY <2>1, <2>2, <2>3, <2>4, <2>5 DEF Next, Step
<1> QED
  BY <1>1, <1>2, TypeCorrect, ClaimsExclusive, PTL
     DEF Spec, HandsOutIncreasingStamps, Source!Spec
=============================================================================
