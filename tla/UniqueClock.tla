---------------------------- MODULE UniqueClock ----------------------------
(***************************************************************************)
(* The stamp source of XValueRT: UniqueClock::Timestamp reads a clock and  *)
(* passes the reading to Monotonic::Next, which turns readings that may    *)
(* repeat or go backwards into unique, increasing stamps with one shared   *)
(* atomic and a compare-exchange loop.  Every XValueRT built from a value  *)
(* takes its stamp here, from any thread and under no lock.                *)
(*                                                                         *)
(* One action per atomic operation on `prev`.  The counter is an integer   *)
(* without a width: it starts at INT64_MIN (Absent) and advances by ticks  *)
(* of 100 ns, so that it does not reach INT64_MAX.                         *)
(***************************************************************************)
EXTENDS Integers

CONSTANTS
  Threads,     \* the threads that ask for stamps
  Readings,    \* what the clock may show, in any order (it may step back)
  Absent,      \* kAbsentRT, the initial value of prev
  MaxCalls     \* bound: how many calls are made in one behaviour

ASSUME ConstantsAssumption ==
  /\ Absent \in Int
  /\ Readings \subseteq Int
  /\ MaxCalls \in Nat

VARIABLES
  prev,        \* the static atomic of Monotonic::Next
  pc,          \* where each thread is: "idle", "fetch" or "exchange"
  val,         \* per thread: first the reading, then the stamp it proposes
  nextMin,     \* per thread: what it last saw in prev
  last,        \* history: the stamp returned most recently
  handed,      \* history: how many were returned
  calls        \* bound: the calls begun so far

vars == <<prev, pc, val, nextMin, last, handed, calls>>

Larger(a, b) == IF a >= b THEN a ELSE b        \* std::max

Init ==
  /\ prev = Absent
  /\ pc = [t \in Threads |-> "idle"]
  /\ val = [t \in Threads |-> Absent]
  /\ nextMin = [t \in Threads |-> Absent]
  /\ last = Absent
  /\ handed = 0
  /\ calls = 0

(* Timestamp reads the clock before it enters Next. *)
Timestamp(t) ==
  /\ pc[t] = "idle"
  /\ calls < MaxCalls
  /\ calls' = calls + 1
  /\ \E now \in Readings : val' = [val EXCEPT ![t] = now]
  /\ pc' = [pc EXCEPT ![t] = "fetch"]
  /\ UNCHANGED <<prev, nextMin, last, handed>>

(* next_min = prev.fetch_add(1) + 1; val = max(_val, next_min) *)
FetchAdd(t) ==
  /\ pc[t] = "fetch"
  /\ prev' = prev + 1
  /\ nextMin' = [nextMin EXCEPT ![t] = prev + 1]
  /\ val' = [val EXCEPT ![t] = Larger(@, prev + 1)]
  /\ pc' = [pc EXCEPT ![t] = "exchange"]
  /\ UNCHANGED <<last, handed, calls>>

(* prev.compare_exchange_strong(next_min, val) succeeds: val is returned. *)
ExchangeReturn(t) ==
  /\ pc[t] = "exchange"
  /\ prev = nextMin[t]
  /\ prev' = val[t]
  /\ last' = val[t]
  /\ handed' = handed + 1
  /\ pc' = [pc EXCEPT ![t] = "idle"]
  /\ UNCHANGED <<val, nextMin, calls>>

(* Mutation: the retry proposes what it saw, not one more. *)
ExchangeRetrySame(t) ==
  /\ pc[t] = "exchange"
  /\ prev # nextMin[t]
  /\ nextMin' = [nextMin EXCEPT ![t] = prev]
  /\ val' = [val EXCEPT ![t] = Larger(prev, @)]
  /\ UNCHANGED <<prev, pc, last, handed, calls>>

(* Mutation: the failed exchange does not reload next_min. *)
ExchangeRetryStale(t) ==
  /\ pc[t] = "exchange"
  /\ prev # nextMin[t]
  /\ val' = [val EXCEPT ![t] = Larger(nextMin[t] + 1, @)]
  /\ UNCHANGED <<prev, pc, nextMin, last, handed, calls>>

(* It fails: next_min is reloaded and a larger stamp proposed. *)
ExchangeRetry(t) ==
  /\ pc[t] = "exchange"
  /\ prev # nextMin[t]
  /\ nextMin' = [nextMin EXCEPT ![t] = prev]
  /\ val' = [val EXCEPT ![t] = Larger(prev + 1, @)]
  /\ UNCHANGED <<prev, pc, last, handed, calls>>

Step(t) == FetchAdd(t) \/ ExchangeReturn(t) \/ ExchangeRetry(t)

Next == \E t \in Threads : Timestamp(t) \/ Step(t)

Spec == Init /\ [][Next]_vars

(* A thread inside Timestamp keeps being scheduled; no thread has to call. *)
FairSpec == Spec /\ \A t \in Threads : WF_vars(Step(t))

-----------------------------------------------------------------------------

TypeOK ==
  /\ prev \in Int
  /\ pc \in [Threads -> {"idle", "fetch", "exchange"}]
  /\ val \in [Threads -> Int]
  /\ nextMin \in [Threads -> Int]
  /\ last \in Int
  /\ handed \in Nat
  /\ calls \in 0..MaxCalls

(* A thread whose proposal is the value its own fetch_add installed: its   *)
(* exchange would leave prev as it is, so nothing in prev tells others     *)
(* that the stamp is taken.                                                *)
Claims(t) == pc[t] = "exchange" /\ val[t] = nextMin[t]

(* Why the exchange that changes nothing is safe.  The stamps handed out   *)
(* never pass prev; a claim is never shared by two threads; and while a    *)
(* claimed value is still in prev, it has not been handed out.             *)
ClaimsAreExclusive ==
  /\ last <= prev
  /\ \A t \in Threads : pc[t] = "exchange" =>
       nextMin[t] <= prev /\ nextMin[t] <= val[t]
  /\ \A t \in Threads : Claims(t) /\ prev = nextMin[t] => last < prev
  /\ \A t, u \in Threads : Claims(t) /\ Claims(u) /\ t # u =>
       nextMin[t] # nextMin[u]

(* UniqueClock keeps the promise of a stamp source: the value returned by  *)
(* every Monotonic::Next is larger than any it returned before, to any     *)
(* thread, whatever the clock shows.                                       *)
Source == INSTANCE StampSource
HandsOutIncreasingStamps == Source!Spec

(* The loop of Next is lock-free: a failed exchange means that another     *)
(* thread moved on, so when no more calls are begun every pending one      *)
(* returns.                                                                *)
PendingCallsReturn == \A t \in Threads : pc[t] # "idle" ~> pc[t] = "idle"
=============================================================================
