-------------------------- MODULE GrpcSessions_proofs --------------------------
(***************************************************************************)
(* Theorems about the session pool, for every set of origins and every     *)
(* number of sessions.                                                     *)
(***************************************************************************)
EXTENDS GrpcSessions, TLAPS

(* The pooled session of an origin is its own, and the last one opened for *)
(* it: an older one is what an error can come too late from.               *)
PoolsTheNewest ==
  \A o \in Origins : sessions[o] # 0 =>
     /\ originOf[sessions[o]] = o
     /\ \A s \in 1..opened : originOf[s] = o => s <= sessions[o]

IInv == TypeOK /\ PoolsTheNewest /\ LiveIsPooledOrEvicted

(* What appending one element does to a sequence. *)
LEMMA Appended ==
  ASSUME NEW S, NEW s \in Seq(S), NEW e \in S
  PROVE  /\ Append(s, e) \in Seq(S)
         /\ Len(Append(s, e)) = Len(s) + 1
         /\ Append(s, e)[Len(s) + 1] = e
         /\ \A i \in 1..Len(s) : Append(s, e)[i] = s[i]
OBVIOUS

(* A function on an initial segment of the numbers is a sequence. *)
LEMMA Functions ==
  ASSUME NEW S, NEW n \in Nat, NEW f \in [1..n -> S]
  PROVE  f \in Seq(S) /\ Len(f) = n
OBVIOUS

(* Without a session the pool is empty, and nothing is lost. *)
LEMMA InitInv == Init => IInv
<1> SUFFICES ASSUME Init PROVE IInv
  OBVIOUS
<1> USE MaxSessionsAssumption
<1>1. Len(state) = 0 /\ Len(originOf) = 0 /\ Len(evictedBy) = 0
  BY DEF Init
<1>2. TypeOK
  BY <1>1 DEF Init, TypeOK, opened, Ids, States
<1>3. PoolsTheNewest
  BY DEF Init, PoolsTheNewest
<1>4. LiveIsPooledOrEvicted
  BY <1>1 DEF LiveIsPooledOrEvicted, live, opened
<1>5. QED
  BY <1>2, <1>3, <1>4 DEF IInv

(* A new session is pooled in place of one that is no longer live. *)
LEMMA ConnectingInv ==
  ASSUME IInv, NEW o \in Origins, CallConnecting(o)
  PROVE  IInv'
<1> USE MaxSessionsAssumption DEF CallConnecting
<1>1. /\ originOf \in Seq(Origins) /\ Len(originOf) = opened
      /\ state \in Seq(States) /\ Len(state) = opened /\ opened \in Nat
      /\ evictedBy \in Seq(Ids) /\ Len(evictedBy) = opened
      /\ sessions \in [Origins -> 0..opened]
  BY DEF IInv, TypeOK, opened
<1>2. /\ originOf' \in Seq(Origins) /\ Len(originOf') = opened + 1
      /\ originOf'[opened + 1] = o
      /\ \A s \in 1..opened : originOf'[s] = originOf[s]
  BY <1>1, Appended
<1>3. /\ state' \in Seq(States) /\ Len(state') = opened + 1
      /\ \A s \in 1..opened : state'[s] = state[s]
  <2>1. "live" \in States
    BY DEF States
  <2>2. QED
    BY <1>1, <2>1, Appended
<1>4. /\ evictedBy' \in Seq(Ids) /\ Len(evictedBy') = opened + 1
      /\ \A s \in 1..opened : evictedBy'[s] = evictedBy[s]
  <2>1. 0 \in Ids
    BY DEF Ids
  <2>2. QED
    BY <1>1, <2>1, Appended
<1>5. opened' = opened + 1
  BY <1>3 DEF opened
<1>6. TypeOK'
  <2>1. sessions' \in [Origins -> 0..opened']
    BY <1>1, <1>5
  <2>2. QED
    BY <1>1, <1>2, <1>3, <1>4, <1>5, <2>1 DEF TypeOK
<1>7. PoolsTheNewest'
  <2> SUFFICES ASSUME NEW p \in Origins, sessions'[p] # 0
               PROVE  /\ originOf'[sessions'[p]] = p
                      /\ \A s \in 1..opened' : originOf'[s] = p => s <= sessions'[p]
    BY DEF PoolsTheNewest
  <2>1. CASE p = o
    BY <1>1, <1>2, <1>5, <2>1
  <2>2. CASE p # o
    <3>1. sessions'[p] = sessions[p] /\ sessions[p] \in 1..opened
      BY <1>1, <2>2
    <3>2. originOf[sessions[p]] = p /\ \A s \in 1..opened : originOf[s] = p => s <= sessions[p]
      BY <3>1 DEF IInv, PoolsTheNewest
    <3>3. QED
      BY <1>1, <1>2, <1>5, <2>2, <3>1, <3>2
  <2>3. QED
    BY <2>1, <2>2
<1>8. LiveIsPooledOrEvicted'
  <2> SUFFICES ASSUME NEW p \in Origins, NEW s \in 1..opened',
                      originOf'[s] = p, state'[s] = "live", sessions'[p] # s
               PROVE  evictedBy'[s] \in 1..(s - 1) /\ originOf'[evictedBy'[s]] = p
    BY DEF LiveIsPooledOrEvicted, live
  <2>1. s \in 1..opened
    BY <1>1, <1>2, <1>5
  <2>2. s \in live(p)
    BY <1>2, <1>3, <2>1 DEF live
  <2>3. sessions[p] # s
    BY <1>1, <2>1, <2>2 DEF usable, live
  <2>4. evictedBy[s] \in 1..(s - 1) /\ originOf[evictedBy[s]] = p
    BY <2>2, <2>3 DEF IInv, LiveIsPooledOrEvicted
  <2>5. QED
    BY <1>1, <1>2, <1>4, <2>1, <2>4
<1>9. QED
  BY <1>6, <1>7, <1>8 DEF IInv

(* A step that only takes sessions out of use: none becomes live. *)
LEMMA FewerLive ==
  ASSUME IInv, UNCHANGED <<originOf, sessions, evictedBy>>,
         state' \in Seq(States), Len(state') = Len(state),
         \A s \in 1..opened : state'[s] = "live" => state[s] = "live"
  PROVE  IInv'
<1>1. opened' = opened
  BY DEF opened
<1>2. TypeOK'
  BY <1>1 DEF IInv, TypeOK, opened
<1>3. PoolsTheNewest'
  BY <1>1 DEF IInv, PoolsTheNewest
<1>4. LiveIsPooledOrEvicted'
  BY <1>1 DEF IInv, LiveIsPooledOrEvicted, live
<1>5. QED
  BY <1>2, <1>3, <1>4 DEF IInv

(* A session whose connection breaks, or that its peer retires. *)
LEMMA OutOfUseInv ==
  ASSUME IInv, NEW s \in 1..opened, Breaks(s) \/ Retires(s) \/ Ends(s)
  PROVE  IInv'
<1>1. state \in Seq(States)
  BY DEF IInv, TypeOK
<1>2. PICK how \in {"closing", "failing", "gone"} : state' = [state EXCEPT ![s] = how]
  BY DEF Breaks, Retires, Ends
<1>3. state' \in Seq(States) /\ Len(state') = Len(state)
  BY <1>1, <1>2 DEF opened, States
<1>4. \A t \in 1..opened : state'[t] = "live" => state[t] = "live"
  BY <1>1, <1>2 DEF opened
<1>5. QED
  BY <1>3, <1>4, FewerLive DEF Breaks, Retires, Ends

(* The error of a session empties the pool of its origin; a healthy one it *)
(* finds there is younger, and is recorded as evicted.                     *)
LEMMA ErrorInv ==
  ASSUME IInv, NEW s \in 1..opened, onError(s)
  PROVE  IInv'
<1> USE DEF onError
<1>1. /\ originOf \in Seq(Origins) /\ Len(originOf) = opened
      /\ state \in Seq(States) /\ Len(state) = opened /\ opened \in Nat
      /\ evictedBy \in Seq(Ids) /\ Len(evictedBy) = opened
      /\ sessions \in [Origins -> 0..opened] /\ opened <= MaxSessions
  BY DEF IInv, TypeOK, opened
<1>2. originOf[s] \in Origins
  BY <1>1
<1>3. /\ state' \in Seq(States) /\ Len(state') = opened /\ opened' = opened
      /\ \A t \in 1..opened : state'[t] = "live" => state[t] = "live" /\ t # s
  BY <1>1 DEF opened, States
<1>4. \A t \in 1..opened : evictedBy'[t] =
         IF t = sessions[originOf[s]] /\ t # s THEN s ELSE evictedBy[t]
  OBVIOUS
<1>5. evictedBy' \in Seq(Ids) /\ Len(evictedBy') = opened
  <2>1. s \in Ids
    <3>1. opened \in Nat /\ opened <= MaxSessions /\ s \in 1..opened
      BY <1>1
    <3>2. QED
      BY <3>1, MaxSessionsAssumption DEF Ids
  <2>2. \A t \in 1..opened : evictedBy[t] \in Ids
    BY <1>1
  <2>3. QED
    BY <1>1, <2>1, <2>2
<1>6. \A o \in Origins : sessions'[o] = IF o = originOf[s] THEN 0 ELSE sessions[o]
  BY <1>1
<1>7. TypeOK'
  <2>1. sessions' \in [Origins -> 0..opened']
    BY <1>1, <1>3
  <2>2. QED
    BY <1>1, <1>3, <1>5, <2>1 DEF TypeOK
<1>8. PoolsTheNewest'
  BY <1>3, <1>6 DEF IInv, PoolsTheNewest
<1>9. LiveIsPooledOrEvicted'
  <2> SUFFICES ASSUME NEW o \in Origins, NEW t \in 1..opened,
                      originOf[t] = o, state'[t] = "live", sessions'[o] # t
               PROVE  evictedBy'[t] \in 1..(t - 1) /\ originOf[evictedBy'[t]] = o
    BY <1>3 DEF LiveIsPooledOrEvicted, live
  <2>1. t \in live(o) /\ t # s
    BY <1>3 DEF live
  <2>2. CASE sessions[originOf[s]] = t
    <3>1. originOf[s] = o /\ s <= t
      BY <1>1, <1>2, <2>2 DEF IInv, PoolsTheNewest
    <3>2. QED
      BY <1>1, <1>4, <2>1, <2>2, <3>1
  <2>3. CASE sessions[originOf[s]] # t
    <3>1. sessions[o] # t
      BY <1>6, <2>3
    <3>2. evictedBy[t] \in 1..(t - 1) /\ originOf[evictedBy[t]] = o
      BY <2>1, <3>1 DEF IInv, LiveIsPooledOrEvicted
    <3>3. QED
      BY <1>4, <2>3, <3>2
  <2>4. QED
    BY <2>2, <2>3
<1>10. QED
  BY <1>7, <1>8, <1>9 DEF IInv

(* close() takes whatever the pool holds with it. *)
LEMMA CloseInv ==
  ASSUME IInv, close
  PROVE  IInv'
<1> USE DEF close
<1>1. /\ state \in Seq(States) /\ Len(state) = opened /\ opened \in Nat
      /\ sessions \in [Origins -> 0..opened]
  BY DEF IInv, TypeOK, opened
<1>2. /\ state' \in Seq(States) /\ Len(state') = opened /\ opened' = opened
      /\ \A t \in 1..opened : state'[t] = "live" => state[t] = "live" /\ t \notin pooled
  <2>1. PICK busy \in SUBSET pooled :
          state' = [t \in 1..opened |->
             CASE t \in pooled /\ state[t] = "live" /\ t \in busy -> "closing"
               [] t \in pooled /\ state[t] = "live" /\ t \notin busy -> "gone"
               [] OTHER -> state[t]]
    OBVIOUS
  <2>2. \A t \in 1..opened :
          /\ state'[t] \in States
          /\ state'[t] = "live" => state[t] = "live" /\ t \notin pooled
    BY <1>1, <2>1 DEF States
  <2>3. state' \in [1..opened -> States]
    BY <2>1, <2>2
  <2>4. state' \in Seq(States) /\ Len(state') = opened
    BY <1>1, <2>3, Functions
  <2>5. QED
    BY <2>2, <2>4 DEF opened
<1>3. TypeOK'
  BY <1>1, <1>2 DEF IInv, TypeOK
<1>4. PoolsTheNewest'
  BY DEF PoolsTheNewest
<1>5. LiveIsPooledOrEvicted'
  BY <1>1, <1>2 DEF IInv, LiveIsPooledOrEvicted, live, pooled
<1>6. QED
  BY <1>3, <1>4, <1>5 DEF IInv

(* Every step keeps the invariant. *)
LEMMA NextInv == IInv /\ [Next]_vars => IInv'
<1> SUFFICES ASSUME IInv, [Next]_vars PROVE IInv'
  OBVIOUS
<1>1. CASE \E o \in Origins : CallConnecting(o)
  BY <1>1, ConnectingInv
<1>2. CASE \E s \in 1..opened : Breaks(s) \/ Retires(s) \/ Ends(s) \/ onError(s)
  BY <1>2, OutOfUseInv, ErrorInv
<1>3. CASE close
  BY <1>3, CloseInv
<1>4. CASE UNCHANGED vars
  BY <1>4 DEF IInv, TypeOK, PoolsTheNewest, LiveIsPooledOrEvicted, live, opened, vars
<1>5. QED
  BY <1>1, <1>2, <1>3, <1>4 DEF Next, CallReusing

(* The invariant holds of every reachable pool. *)
LEMMA Invariant == Spec => []IInv
<1>1. QED
  BY InitInv, NextInv, PTL DEF Spec

(* The pool and the sessions it names are well typed, for any number of    *)
(* sessions (createHttp2Transport: `sessions`).                            *)
THEOREM PoolTypeCorrect == Spec => []TypeOK
<1>1. IInv => TypeOK
  BY DEF IInv
<1>2. QED
  BY <1>1, Invariant, PTL

(* No live connection leaks but by the late error of an older session of   *)
(* its origin: every other one is in the pool, where calls share it and    *)
(* close() finds it.                                                       *)
THEOREM OnlyLateErrorsLeak == Spec => []LiveIsPooledOrEvicted
<1>1. IInv => LiveIsPooledOrEvicted
  BY DEF IInv
<1>2. QED
  BY <1>1, Invariant, PTL
=============================================================================
