----------------------------- MODULE GrpcSessions -----------------------------
(***************************************************************************)
(* The pool of HTTP/2 sessions inside createHttp2Transport                 *)
(* (HTTP2_TRANSPORT in src/generators/tsClient.ts): connected(), the       *)
(* session's "error" listener and close().  A session is numbered by the   *)
(* order it was opened in.  It stops being usable before its listener      *)
(* hears of it.  A session the peer retires (GOAWAY) or close() closes     *)
(* lives on while it carries calls, and its connection may break then; one *)
(* that carries none is gone without an error.                             *)
(***************************************************************************)
EXTENDS Naturals, Sequences, FiniteSets

CONSTANTS Origins,      \* the origins the calls are for
          MaxSessions   \* bound: sessions opened

ASSUME MaxSessionsAssumption == MaxSessions \in Nat

VARIABLES
  originOf,   \* the origin each session was opened for
  state,      \* "live", "closing" (closed, with calls still on it),
              \* "failing" (destroyed, `error` to come), "gone"
  sessions,   \* the Map: the session of each origin, 0 when there is none
  evictedBy   \* history: the session whose error evicted each session, or 0

vars == <<originOf, state, sessions, evictedBy>>

opened == Len(state)
Ids == 0..MaxSessions
States == {"live", "closing", "failing", "gone"}

TypeOK ==
  /\ originOf \in Seq(Origins) /\ evictedBy \in Seq(Ids)
  /\ state \in Seq(States)
  /\ Len(originOf) = opened /\ Len(evictedBy) = opened
  /\ opened <= MaxSessions
  /\ sessions \in [Origins -> 0..opened]

Init ==
  /\ originOf = <<>> /\ state = <<>> /\ evictedBy = <<>>
  /\ sessions = [o \in Origins |-> 0]

(* existing && !existing.closed && !existing.destroyed *)
usable(origin) == sessions[origin] # 0 /\ state[sessions[origin]] = "live"

(* A call reuses the session of its origin, or opens one in its place. *)
CallReusing(origin) == usable(origin) /\ UNCHANGED vars

CallConnecting(origin) ==
  /\ ~usable(origin) /\ opened < MaxSessions
  /\ originOf' = Append(originOf, origin)
  /\ state' = Append(state, "live")
  /\ sessions' = [sessions EXCEPT ![origin] = opened + 1]
  /\ evictedBy' = Append(evictedBy, 0)

(* The connection breaks: the session is destroyed, its error is queued. *)
Breaks(s) ==
  /\ state[s] \in {"live", "closing"}
  /\ state' = [state EXCEPT ![s] = "failing"]
  /\ UNCHANGED <<originOf, sessions, evictedBy>>

(* The peer retires the session: it is closed, and no listener runs. *)
Retires(s) ==
  /\ state[s] = "live"
  /\ \E how \in {"closing", "gone"} : state' = [state EXCEPT ![s] = how]
  /\ UNCHANGED <<originOf, sessions, evictedBy>>

(* The last call of a closed session ends, and the session with it. *)
Ends(s) ==
  /\ state[s] = "closing"
  /\ state' = [state EXCEPT ![s] = "gone"]
  /\ UNCHANGED <<originOf, sessions, evictedBy>>

(* session.on("error"): whatever the Map holds for the origin goes. *)
onError(s) ==
  /\ state[s] = "failing"
  /\ state' = [state EXCEPT ![s] = "gone"]
  /\ sessions' = [sessions EXCEPT ![originOf[s]] = 0]
  /\ evictedBy' = [t \in 1..opened |->
        IF t = sessions[originOf[s]] /\ t # s THEN s ELSE evictedBy[t]]
  /\ UNCHANGED originOf

pooled == {sessions[o] : o \in Origins}

close_Forgets ==
  /\ sessions' = [o \in Origins |-> 0]
  /\ UNCHANGED <<originOf, state, evictedBy>>

(* close(): every session of the Map, and the Map is cleared. *)
close ==
  /\ \E busy \in SUBSET pooled :
        state' = [s \in 1..opened |->
           CASE s \in pooled /\ state[s] = "live" /\ s \in busy -> "closing"
             [] s \in pooled /\ state[s] = "live" /\ s \notin busy -> "gone"
             [] OTHER -> state[s]]
  /\ sessions' = [o \in Origins |-> 0]
  /\ UNCHANGED <<originOf, evictedBy>>

Next ==
  \/ \E o \in Origins : CallReusing(o) \/ CallConnecting(o)
  \/ \E s \in 1..opened : Breaks(s) \/ Retires(s) \/ Ends(s) \/ onError(s)
  \/ close

Spec == Init /\ [][Next]_vars

-----------------------------------------------------------------------------
(* Properties *)

live(o) == {s \in 1..opened : originOf[s] = o /\ state[s] = "live"}

(* A live session is in the pool, where later calls share it and close()   *)
(* finds it, unless the late error of an older session of its origin has   *)
(* evicted it - one that broke, or was closed and broke with calls on it:  *)
(* nothing else leaks a connection.                                        *)
LiveIsPooledOrEvicted ==
  \A o \in Origins : \A s \in live(o) :
     sessions[o] = s \/ (evictedBy[s] \in 1..(s - 1) /\ originOf[evictedBy[s]] = o)
=============================================================================
