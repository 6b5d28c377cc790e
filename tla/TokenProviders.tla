---------------------------- MODULE TokenProviders ----------------------------
(***************************************************************************)
(* The two OAuth2 token providers of a generated client                    *)
(* (src/generators/tsClient.ts), shared by the calls that are made with    *)
(* them, and the token endpoint they ask.                                  *)
(*                                                                         *)
(* Neither provider keeps a request that is under way: every call that     *)
(* finds no token asks for its own, and applies the answer when it comes.  *)
(* Time is a counter; a token is known by the order in which it was issued *)
(* and a refresh token by a number of its own.                             *)
(***************************************************************************)
EXTENDS Integers, Sequences

CONSTANTS Calls,      \* the calls of the program
          Margin,     \* how long before its end a token is no longer used (30 s)
          AssumedLife, \* how long a token is taken to live whose answer has no
                      \* numeric expires_in (3600 s)
          Lifetimes,  \* how long the endpoint may let a token live
          MaxIssued,  \* bound: access tokens issued
          MaxTime     \* bound: the clock

ASSUME TokenAssumption ==
  /\ Margin \in Nat /\ AssumedLife \in Nat /\ MaxIssued \in Nat /\ MaxTime \in Nat
  /\ Lifetimes \subseteq Nat

VARIABLES
  provider,      \* "credentials", "refresh", or "none" for a client without auth
  cachedToken,   \* the client-credentials provider's, 0 for none
  expiresAt,     \* until when it hands that one out
  accessToken,   \* the refresh provider's, 0 for none
  refreshToken,  \* what it sends to get another
  ask,           \* of every call, its request to the token endpoint
  issued,        \* of every access token, when it ends, and when it does as far
                 \* as its answer tells
  current,       \* the refresh token the endpoint accepts
  spoiled,       \* history: a rotated refresh token was lost with its answer, or
                 \* rotated while an answer with the older one was under way
  now            \* the clock

providerVars == <<cachedToken, expiresAt, accessToken, refreshToken>>
endpointVars == <<issued, current>>
tokenVars == <<provider, providerVars, ask, endpointVars, spoiled, now>>

None  == 0
Silent == -1   \* the ttl of an answer that states none
NoAsk == [state |-> "none", at |-> 0, sent |-> 0, access |-> 0, ttl |-> 0, refresh |-> 0]
(* The calls whose answers, under way, bring a refresh token. *)
bringing == {c \in Calls : ask[c].state = "answered" /\ ask[c].refresh # 0}
isLive(token) == token # None /\ now < issued[token].ends

(* A refresh provider is created with a refresh token, and with an access  *)
(* token of the same grant or without.                                     *)
TokenInit ==
  /\ provider \in {"credentials", "refresh", "none"}
  /\ \E ttl \in Lifetimes, given \in BOOLEAN :
       IF given /\ provider = "refresh"
       THEN issued = <<[ends |-> ttl, promised |-> ttl]>> /\ accessToken = 1
       ELSE issued = <<>> /\ accessToken = None
  /\ cachedToken = None /\ expiresAt = 0
  /\ refreshToken = 1 /\ current = 1
  /\ ask = [c \in Calls |-> NoAsk]
  /\ spoiled = FALSE /\ now = 0

(* The token a provider hands out without a request; None when it has to   *)
(* make one.                                                               *)
cached ==
  CASE provider = "credentials" -> IF now < expiresAt THEN cachedToken ELSE None
    [] provider = "refresh"     -> accessToken
    [] provider = "none"        -> None

(* The request a call makes, one at a time: the clock is read before it,   *)
(* and a refresh sends the refresh token of that moment.                   *)
request(c) ==
  /\ ask[c].state = "none"
  /\ ask' = [ask EXCEPT ![c] = [NoAsk EXCEPT !.state = "asked", !.at = now,
                 !.sent = IF provider = "refresh" THEN refreshToken ELSE 0]]
  /\ UNCHANGED <<provider, providerVars, endpointVars, spoiled, now>>

(* The endpoint issues a token, and states how long it lives or does not,  *)
(* which a refresh does not look at; for that it may rotate the refresh    *)
(* token, and may state the one that holds when it does not.               *)
Issue(c) ==
  /\ ask[c].state = "asked" /\ Len(issued) < MaxIssued
  /\ provider = "refresh" => ask[c].sent = current
  /\ \E ttl \in Lifetimes, stated, rotates, states \in BOOLEAN :
       /\ IF provider = "refresh" THEN stated ELSE ~(rotates \/ states)
       /\ issued' = Append(issued, [ends |-> now + ttl, promised |-> now + (IF stated THEN ttl ELSE AssumedLife)])
       /\ current' = IF rotates THEN current + 1 ELSE current
       /\ ask' = [ask EXCEPT ![c].state = "answered", ![c].access = Len(issued'),
                    ![c].ttl = IF stated THEN ttl ELSE Silent, ![c].refresh = IF rotates \/ states THEN current' ELSE 0]
       /\ spoiled' = (spoiled \/ (rotates /\ bringing # {}))
  /\ UNCHANGED <<provider, providerVars, now>>

(* A refresh token that was rotated away, or an endpoint that is down.     *)
Refuse(c) ==
  /\ ask[c].state = "asked"
  /\ ask' = [ask EXCEPT ![c].state = "refused"]
  /\ UNCHANGED <<provider, providerVars, endpointVars, spoiled, now>>

(* The connection fails after the endpoint has answered.                   *)
LoseAnswer(c) ==
  /\ ask[c].state = "answered"
  /\ ask' = [ask EXCEPT ![c].state = "refused"]
  /\ spoiled' = (spoiled \/ ask[c].refresh \notin {0, refreshToken})
  /\ UNCHANGED <<provider, providerVars, endpointVars, now>>

(* const ttl = typeof data.expires_in === "number" ? ... : 3600            *)
ttlOf(a) == IF a.ttl = Silent THEN AssumedLife ELSE a.ttl

(* Mutant: the life of a token counts from the answer.                      *)
endOf_FromArrival(a) == now + (IF ttlOf(a) > Margin THEN ttlOf(a) - Margin ELSE 0)

endOf(a) == a.at + (IF ttlOf(a) > Margin THEN ttlOf(a) - Margin ELSE 0)

(* Mutant: a refresh token that comes with the answer is not kept.         *)
apply_FirstRefresh(c) ==
  LET a == ask[c] IN
  /\ ask' = [ask EXCEPT ![c] = NoAsk]
  /\ IF provider = "credentials"
     THEN /\ cachedToken' = a.access /\ expiresAt' = endOf(a)
          /\ UNCHANGED <<accessToken, refreshToken>>
     ELSE /\ accessToken' = a.access
          /\ UNCHANGED <<refreshToken, cachedToken, expiresAt>>
  /\ UNCHANGED <<provider, endpointVars, spoiled, now>>

(* The call whose request this was takes the answer in.                    *)
apply(c) ==
  LET a == ask[c] IN
  /\ ask' = [ask EXCEPT ![c] = NoAsk]
  /\ IF provider = "credentials"
     THEN /\ cachedToken' = a.access /\ expiresAt' = endOf(a)
          /\ UNCHANGED <<accessToken, refreshToken>>
     ELSE /\ accessToken' = a.access
          /\ refreshToken' = IF a.refresh # 0 THEN a.refresh ELSE refreshToken
          /\ UNCHANGED <<cachedToken, expiresAt>>
  /\ UNCHANGED <<provider, endpointVars, spoiled, now>>

giveUp(c) ==
  /\ ask' = [ask EXCEPT ![c] = NoAsk]
  /\ UNCHANGED <<provider, providerVars, endpointVars, spoiled, now>>

Tick == now < MaxTime /\ now' = now + 1
        /\ UNCHANGED <<provider, providerVars, ask, endpointVars, spoiled>>

-----------------------------------------------------------------------------
(* A client-credentials token is kept for no longer than Margin before its *)
(* end, however late the answer that brought it came and in whatever order *)
(* answers came: src/generators/tsClient.ts:1724 says "Expire 30 seconds   *)
(* before real expiration to prevent race conditions". Where the answer    *)
(* states no life nobody knows the end: the token is kept until Margin     *)
(* before AssumedLife is over, and may have ended long before.             *)
CachedTokensLast ==
  provider = "credentials" /\ cached # None => issued[cached].promised - now > Margin

(* The refresh token the provider would send is the one the endpoint       *)
(* accepts, or the answer that brings that one is under way, also when     *)
(* refreshes overlap, which nothing in the provider prevents; unless the   *)
(* answer that brings it was lost, or the endpoint rotated it while an     *)
(* answer with the older one was under way, which may come last.           *)
RefreshTokenIsKept ==
  spoiled \/ refreshToken = current \/ \E c \in bringing : ask[c].refresh = current
=============================================================================
