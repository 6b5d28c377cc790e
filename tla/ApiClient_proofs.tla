--------------------------- MODULE ApiClient_proofs ---------------------------
(***************************************************************************)
(* What holds of a generated client, whatever calls there are: for every   *)
(* set of them, any margin, any lives of tokens, any bodies and any chunks *)
(* they come in.                                                           *)
(*                                                                         *)
(* The token providers come first. The calls reach them through seven      *)
(* steps only (TokenNext), so the invariants are shown to survive these,   *)
(* and every step of the client is shown to be one of them or to leave the *)
(* providers alone.                                                        *)
(*                                                                         *)
(* The streams follow: first what a body is and where a reader of it       *)
(* stands, without calls; then one call, as what its reader holds (Whole); *)
(* then the steps of the client, each of which is about one call.          *)
(***************************************************************************)
EXTENDS ApiClient, TLAPS, FiniteSetTheorems, SequenceTheorems

TokenStep(c) ==
  request(c) \/ Issue(c) \/ Refuse(c) \/ LoseAnswer(c)
  \/ (ask[c].state = "answered" /\ apply(c)) \/ (ask[c].state = "refused" /\ giveUp(c))

TokenNext == (\E c \in Calls : TokenStep(c)) \/ Tick

Asks == [state : {"none", "asked", "answered", "refused"},
         at : Nat, sent : Nat, access : Nat, ttl : Nat \cup {Silent}, refresh : Nat]

Tokens == [ends : Nat, promised : Nat]

TokensTyped ==
  /\ provider \in {"credentials", "refresh", "none"}
  /\ now \in Nat /\ expiresAt \in Nat /\ cachedToken \in Nat
  /\ refreshToken \in Nat /\ current \in Nat \ {0}
  /\ issued \in Seq(Tokens)
  /\ ask \in [Calls -> Asks]

(* An answered request brings a token that ends no sooner than the life    *)
(* that is stated, or assumed, after the request was made.                 *)
AnswersLast ==
  \A c \in Calls :
    /\ ask[c].at <= now
    /\ ask[c].state = "answered" =>
         ask[c].access \in DOMAIN issued /\ issued[ask[c].access].promised >= ask[c].at + ttlOf(ask[c])

(* The token that is kept is due Margin before its end, or is due already. *)
KeptIsDueEarly ==
  expiresAt > now => cachedToken \in DOMAIN issued /\ issued[cachedToken].promised >= expiresAt + Margin

LifeInv == TokensTyped /\ AnswersLast /\ KeptIsDueEarly

(* A refresh token that is under way to the provider is the endpoint's.    *)
BringTheCurrent ==
  \A c \in Calls :
    /\ provider # "refresh" => ask[c].refresh = 0
    /\ ~spoiled /\ c \in bringing => ask[c].refresh = current

RefreshInv == TokensTyped /\ BringTheCurrent /\ RefreshTokenIsKept

-----------------------------------------------------------------------------
(* Every step of a client is a step of its providers or leaves them alone. *)
LEMMA HeadersAskOnce ==
  ASSUME NEW c \in Calls, applyAuthHeaders(c)
  PROVE  TokenNext \/ UNCHANGED tokenVars
BY DEF applyAuthHeaders, TokenNext, TokenStep

LEMMA ClientsTakeTokenSteps ==
  [Next]_vars => TokenNext \/ UNCHANGED tokenVars
<1> SUFFICES ASSUME [Next]_vars PROVE TokenNext \/ UNCHANGED tokenVars
  OBVIOUS
<1>1. CASE UNCHANGED vars
  BY <1>1 DEF vars
<1>2. CASE TimePasses
  BY <1>2 DEF TimePasses, TokenNext
<1>3. ASSUME NEW c \in Calls, Client(c)
      PROVE  TokenNext \/ UNCHANGED tokenVars
  <2>1. CASE Start(c)
    BY <2>1, HeadersAskOnce DEF Start
  <2>2. CASE TokenArrives(c)
    BY <2>2 DEF TokenArrives, TokenNext, TokenStep
  <2>3. CASE RefreshArrives(c)
    BY <2>3 DEF RefreshArrives, TokenNext, TokenStep
  <2>4. CASE TokenFails(c)
    BY <2>4 DEF TokenFails, TokenNext, TokenStep
  <2>5. CASE Send(c)
    BY <2>5 DEF Send
  <2>6. CASE Aborted(c)
    BY <2>6, HeadersAskOnce DEF Aborted, failing
  <2>7. CASE ReadChunk(c)
    BY <2>7 DEF ReadChunk
  <2>8. CASE TakeLine(c)
    BY <2>8 DEF TakeLine
  <2>9. CASE TakeFrame(c)
    BY <2>9 DEF TakeFrame
  <2>10. CASE EndBody(c)
    BY <2>10 DEF EndBody
  <2> QED
    BY <1>3, <2>1, <2>2, <2>3, <2>4, <2>5, <2>6, <2>7, <2>8, <2>9, <2>10 DEF Client
<1>4. ASSUME NEW c \in Calls, Endpoint(c)
      PROVE  TokenNext
  BY <1>4 DEF Endpoint, TokenNext, TokenStep
<1>5. ASSUME NEW c \in Calls, Respond(c)
      PROVE  TokenNext \/ UNCHANGED tokenVars
  BY <1>5, HeadersAskOnce DEF Respond, TokenNext, TokenStep
<1>6. ASSUME NEW c \in Calls, DeadlineFires(c)
      PROVE  TokenNext \/ UNCHANGED tokenVars
  BY <1>6, HeadersAskOnce DEF DeadlineFires, failing
<1>7. ASSUME NEW c \in Calls, ReadText(c) \/ Abort(c) \/ Leave(c)
      PROVE  UNCHANGED tokenVars
  BY <1>7 DEF ReadText, Abort, Leave
<1> QED
  BY <1>1, <1>2, <1>3, <1>4, <1>5, <1>6, <1>7 DEF Next

-----------------------------------------------------------------------------
(* The state of the providers is of its type.                              *)
LEMMA TypedAtFirst == Init => TokensTyped
<1> SUFFICES ASSUME Init PROVE TokensTyped
  OBVIOUS
<1>0. TokenInit
  BY DEF Init
<1>1. PICK ttl \in Lifetimes, given \in BOOLEAN :
        IF given /\ provider = "refresh"
        THEN issued = <<[ends |-> ttl, promised |-> ttl]>> /\ accessToken = 1
        ELSE issued = <<>> /\ accessToken = None
  BY <1>0 DEF TokenInit
<1>2. issued \in Seq(Tokens)
  <2> DEFINE first == [ends |-> ttl, promised |-> ttl]
  <2>1. first \in Tokens
    BY TokenAssumption DEF Tokens
  <2>2. <<first>> \in Seq(Tokens) /\ <<>> \in Seq(Tokens)
    BY <2>1
  <2>3. issued \in {<<first>>, <<>>}
    BY <1>1
  <2> QED
    BY <2>2, <2>3
<1>3. ask \in [Calls -> Asks]
  BY <1>0 DEF TokenInit, NoAsk, Asks
<1> QED
  BY <1>0, <1>2, <1>3 DEF TokenInit, TokensTyped, None

LEMMA StepsKeepTypes ==
  ASSUME TokensTyped, TokenNext \/ UNCHANGED tokenVars
  PROVE  TokensTyped'
<1>0. CASE UNCHANGED tokenVars
  BY <1>0 DEF TokensTyped, tokenVars, providerVars, endpointVars
<1>1. CASE Tick
  BY <1>1 DEF Tick, TokensTyped, providerVars, endpointVars
<1>2. ASSUME NEW c \in Calls, TokenStep(c)
      PROVE  TokensTyped'
  <2>0. ask[c] \in Asks /\ NoAsk \in Asks
    BY DEF TokensTyped, NoAsk, Asks
  <2>1. CASE request(c)
    BY <2>0, <2>1 DEF request, TokensTyped, Asks, NoAsk, providerVars, endpointVars
  <2>2. CASE Issue(c)
    <3>1. PICK ttl \in Lifetimes, stated, rotates, states \in BOOLEAN :
       /\ issued' = Append(issued, [ends |-> now + ttl, promised |-> now + (IF stated THEN ttl ELSE AssumedLife)])
       /\ current' = IF rotates THEN current + 1 ELSE current
       /\ ask' = [ask EXCEPT ![c].state = "answered", ![c].access = Len(issued'),
                    ![c].ttl = IF stated THEN ttl ELSE Silent,
                    ![c].refresh = IF rotates \/ states THEN current' ELSE 0]
      BY <2>2 DEF Issue
    <3>2. ttl \in Nat
      BY TokenAssumption
    <3>a. [ends |-> now + ttl, promised |-> now + (IF stated THEN ttl ELSE AssumedLife)] \in Tokens
      BY <3>2, TokenAssumption DEF TokensTyped, Tokens
    <3>3. issued' \in Seq(Tokens) /\ Len(issued') \in Nat /\ current' \in Nat \ {0}
      BY <3>1, <3>a DEF TokensTyped
    <3>4. ask' \in [Calls -> Asks]
      BY <2>0, <3>1, <3>2, <3>3 DEF TokensTyped, Asks
    <3> QED
      BY <2>2, <3>3, <3>4 DEF Issue, TokensTyped, providerVars
  <2>3. CASE Refuse(c)
    BY <2>0, <2>3 DEF Refuse, TokensTyped, Asks, providerVars, endpointVars
  <2>4. CASE LoseAnswer(c)
    BY <2>0, <2>4 DEF LoseAnswer, TokensTyped, Asks, providerVars, endpointVars
  <2>5. CASE apply(c)
    <3>1. endOf(ask[c]) \in Nat
      BY <2>0, TokenAssumption DEF endOf, ttlOf, Asks
    <3> QED
      BY <2>0, <2>5, <3>1 DEF apply, TokensTyped, Asks, endpointVars
  <2>6. CASE giveUp(c)
    BY <2>0, <2>6 DEF giveUp, TokensTyped, providerVars, endpointVars
  <2> QED
    BY <1>2, <2>1, <2>2, <2>3, <2>4, <2>5, <2>6 DEF TokenStep
<1> QED
  BY <1>0, <1>1, <1>2 DEF TokenNext

(* The state of the token providers is of its type.                        *)
THEOREM TokensTypeCorrect == Spec => []TokensTyped
<1>1. TokensTyped /\ [Next]_vars => TokensTyped'
  BY ClientsTakeTokenSteps, StepsKeepTypes
<1> QED
  BY TypedAtFirst, <1>1, PTL DEF Spec
-----------------------------------------------------------------------------
(* The lives of tokens.                                                    *)
LEMMA LivesAtFirst == Init => LifeInv
<1> SUFFICES ASSUME Init PROVE LifeInv
  OBVIOUS
<1>1. TokensTyped
  BY TypedAtFirst
<1>2. TokenInit
  BY DEF Init
<1>3. \A c \in Calls : ask[c].at = 0 /\ ask[c].state = "none"
  BY <1>2 DEF TokenInit, NoAsk
<1>a. now = 0 /\ expiresAt = 0
  BY <1>2 DEF TokenInit
<1>b. ASSUME NEW c \in Calls PROVE ask[c].at <= now
  <2>1. ask[c].at = 0 /\ now = 0
    BY <1>a, <1>3
  <2> QED
    BY <2>1
<1>4. AnswersLast
  <2>1. \A c \in Calls : ask[c].state # "answered"
    BY <1>3
  <2> QED
    BY <1>b, <2>1 DEF AnswersLast
<1>5. KeptIsDueEarly
  BY <1>a DEF KeptIsDueEarly
<1> QED
  BY <1>1, <1>4, <1>5 DEF LifeInv

LEMMA StepsKeepLives ==
  ASSUME LifeInv, TokenNext \/ UNCHANGED tokenVars
  PROVE  LifeInv'
<1> USE DEF LifeInv
<1>a. TokensTyped'
  BY StepsKeepTypes
<1>b. SUFFICES AnswersLast' /\ KeptIsDueEarly'
  BY <1>a
<1>0. CASE UNCHANGED tokenVars
  BY <1>0 DEF AnswersLast, KeptIsDueEarly, tokenVars, providerVars, endpointVars
<1>1. CASE Tick
  BY <1>1 DEF Tick, TokensTyped, Asks, AnswersLast, KeptIsDueEarly, providerVars, endpointVars
<1>2. ASSUME NEW c \in Calls, TokenStep(c)
      PROVE  AnswersLast' /\ KeptIsDueEarly'
  <2>0. ask[c] \in Asks
    BY DEF TokensTyped
  <2>1. CASE request(c)
    <3>1. now' = now /\ issued' = issued
      BY <2>1 DEF request, endpointVars
    <3>2. \A d \in Calls \ {c} : ask'[d] = ask[d]
      BY <2>1 DEF request, TokensTyped
    <3>3. ask'[c].at = now /\ ask'[c].state = "asked"
      BY <2>1 DEF request, NoAsk, TokensTyped
    <3>4. AnswersLast'
      BY <3>1, <3>2, <3>3 DEF AnswersLast, TokensTyped
    <3> QED
      BY <2>1, <3>4 DEF request, KeptIsDueEarly, providerVars, endpointVars
  <2>2. CASE Issue(c)
    <3>1. PICK ttl \in Lifetimes, stated, rotates, states \in BOOLEAN :
       /\ issued' = Append(issued, [ends |-> now + ttl, promised |-> now + (IF stated THEN ttl ELSE AssumedLife)])
       /\ ask' = [ask EXCEPT ![c].state = "answered", ![c].access = Len(issued'),
                    ![c].ttl = IF stated THEN ttl ELSE Silent,
                    ![c].refresh = IF rotates \/ states THEN current' ELSE 0]
      BY <2>2 DEF Issue
    <3>2. ttl \in Nat
      BY TokenAssumption
    <3>b. PICK new : new = [ends |-> now + ttl, promised |-> now + (IF stated THEN ttl ELSE AssumedLife)]
      OBVIOUS
    <3>3. /\ now' = now
          /\ DOMAIN issued \subseteq DOMAIN issued'
          /\ \A i \in DOMAIN issued : issued'[i] = issued[i]
          /\ Len(issued') \in DOMAIN issued' /\ issued'[Len(issued')] = new
      BY <2>2, <3>1, <3>b, SMTT(20) DEF Issue, TokensTyped
    <3>c. new.promised = now + (IF stated THEN ttl ELSE AssumedLife)
      BY <3>b
    <3>4. \A d \in Calls \ {c} : ask'[d] = ask[d]
      BY <3>1 DEF TokensTyped
    <3>5. ask'[c].at = ask[c].at /\ ask'[c].access = Len(issued')
      BY <2>0, <3>1 DEF TokensTyped, Asks
    <3>d. ask'[c].ttl = IF stated THEN ttl ELSE Silent
      BY <2>0, <3>1 DEF TokensTyped, Asks
    <3>e. ttlOf(ask'[c]) = IF stated THEN ttl ELSE AssumedLife
      BY <3>2, <3>d DEF ttlOf, Silent
    <3>6. new.promised >= ask[c].at + ttlOf(ask'[c]) /\ ask[c].at <= now
      BY <2>0, <3>2, <3>c, <3>e, TokenAssumption DEF AnswersLast, TokensTyped, Asks
    <3>7. AnswersLast'
      BY <3>3, <3>4, <3>5, <3>6 DEF AnswersLast, ttlOf
    <3> QED
      BY <2>2, <3>3, <3>7 DEF Issue, KeptIsDueEarly, providerVars
  <2>3. CASE Refuse(c)
    BY <2>0, <2>3 DEF Refuse, TokensTyped, Asks, AnswersLast, KeptIsDueEarly, providerVars, endpointVars
  <2>4. CASE LoseAnswer(c)
    BY <2>0, <2>4 DEF LoseAnswer, TokensTyped, Asks, AnswersLast, KeptIsDueEarly, providerVars, endpointVars
  <2>5. CASE ask[c].state = "answered" /\ apply(c)
    <3>1. AnswersLast'
      BY <2>5 DEF apply, NoAsk, TokensTyped, AnswersLast, endpointVars
    <3>2. CASE provider = "credentials"
      <4>1. /\ ask[c].access \in DOMAIN issued
            /\ issued[ask[c].access].promised >= ask[c].at + ttlOf(ask[c]) /\ ask[c].at <= now
        BY <2>5 DEF AnswersLast
      <4>a. ttlOf(ask[c]) \in Nat
        BY <2>0, TokenAssumption DEF ttlOf, Asks
      <4>2. endOf(ask[c]) > now => ttlOf(ask[c]) > Margin /\ endOf(ask[c]) = ask[c].at + (ttlOf(ask[c]) - Margin)
        BY <2>0, <4>1, <4>a, TokenAssumption DEF endOf, Asks, TokensTyped
      <4>b. issued[ask[c].access] \in Tokens
        BY <4>1 DEF TokensTyped
      <4>3. issued[ask[c].access].promised \in Nat
        BY <4>b DEF Tokens
      <4>4. endOf(ask[c]) > now => issued[ask[c].access].promised >= endOf(ask[c]) + Margin
        BY <2>0, <4>1, <4>2, <4>3, <4>a, TokenAssumption DEF Asks
      <4> QED
        BY <2>5, <3>1, <3>2, <4>1, <4>4 DEF apply, KeptIsDueEarly, endpointVars
    <3>3. CASE provider # "credentials"
      BY <2>5, <3>1, <3>3 DEF apply, KeptIsDueEarly, endpointVars
    <3> QED
      BY <3>2, <3>3
  <2>6. CASE giveUp(c)
    BY <2>6 DEF giveUp, NoAsk, TokensTyped, AnswersLast, KeptIsDueEarly, providerVars, endpointVars
  <2> QED
    BY <1>2, <2>1, <2>2, <2>3, <2>4, <2>5, <2>6 DEF TokenStep
<1> QED
  BY <1>0, <1>1, <1>2 DEF TokenNext

(* However many calls fetch tokens at once, and however late and in        *)
(* whatever order their answers come, the token that is handed out ends    *)
(* more than Margin from now, as far as its answer tells.                  *)
THEOREM KeptTokensLast == Spec => []CachedTokensLast
<1>1. LifeInv /\ [Next]_vars => LifeInv'
  BY ClientsTakeTokenSteps, StepsKeepLives
<1>2. LifeInv => CachedTokensLast
  <2> SUFFICES ASSUME LifeInv, provider = "credentials", cached # None
               PROVE  issued[cached].promised - now > Margin
    BY DEF CachedTokensLast
  <2>1. now < expiresAt /\ cached = cachedToken
    BY DEF cached
  <2>2. now \in Nat /\ expiresAt \in Nat
    BY DEF LifeInv, TokensTyped
  <2>3. cachedToken \in DOMAIN issued /\ issued[cachedToken].promised >= expiresAt + Margin
    BY <2>1, <2>2 DEF LifeInv, KeptIsDueEarly
  <2>a. issued[cachedToken] \in Tokens
    BY <2>3 DEF LifeInv, TokensTyped
  <2>4. issued[cachedToken].promised \in Nat
    BY <2>a DEF Tokens
  <2> QED
    BY <2>1, <2>2, <2>3, <2>4, TokenAssumption
<1> QED
  BY LivesAtFirst, <1>1, <1>2, PTL DEF Spec

-----------------------------------------------------------------------------
(* The refresh token.                                                      *)
LEMMA RefreshAtFirst == Init => RefreshInv
<1> SUFFICES ASSUME Init PROVE RefreshInv
  OBVIOUS
<1>1. TokensTyped
  BY TypedAtFirst
<1>2. TokenInit
  BY DEF Init
<1>3. \A c \in Calls : ask[c].state = "none" /\ ask[c].refresh = 0
  BY <1>2 DEF TokenInit, NoAsk
<1>4. BringTheCurrent
  BY <1>3 DEF BringTheCurrent, bringing
<1>5. refreshToken = current
  BY <1>2 DEF TokenInit
<1> QED
  BY <1>1, <1>4, <1>5 DEF RefreshInv, RefreshTokenIsKept

LEMMA StepsKeepRefresh ==
  ASSUME RefreshInv, TokenNext \/ UNCHANGED tokenVars
  PROVE  RefreshInv'
<1> USE DEF RefreshInv
<1>a. TokensTyped'
  BY StepsKeepTypes
<1>b. SUFFICES BringTheCurrent' /\ RefreshTokenIsKept'
  BY <1>a
<1>0. ASSUME UNCHANGED <<provider, refreshToken, ask, current, spoiled>>
      PROVE  BringTheCurrent' /\ RefreshTokenIsKept'
  BY <1>0 DEF BringTheCurrent, RefreshTokenIsKept, bringing
<1>1. CASE Tick \/ UNCHANGED tokenVars
  BY <1>0, <1>1 DEF Tick, tokenVars, providerVars, endpointVars
<1>2. ASSUME NEW c \in Calls, TokenStep(c)
      PROVE  BringTheCurrent' /\ RefreshTokenIsKept'
  <2>0. ask[c] \in Asks
    BY DEF TokensTyped
  <2>a. provider' = provider
    BY <1>2 DEF TokenStep, request, Issue, Refuse, LoseAnswer, apply, giveUp
  <2>b. \A d \in Calls \ {c} : ask'[d] = ask[d]
    BY <1>2 DEF TokenStep, request, Issue, Refuse, LoseAnswer, apply, giveUp, TokensTyped
  <2>c. bringing' \subseteq bringing \cup {c} /\ bringing \subseteq bringing' \cup {c}
    BY <2>b DEF bringing
  (* Nothing the call brought goes with its request. *)
  <2>d. ASSUME UNCHANGED <<refreshToken, current>>, spoiled => spoiled', c \notin bringing',
               ask'[c].refresh \in {0, ask[c].refresh},
               spoiled' \/ c \notin bringing \/ ask[c].refresh = refreshToken
        PROVE  BringTheCurrent' /\ RefreshTokenIsKept'
    <3>1. BringTheCurrent'
      BY <2>a, <2>b, <2>c, <2>d DEF BringTheCurrent
    <3>2. CASE spoiled'
      BY <3>1, <3>2 DEF RefreshTokenIsKept
    <3>3. CASE ~spoiled' /\ refreshToken = current
      BY <2>d, <3>1, <3>3 DEF RefreshTokenIsKept
    <3>4. CASE ~spoiled' /\ refreshToken # current
      <4>1. PICK d \in bringing : ask[d].refresh = current
        BY <2>d, <3>4 DEF RefreshTokenIsKept
      <4>2. d # c
        BY <2>d, <3>4, <4>1
      <4>3. d \in bringing' /\ ask'[d].refresh = current
        BY <2>b, <2>c, <4>1, <4>2 DEF bringing
      <4> QED
        BY <2>d, <3>1, <4>3 DEF RefreshTokenIsKept
    <3> QED
      BY <3>2, <3>3, <3>4
  <2>1. CASE request(c)
    <3>1. UNCHANGED <<refreshToken, current, spoiled>>
      BY <2>1 DEF request, providerVars, endpointVars
    <3>2. ask'[c].state = "asked" /\ ask'[c].refresh = 0
      BY <2>1 DEF request, TokensTyped, NoAsk
    <3>3. c \notin bringing'
      BY <3>2 DEF bringing
    <3>4. c \notin bringing
      BY <2>1 DEF request, bringing
    <3> QED
      BY <2>d, <3>1, <3>2, <3>3, <3>4
  <2>2. CASE Issue(c)
    <3>1. PICK ttl \in Lifetimes, stated, rotates, states \in BOOLEAN :
       /\ IF provider = "refresh" THEN stated ELSE ~(rotates \/ states)
       /\ issued' = Append(issued, [ends |-> now + ttl, promised |-> now + (IF stated THEN ttl ELSE AssumedLife)])
       /\ current' = IF rotates THEN current + 1 ELSE current
       /\ ask' = [ask EXCEPT ![c].state = "answered", ![c].access = Len(issued'),
                    ![c].ttl = IF stated THEN ttl ELSE Silent,
                    ![c].refresh = IF rotates \/ states THEN current' ELSE 0]
       /\ spoiled' = (spoiled \/ (rotates /\ bringing # {}))
      BY <2>2 DEF Issue
    <3>2. refreshToken' = refreshToken /\ ask[c].state = "asked" /\ c \notin bringing
      BY <2>2 DEF Issue, providerVars, bringing
    <3>3. ask'[c].state = "answered" /\ ask'[c].refresh = IF rotates \/ states THEN current' ELSE 0
      BY <2>0, <3>1 DEF TokensTyped, Asks
    <3>4. current' # 0
      BY <1>a DEF TokensTyped
    <3>5. BringTheCurrent'
      <4>1. ASSUME NEW d \in Calls, ~spoiled', d \in bringing' PROVE ask'[d].refresh = current'
        <5>1. CASE d = c
          BY <3>3, <4>1, <5>1 DEF bringing
        <5>2. CASE d # c
          <6>1. d \in bringing
            BY <2>c, <4>1, <5>2
          <6>2. ~rotates /\ ~spoiled
            BY <3>1, <4>1, <6>1
          <6> QED
            BY <2>b, <3>1, <5>2, <6>1, <6>2 DEF BringTheCurrent
        <5> QED
          BY <5>1, <5>2
      <4>2. ASSUME NEW d \in Calls, provider # "refresh" PROVE ask'[d].refresh = 0
        BY <2>b, <3>1, <3>3, <4>2 DEF BringTheCurrent
      <4> QED
        BY <2>a, <4>1, <4>2 DEF BringTheCurrent
    <3>6. RefreshTokenIsKept'
      <4>1. CASE rotates
        <5>1. c \in bringing' /\ ask'[c].refresh = current'
          BY <3>3, <3>4, <4>1 DEF bringing
        <5> QED
          BY <5>1 DEF RefreshTokenIsKept
      <4>2. CASE ~rotates
        <5>1. current' = current /\ (spoiled => spoiled')
          BY <3>1, <4>2
        <5>2. ASSUME NEW d \in bringing, ask[d].refresh = current
              PROVE  d \in bringing' /\ ask'[d].refresh = current'
          BY <2>b, <2>c, <3>2, <5>1, <5>2 DEF bringing
        <5> QED
          BY <3>2, <5>1, <5>2 DEF RefreshTokenIsKept
      <4> QED
        BY <4>1, <4>2
    <3> QED
      BY <3>5, <3>6
  <2>3. CASE Refuse(c) \/ (ask[c].state = "refused" /\ giveUp(c))
    <3>1. UNCHANGED <<refreshToken, current, spoiled>>
      BY <2>3 DEF Refuse, giveUp, providerVars, endpointVars
    <3>2. /\ ask[c].state \in {"asked", "refused"}
          /\ ask'[c].state \in {"none", "refused"}
          /\ ask'[c].refresh \in {0, ask[c].refresh}
      BY <2>0, <2>3 DEF Refuse, giveUp, TokensTyped, Asks, NoAsk
    <3>3. c \notin bringing' /\ c \notin bringing
      BY <3>2 DEF bringing
    <3> QED
      BY <2>d, <3>1, <3>2, <3>3
  <2>4. CASE LoseAnswer(c)
    <3>1. UNCHANGED <<refreshToken, current>> /\ spoiled' = (spoiled \/ ask[c].refresh \notin {0, refreshToken})
      BY <2>4 DEF LoseAnswer, providerVars, endpointVars
    <3>2. ask'[c].refresh = ask[c].refresh /\ ask'[c].state = "refused"
      BY <2>0, <2>4 DEF LoseAnswer, TokensTyped, Asks
    <3>3. c \notin bringing' /\ (c \in bringing => ask[c].refresh # 0)
      BY <3>2 DEF bringing
    <3> QED
      BY <2>d, <3>1, <3>2, <3>3
  <2>5. CASE ask[c].state = "answered" /\ apply(c)
    <3>1. UNCHANGED <<current, spoiled>> /\ ask'[c] = NoAsk
      BY <2>5 DEF apply, endpointVars, TokensTyped
    <3>2. c \notin bringing' /\ ask'[c].refresh = 0
      BY <3>1 DEF bringing, NoAsk
    <3>3. CASE provider = "credentials" \/ ask[c].refresh = 0
      <4>1. refreshToken' = refreshToken
        BY <2>5, <3>3 DEF apply
      <4>2. c \notin bringing
        BY <3>3 DEF BringTheCurrent, bringing
      <4> QED
        BY <2>d, <3>1, <3>2, <4>1, <4>2
    <3>4. CASE provider # "credentials" /\ ask[c].refresh # 0
      <4>1. refreshToken' = ask[c].refresh /\ c \in bringing
        BY <2>5, <3>4 DEF apply, bringing
      <4>2. RefreshTokenIsKept'
        BY <3>1, <4>1 DEF RefreshTokenIsKept, BringTheCurrent
      <4>3. BringTheCurrent'
        BY <2>a, <2>b, <2>c, <3>1, <3>2 DEF BringTheCurrent
      <4> QED
        BY <4>2, <4>3
    <3> QED
      BY <3>3, <3>4
  <2> QED
    BY <1>2, <2>1, <2>2, <2>3, <2>4, <2>5 DEF TokenStep
<1> QED
  BY <1>1, <1>2 DEF TokenNext

(* The provider keeps the refresh token the endpoint accepts, or its       *)
(* answer is under way, however refreshes overlap, as long as no answer    *)
(* with a new one is lost or overtaken.                                    *)
THEOREM RefreshesKeepTheToken == Spec => []RefreshTokenIsKept
<1>1. RefreshInv /\ [Next]_vars => RefreshInv'
  BY ClientsTakeTokenSteps, StepsKeepRefresh
<1>2. RefreshInv => RefreshTokenIsKept
  BY DEF RefreshInv
<1> QED
  BY RefreshAtFirst, <1>1, <1>2, PTL DEF Spec

-----------------------------------------------------------------------------
(* The streams. A body is the cells of its items, one after the other; a   *)
(* reader stands between two items (Rest) with what has come out of those  *)
(* behind it (Passed). Chunks, lines and frames move it on, and what it    *)
(* has yielded is at every place what the server meant (Wholeness).        *)
StreamKinds == {"lines", "events", "web"}

(* The cells of an item.                                                   *)
cellsOf(k, item) == IF k = "web" THEN 2 + lengthOf(item) ELSE 3

(* What the items of a body may be, by its kind.                           *)
LEMMA ItemsOfKind ==
  ASSUME NEW k \in StreamKinds, NEW items \in Items[k]
  PROVE  /\ Len(items) \in Nat /\ DOMAIN items = 1..Len(items)
         /\ k = "lines"  => \A j \in DOMAIN items : items[j] = "data"
         /\ k = "events" => \A j \in DOMAIN items : items[j] \in {"data", "note", "done"}
         /\ k = "web" => \A j \in DOMAIN items : items[j] \in {"data", "empty"} \cup trailerItems
         /\ k = "web" => \A j \in DOMAIN items : items[j] \in trailerItems => j = Len(items)
         /\ items = <<>> <=> Len(items) = 0
<1>1. CASE k = "lines"
  <2>1. items \in Seq({"data"})
    BY <1>1, ItemsAssumption
  <2> QED
    BY <1>1, <2>1
<1>2. CASE k = "events"
  <2>1. items \in Seq({"data", "note", "done"})
    BY <1>2, ItemsAssumption
  <2> QED
    BY <1>2, <2>1
<1>3. CASE k = "web"
  <2>1. items \in Seq({"data", "empty"} \cup trailerItems) /\ \A j \in DOMAIN items : items[j] \in trailerItems => j = Len(items)
    BY <1>3, ItemsAssumption
  <2> QED
    BY <1>3, <2>1
<1> QED
  BY <1>1, <1>2, <1>3 DEF StreamKinds

(* Sets of item numbers are finite.                                        *)
LEMMA SubsetsOfItems ==
  ASSUME NEW k \in StreamKinds, NEW items \in Items[k], NEW S \in SUBSET DOMAIN items
  PROVE  IsFiniteSet(S) /\ Cardinality(S) \in Nat
<1>1. IsFiniteSet(DOMAIN items)
  BY ItemsOfKind, FS_Interval
<1> QED
  BY <1>1, FS_Subset, FS_CardinalityType

(* How many cells the first i items take: nothing for none, and more       *)
(* with each item by its cells.                                            *)
LEMMA UpTo ==
  ASSUME NEW k \in StreamKinds, NEW items \in Items[k], NEW i \in 0..Len(items)
  PROVE  /\ upTo(k, items, i) \in Nat
         /\ i = 0 => upTo(k, items, i) = 0
         /\ \A j \in 0..i : i # j => upTo(k, items, j) < upTo(k, items, i)
         /\ i # 0 => upTo(k, items, i) = upTo(k, items, i - 1) + cellsOf(k, items[i])
<1> DEFINE full(j) == {x \in 1..j : items[x] # "empty"}
<1>0. Len(items) \in Nat /\ DOMAIN items = 1..Len(items)
  BY ItemsOfKind
<1>1. CASE k # "web"
  BY <1>0, <1>1 DEF upTo, cellsOf
<1>2. CASE k = "web"
  <2>1. \A j \in 0..i : IsFiniteSet(full(j)) /\ Cardinality(full(j)) \in Nat
    <3> SUFFICES ASSUME NEW j \in 0..i PROVE full(j) \subseteq DOMAIN items
      BY SubsetsOfItems
    <3> QED
      BY <1>0
  <2>2. \A j \in 0..i : upTo(k, items, j) = 2 * j + 2 * Cardinality(full(j))
    BY <1>2 DEF upTo
  <2>3. \A j \in 0..i : full(j) \subseteq full(i)
    BY <1>0
  <2>4. full(0) = {}
    OBVIOUS
  <2>5. i # 0 /\ items[i] = "empty" => full(i) = full(i - 1)
    BY <1>0
  <2>6. i # 0 /\ items[i] # "empty" => full(i) = full(i - 1) \cup {i} /\ i \notin full(i - 1)
    BY <1>0
  <2>a. i # 0 => i - 1 \in 0..i
    BY <1>0
  <2>b. 0 \in 0..i /\ i \in 0..i
    BY <1>0
  <2> HIDE DEF full
  <2>7. \A j \in 0..i : Cardinality(full(j)) <= Cardinality(full(i))
    BY <2>1, <2>3, <2>b, FS_Subset
  <2>8. i # 0 => Cardinality(full(i)) = Cardinality(full(i - 1)) + IF items[i] = "empty" THEN 0 ELSE 1
    <3>1. CASE items[i] = "empty"
      BY <2>1, <2>5, <2>a, <3>1
    <3>2. CASE items[i] # "empty"
      BY <2>1, <2>6, <2>a, <3>2, FS_AddElement
    <3> QED
      BY <3>1, <3>2
  <2>9. upTo(k, items, i) \in Nat /\ (i = 0 => upTo(k, items, i) = 0)
    <3>1. Cardinality(full(0)) = 0
      BY <2>4, FS_EmptySet
    <3>2. upTo(k, items, i) = 2 * i + 2 * Cardinality(full(i)) /\ Cardinality(full(i)) \in Nat
      BY <2>1, <2>2, <2>b
    <3>3. i = 0 => Cardinality(full(i)) = 0
      BY <3>1
    <3> QED
      BY <3>2, <3>3
  <2>10. \A j \in 0..i : i # j => upTo(k, items, j) < upTo(k, items, i)
    <3> SUFFICES ASSUME NEW j \in 0..i, i # j PROVE upTo(k, items, j) < upTo(k, items, i)
      OBVIOUS
    <3>1. Cardinality(full(j)) \in Nat /\ Cardinality(full(i)) \in Nat /\ Cardinality(full(j)) <= Cardinality(full(i))
      BY <2>1, <2>7, <2>b
    <3>2. upTo(k, items, j) = 2 * j + 2 * Cardinality(full(j)) /\ upTo(k, items, i) = 2 * i + 2 * Cardinality(full(i))
      BY <2>2, <2>b
    <3> QED
      BY <3>1, <3>2
  <2>11. i # 0 => upTo(k, items, i) = upTo(k, items, i - 1) + cellsOf(k, items[i])
    <3> SUFFICES ASSUME i # 0 PROVE upTo(k, items, i) = upTo(k, items, i - 1) + cellsOf(k, items[i])
      OBVIOUS
    <3>1. Cardinality(full(i - 1)) \in Nat /\ Cardinality(full(i)) \in Nat
      BY <2>1, <2>a, <2>b
    <3>2. upTo(k, items, i - 1) = 2 * (i - 1) + 2 * Cardinality(full(i - 1)) /\ upTo(k, items, i) = 2 * i + 2 * Cardinality(full(i))
      BY <2>2, <2>a, <2>b
    <3> QED
      BY <1>2, <2>8, <3>1, <3>2, SMTT(20) DEF cellsOf, lengthOf
  <2> QED
    BY <2>9, <2>10, <2>11
<1> QED
  BY <1>1, <1>2

(* A body is a sequence, and every item of it ends within it.              *)
LEMMA Body ==
  ASSUME NEW k \in StreamKinds, NEW items \in Items[k]
  PROVE  /\ bodySize(k, items) \in Nat
         /\ \A j \in DOMAIN items : endsAt(k, items, j) <= bodySize(k, items)
         /\ Len(bodyOf(k, items)) = bodySize(k, items)
         /\ \E S : bodyOf(k, items) \in Seq(S)
<1>0. Len(items) \in Nat /\ DOMAIN items = 1..Len(items) /\ (items = <<>> <=> Len(items) = 0)
  BY ItemsOfKind
<1>1. bodySize(k, items) \in Nat
  <2>1. CASE Len(items) # 0
    <3>1. upTo(k, items, Len(items) - 1) \in Nat
      BY <1>0, <2>1, UpTo
    <3>2. upTo(k, items, Len(items)) > 0 /\ upTo(k, items, Len(items)) \in Nat
      BY <1>0, <2>1, <3>1, UpTo DEF cellsOf, lengthOf
    <3> QED
      BY <1>0, <2>1, <3>2 DEF bodySize, endsAt
  <2> QED
    BY <1>0, <2>1 DEF bodySize
<1>2. ASSUME NEW j \in DOMAIN items
      PROVE  endsAt(k, items, j) <= bodySize(k, items)
  <2>1. upTo(k, items, j) \in Nat /\ upTo(k, items, Len(items)) \in Nat
        /\ upTo(k, items, j) <= upTo(k, items, Len(items))
    BY <1>0, UpTo
  <2> QED
    BY <1>0, <2>1 DEF bodySize, endsAt
<1>3. \E S : bodyOf(k, items) \in [1..bodySize(k, items) -> S]
  <2> WITNESS {bodyOf(k, items)[p] : p \in 1..bodySize(k, items)}
  <2> QED
    BY DEF bodyOf
<1>4. Len(bodyOf(k, items)) = bodySize(k, items)
  BY <1>1 DEF bodyOf
<1>5. \E S : bodyOf(k, items) \in Seq(S)
  <2>1. PICK S : bodyOf(k, items) \in [1..bodySize(k, items) -> S]
    BY <1>3
  <2>2. bodyOf(k, items) \in Seq(S)
    BY <1>1, <2>1, SeqDef
  <2> QED
    BY <2>2
<1> QED
  BY <1>1, <1>2, <1>4, <1>5

(* Cell i of item j stands where the items before it end.                  *)
LEMMA BodyCell ==
  ASSUME NEW k \in StreamKinds, NEW items \in Items[k], NEW j \in DOMAIN items,
         NEW i \in 1..cellsOf(k, items[j]),
         upTo(k, items, j - 1) + i <= bodySize(k, items)
  PROVE  bodyOf(k, items)[upTo(k, items, j - 1) + i] = IF k # "web" /\ i = 3 THEN NL ELSE cell(j, i)
<1> DEFINE at == upTo(k, items, j - 1)
           p == at + i
<1>0. Len(items) \in Nat /\ DOMAIN items = 1..Len(items)
  BY ItemsOfKind
<1>1. at \in Nat /\ i \in Nat
  BY <1>0, UpTo DEF cellsOf, lengthOf
<1>2. at < p /\ p <= upTo(k, items, j) /\ p \in 1..bodySize(k, items)
  <2>1. upTo(k, items, j) = at + cellsOf(k, items[j])
    BY <1>0, UpTo
  <2> QED
    BY <1>1, <2>1, Body DEF cellsOf, lengthOf
<1>3. ASSUME NEW x \in DOMAIN items, upTo(k, items, x - 1) < p, p <= upTo(k, items, x)
      PROVE  x = j
  <2>1. upTo(k, items, x - 1) \in Nat /\ upTo(k, items, x) \in Nat /\ upTo(k, items, j) \in Nat
    BY <1>0, UpTo
  <2>2. CASE x < j
    <3>1. j - 1 \in 0..Len(items) /\ x \in 0..(j - 1)
      BY <1>0, <2>2
    <3>2. x = j - 1 \/ upTo(k, items, x) < at
      BY <3>1, UpTo
    <3> QED
      BY <1>1, <1>2, <1>3, <2>1, <3>2
  <2>3. CASE x > j
    <3>1. x - 1 \in 0..Len(items) /\ j \in 0..(x - 1)
      BY <1>0, <2>3
    <3>2. j = x - 1 \/ upTo(k, items, j) < upTo(k, items, x - 1)
      BY <3>1, UpTo
    <3> QED
      BY <1>1, <1>2, <1>3, <2>1, <3>2
  <2> QED
    BY <1>0, <2>2, <2>3
<1>4. itemAt(k, items, p) = j
  <2> HIDE DEF p
  <2> QED
    BY <1>2, <1>3 DEF itemAt
<1>5. bodyOf(k, items)[p] = IF k # "web" /\ p - upTo(k, items, j - 1) = 3 THEN NL ELSE cell(j, p - upTo(k, items, j - 1))
  BY <1>2, <1>4 DEF bodyOf
<1> QED
  BY <1>1, <1>5

-----------------------------------------------------------------------------
(* The cells of a body from number x + 1 to number y.                      *)
span(k, items, x, y) == SubSeq(bodyOf(k, items), x + 1, y)

(* Where a reader of a body stands: m items are behind it, the next ones   *)
(* up to q wait whole in l, and b is what there is of item q + 1.          *)
Rest(k, items, t, l, b, m, q) ==
  /\ m \in 0..q /\ q \in 0..Len(items)
  /\ upTo(k, items, q) <= t /\ t <= bodySize(k, items) /\ t \in Nat
  /\ l = span(k, items, upTo(k, items, m), upTo(k, items, q))
  /\ b = span(k, items, upTo(k, items, q), t)
  /\ IF k = "web" THEN m = q ELSE t < upTo(k, items, q) + 3

(* The same facts as one reads them off for two places.                    *)
LEMMA Ups ==
  ASSUME NEW k \in StreamKinds, NEW items \in Items[k]
  PROVE  /\ Len(items) \in Nat /\ DOMAIN items = 1..Len(items)
         /\ \A x \in 0..Len(items) : upTo(k, items, x) \in Nat
         /\ \A x, y \in 0..Len(items) : x <= y => upTo(k, items, x) <= upTo(k, items, y)
         /\ \A x \in 1..Len(items) : /\ upTo(k, items, x) = upTo(k, items, x - 1) + cellsOf(k, items[x])
                                      /\ cellsOf(k, items[x]) \in {2, 3, 4}
         /\ upTo(k, items, 0) = 0
         /\ bodySize(k, items) \in Nat /\ bodySize(k, items) <= upTo(k, items, Len(items))
         /\ Len(bodyOf(k, items)) = bodySize(k, items)
<1>1. Len(items) \in Nat /\ DOMAIN items = 1..Len(items) /\ (items = <<>> <=> Len(items) = 0)
  BY ItemsOfKind
<1>2. \A x \in 0..Len(items) : upTo(k, items, x) \in Nat
  BY UpTo
<1>3. ASSUME NEW x \in 0..Len(items), NEW y \in 0..Len(items), x <= y
      PROVE  upTo(k, items, x) <= upTo(k, items, y)
  <2>1. x \in 0..y
    BY <1>1, <1>3
  <2>2. x # y => upTo(k, items, x) < upTo(k, items, y)
    BY <2>1, UpTo
  <2> QED
    BY <1>2, <2>2
<1>4. ASSUME NEW x \in 1..Len(items)
      PROVE  upTo(k, items, x) = upTo(k, items, x - 1) + cellsOf(k, items[x])
  <2>1. x \in 0..Len(items) /\ x # 0
    BY <1>1
  <2> QED
    BY <2>1, UpTo
<1>5. \A x \in 1..Len(items) : cellsOf(k, items[x]) \in {2, 3, 4}
  BY DEF cellsOf, lengthOf
<1>6. upTo(k, items, 0) = 0
  BY <1>1, UpTo
<1>7. bodySize(k, items) \in Nat /\ Len(bodyOf(k, items)) = bodySize(k, items)
  BY Body
<1>8. bodySize(k, items) <= upTo(k, items, Len(items))
  BY <1>1, <1>2, <1>6 DEF bodySize, endsAt
<1> QED
  BY <1>1, <1>2, <1>3, <1>4, <1>5, <1>6, <1>7, <1>8

(* A cell of a part of a sequence.                                         *)
LEMMA SubSeqAt ==
  ASSUME NEW s, NEW x \in Int, NEW y \in Int, NEW i \in 1..(y - x + 1)
  PROVE  SubSeq(s, x, y)[i] = s[x + i - 1]
OBVIOUS

(* What the cells are that a reader holds.                                 *)
LEMMA RestCells ==
  ASSUME NEW k \in StreamKinds, NEW items \in Items[k], NEW t, NEW l, NEW b, NEW m, NEW q,
         Rest(k, items, t, l, b, m, q)
  PROVE  /\ Len(l) = upTo(k, items, q) - upTo(k, items, m)
         /\ Len(b) = t - upTo(k, items, q)
         /\ \A j \in (m + 1)..q : \A i \in 1..cellsOf(k, items[j]) :
              l[upTo(k, items, j - 1) - upTo(k, items, m) + i] = IF k # "web" /\ i = 3 THEN NL ELSE cell(j, i)
         /\ q < Len(items) => \A i \in 1..cellsOf(k, items[q + 1]) : i <= Len(b) =>
              b[i] = IF k # "web" /\ i = 3 THEN NL ELSE cell(q + 1, i)
         /\ q = Len(items) => b = <<>>
<1> DEFINE body == bodyOf(k, items)
           up(x) == upTo(k, items, x)
<1>1. /\ m \in 0..q /\ q \in 0..Len(items) /\ m \in 0..Len(items)
      /\ up(q) <= t /\ t <= bodySize(k, items) /\ t \in Nat
  BY Ups DEF Rest
<1>s. l = SubSeq(body, up(m) + 1, up(q)) /\ b = SubSeq(body, up(q) + 1, t)
  BY DEF Rest, span
<1>2. Len(items) \in Nat /\ up(m) \in Nat /\ up(q) \in Nat /\ up(m) <= up(q) /\ bodySize(k, items) \in Nat
  BY <1>1, Ups
<1> HIDE DEF body, up
<1>3. Len(l) = up(q) - up(m) /\ Len(b) = t - up(q)
  BY <1>1, <1>2, <1>s
<1>4. ASSUME NEW j \in (m + 1)..q, NEW i \in 1..cellsOf(k, items[j])
      PROVE  l[up(j - 1) - up(m) + i] = IF k # "web" /\ i = 3 THEN NL ELSE cell(j, i)
  <2>1. j \in 1..Len(items) /\ j - 1 \in 0..Len(items) /\ j \in 0..Len(items) /\ m <= j - 1 /\ j <= q
    BY <1>1, <1>2
  <2>2. up(m) <= up(j - 1) /\ up(j - 1) \in Nat /\ up(j) <= up(q) /\ up(j) \in Nat
    BY <1>1, <2>1, Ups DEF up
  <2>3. up(j) = up(j - 1) + cellsOf(k, items[j]) /\ cellsOf(k, items[j]) \in {2, 3, 4}
    BY <2>1, Ups DEF up
  <2>4. i \in Nat /\ 1 <= i /\ up(j - 1) + i <= up(q)
    BY <1>2, <2>2, <2>3, SMTT(20)
  <2>5. body[up(j - 1) + i] = IF k # "web" /\ i = 3 THEN NL ELSE cell(j, i)
    <3>1. j \in DOMAIN items
      BY <2>1, ItemsOfKind
    <3>2. up(j - 1) + i <= bodySize(k, items)
      BY <1>1, <1>2, <2>2, <2>4
    <3> QED
      BY <3>1, <3>2, BodyCell DEF body, up
  <2> DEFINE at == up(j - 1) - up(m) + i
  <2>6. at \in 1..(up(q) - (up(m) + 1) + 1) /\ (up(m) + 1) + at - 1 = up(j - 1) + i
    <3>1. at \in Int /\ 1 <= at
      BY <1>2, <2>2, <2>4
    <3>2. at <= up(q) - (up(m) + 1) + 1
      BY <1>2, <2>2, <2>4
    <3>3. (up(m) + 1) + at - 1 = up(j - 1) + i
      BY <1>2, <2>2, <2>4
    <3> QED
      BY <1>2, <3>1, <3>2, <3>3
  <2> HIDE DEF at
  <2>7. l[at] = body[(up(m) + 1) + at - 1]
    <3>1. up(m) + 1 \in Int /\ up(q) \in Int
      BY <1>2
    <3> QED
      BY <1>s, <2>6, <3>1, SubSeqAt
  <2> QED
    BY <2>5, <2>6, <2>7 DEF at
<1>5. ASSUME q < Len(items), NEW i \in 1..cellsOf(k, items[q + 1]), i <= Len(b)
      PROVE  b[i] = IF k # "web" /\ i = 3 THEN NL ELSE cell(q + 1, i)
  <2>1. q + 1 \in 1..Len(items) /\ (q + 1) - 1 = q
    BY <1>1, <1>2, <1>5
  <2>2. cellsOf(k, items[q + 1]) \in {2, 3, 4}
    BY <2>1, Ups
  <2>3. i \in Nat /\ 1 <= i /\ up(q) + i <= t /\ up(q) + i <= bodySize(k, items)
    BY <1>1, <1>2, <1>3, <1>5, <2>2
  <2>4. body[up(q) + i] = IF k # "web" /\ i = 3 THEN NL ELSE cell(q + 1, i)
    <3>1. q + 1 \in DOMAIN items /\ upTo(k, items, (q + 1) - 1) + i <= bodySize(k, items)
      BY <2>1, <2>3, Ups DEF up
    <3> QED
      BY <2>1, <3>1, BodyCell DEF body, up
  <2>5. b[i] = body[(up(q) + 1) + i - 1] /\ (up(q) + 1) + i - 1 = up(q) + i
    BY <1>s, <1>1, <1>2, <2>3, SMTT(20)
  <2> QED
    BY <2>4, <2>5
<1>6. ASSUME q = Len(items)
      PROVE  b = <<>>
  <2>1. t < up(q) + 1
    BY <1>1, <1>2, <1>6, Ups DEF up
  <2> QED
    BY <1>s, <1>1, <1>2, <2>1, SubSeqEmpty
<1> QED
  BY <1>3, <1>4, <1>5, <1>6 DEF up

-----------------------------------------------------------------------------
(* Places are counted from 1, one further with every member of S.          *)
LEMMA Places ==
  ASSUME NEW n \in Nat, NEW S \in SUBSET (1..n)
  PROVE  /\ IsFiniteSet(S) /\ Cardinality(S) \in Nat
         /\ \A x \in 0..n : place(S, x) \in Nat
         /\ place(S, 0) = 0
         /\ \A x \in 1..n : x \in S => place(S, x) = place(S, x - 1) + 1
         /\ \A x \in 1..n : x \notin S => place(S, x) = place(S, x - 1)
         /\ \A x, y \in 0..n : x <= y => place(S, x) <= place(S, y)
<1> DEFINE upto(x) == {j \in S : j <= x}
<1>0. \A j \in S : j \in Int /\ ~(j <= 0)
  OBVIOUS
<1>1. IsFiniteSet(S) /\ Cardinality(S) \in Nat
  <2>1. IsFiniteSet(1..n)
    BY FS_Interval
  <2> QED
    BY <2>1, FS_Subset, FS_CardinalityType
<1>2. \A x \in 0..n : IsFiniteSet(upto(x)) /\ Cardinality(upto(x)) \in Nat
  <2> SUFFICES ASSUME NEW x \in 0..n PROVE upto(x) \subseteq S
    BY <1>1, FS_Subset, FS_CardinalityType
  <2> QED
    OBVIOUS
<1>3. Cardinality(upto(0)) = 0
  <2>1. upto(0) = {}
    BY <1>0
  <2> QED
    BY <2>1, FS_EmptySet
<1>4. ASSUME NEW x \in 1..n
      PROVE  /\ x \in S => Cardinality(upto(x)) = Cardinality(upto(x - 1)) + 1
             /\ x \notin S => Cardinality(upto(x)) = Cardinality(upto(x - 1))
  <2>0. \A j \in S : (j <= x <=> j <= x - 1 \/ j = x) /\ ~(x <= x - 1)
    BY <1>0
  <2>1. x \in S => upto(x) = upto(x - 1) \cup {x} /\ x \notin upto(x - 1)
    BY <2>0
  <2>2. x \notin S => upto(x) = upto(x - 1)
    BY <2>0
  <2>3. x - 1 \in 0..n
    OBVIOUS
  <2> HIDE DEF upto
  <2>4. IsFiniteSet(upto(x - 1))
    BY <1>2, <2>3
  <2> QED
    BY <2>1, <2>2, <2>4, FS_AddElement
<1>5. ASSUME NEW x \in 0..n, NEW y \in 0..n, x <= y
      PROVE  Cardinality(upto(x)) <= Cardinality(upto(y))
  <2>0. \A j \in S : j <= x => j <= y
    BY <1>0, <1>5
  <2>1. upto(x) \subseteq upto(y)
    BY <2>0
  <2> HIDE DEF upto
  <2> QED
    BY <1>2, <2>1, FS_Subset
<1> QED
  BY <1>1, <1>2, <1>3, <1>4, <1>5 DEF place

(* A set that has everything below its members gives them the places       *)
(* they have among more.                                                   *)
LEMMA Initial ==
  ASSUME NEW S, NEW T \in SUBSET S, NEW x \in T, \A j \in S : j <= x => j \in T
  PROVE  place(T, x) = place(S, x)
<1>1. {j \in T : j <= x} = {j \in S : j <= x}
  OBVIOUS
<1> QED
  BY <1>1 DEF place

(* What arrived is an initial part of what is meant.                       *)
LEMMA Meant ==
  ASSUME NEW k \in StreamKinds, NEW items \in Items[k], NEW size \in Nat
  PROVE  /\ Len(items) \in Nat /\ meant(items) \in SUBSET (1..Len(items))
         /\ arrived(k, items, size) \in SUBSET meant(items)
         /\ \A x \in arrived(k, items, size) : \A j \in meant(items) : j <= x => j \in arrived(k, items, size)
<1>1. Len(items) \in Nat /\ DOMAIN items = 1..Len(items)
  BY ItemsOfKind
<1>2. meant(items) \in SUBSET (1..Len(items))
  BY <1>1 DEF meant
<1>3. arrived(k, items, size) \in SUBSET meant(items)
  BY DEF arrived
<1>4. ASSUME NEW x \in arrived(k, items, size), NEW j \in meant(items), j <= x
      PROVE  j \in arrived(k, items, size)
  <2>1. x \in 0..Len(items) /\ j \in 0..Len(items)
    BY <1>2, <1>3
  <2>2. upTo(k, items, j) <= upTo(k, items, x) /\ upTo(k, items, j) \in Nat /\ upTo(k, items, x) \in Nat
    BY <1>4, <2>1, Ups
  <2> QED
    BY <2>2 DEF arrived, endsAt
<1> QED
  BY <1>1, <1>2, <1>3, <1>4

(* What has come out when the first m items are behind the reader.         *)
Passed(k, items, m, o) ==
  /\ o \in Seq(Seq(Nat \X Nat))
  /\ Len(o) = place(meant(items), m)
  /\ \A j \in meant(items) : j <= m => o[place(meant(items), j)] = wholeItem(k, items, j)

(* In the middle of a body: no mark has ended it, and a trailer that was   *)
(* passed has left its status.                                             *)
Streaming(k, items, size, t, l, b, o, s) ==
  /\ items \in Items[k] /\ size \in 0..bodySize(k, items) /\ t <= size
  /\ \E m, q \in 0..Len(items) :
       /\ Rest(k, items, t, l, b, m, q)
       /\ Passed(k, items, m, o)
       /\ \A j \in 1..m : items[j] # "done"
       /\ s # 0 <=> \E j \in 1..m : items[j] = "trailer failed"

(* What ItemsAreWhole says of one call.                                    *)
Wholeness(k, items, size, early, b, o, res) ==
  LET whole == arrived(k, items, size) IN
  /\ \A j \in whole : place(whole, j) <= Len(o) => o[place(whole, j)] = wholeItem(k, items, j)
  /\ \/ Len(o) <= Cardinality(whole)
     \/ Len(o) = Cardinality(whole) + 1 /\ k # "web" /\ res = "done" /\ o[Len(o)] = b
  /\ res = "done" => Len(o) >= Cardinality(whole) /\ failures(k, items, size) = {}
  /\ res = "GrpcError" => failures(k, items, size) # {} \/ early = "failed"

(* What has come out is no more than came in whole, each at its place.     *)
LEMMA PassedArrived ==
  ASSUME NEW k \in StreamKinds, NEW items \in Items[k], NEW size \in Nat, NEW m \in 0..Len(items),
         upTo(k, items, m) <= size, NEW o, Passed(k, items, m, o)
  PROVE  /\ Len(o) <= Cardinality(arrived(k, items, size)) /\ Len(o) \in Nat
         /\ \A j \in arrived(k, items, size) :
              place(arrived(k, items, size), j) <= Len(o) =>
                o[place(arrived(k, items, size), j)] = wholeItem(k, items, j)
<1> DEFINE M == meant(items)
           A == arrived(k, items, size)
<1>1. Len(items) \in Nat /\ M \in SUBSET (1..Len(items)) /\ A \in SUBSET M
      /\ \A x \in A : \A j \in M : j <= x => j \in A
  BY Meant
<1>2. {j \in M : j <= m} \subseteq A
  <2> SUFFICES ASSUME NEW j \in M, j <= m PROVE endsAt(k, items, j) <= size
    BY DEF arrived
  <2>1. j \in 0..Len(items)
    BY <1>1
  <2>2. upTo(k, items, j) <= upTo(k, items, m) /\ upTo(k, items, j) \in Nat /\ upTo(k, items, m) \in Nat
    BY <2>1, Ups
  <2> QED
    BY <2>2 DEF endsAt
<1>3. IsFiniteSet(A) /\ Cardinality(A) \in Nat
  <2>1. A \in SUBSET (1..Len(items))
    BY <1>1
  <2> QED
    BY <1>1, <2>1, Places
<1> HIDE DEF M, A
<1>4. place(M, m) <= Cardinality(A) /\ place(M, m) \in Nat
  BY <1>1, <1>2, <1>3, FS_Subset, Places DEF place
<1>5. ASSUME NEW j \in A, place(A, j) <= Len(o)
      PROVE  o[place(A, j)] = wholeItem(k, items, j)
  <2>1. place(A, j) = place(M, j)
    BY <1>1, Initial
  <2>2. j \in M /\ j \in 1..Len(items) /\ j - 1 \in 0..Len(items)
    BY <1>1
  <2>3. place(M, j) = place(M, j - 1) + 1 /\ place(M, j - 1) \in Nat
    BY <1>1, <2>2, Places
  <2>a. place(A, j) <= place(M, m)
    BY <1>5 DEF Passed, M
  <2>b. m <= j - 1 => place(M, m) <= place(M, j - 1)
    BY <1>1, <2>2, Places
  <2>4. ~(m <= j - 1)
    BY <1>4, <2>1, <2>3, <2>a, <2>b
  <2>5. j <= m
    BY <1>1, <2>2, <2>4
  <2> QED
    BY <2>1, <2>2, <2>5 DEF Passed, M
<1> QED
  BY <1>4, <1>5 DEF Passed, M, A

(* A reader in the middle of a body keeps the promise.                     *)
LEMMA StreamingIsWhole ==
  ASSUME NEW k \in StreamKinds, NEW items, NEW size, NEW t, NEW l, NEW b, NEW o, NEW s, NEW early, NEW res,
         Streaming(k, items, size, t, l, b, o, s), res \notin {"done", "GrpcError"}
  PROVE  Wholeness(k, items, size, early, b, o, res)
<1>0. items \in Items[k] /\ size \in 0..bodySize(k, items) /\ t <= size
  BY DEF Streaming
<1>1. size \in Nat /\ Len(items) \in Nat
  <2>1. bodySize(k, items) \in Nat /\ Len(items) \in Nat
    BY <1>0, Ups
  <2> QED
    BY <1>0, <2>1
<1>2. PICK m \in 0..Len(items), q \in 0..Len(items) : Rest(k, items, t, l, b, m, q) /\ Passed(k, items, m, o)
  BY DEF Streaming
<1>3. m <= q /\ upTo(k, items, q) <= t /\ t \in Nat
  BY <1>2 DEF Rest
<1>4. upTo(k, items, m) <= upTo(k, items, q) /\ upTo(k, items, m) \in Nat /\ upTo(k, items, q) \in Nat
  BY <1>0, <1>3, Ups
<1>5. upTo(k, items, m) <= size
  BY <1>0, <1>1, <1>3, <1>4
<1> QED
  BY <1>0, <1>1, <1>2, <1>5, PassedArrived DEF Wholeness

(* A reader in front of a body.                                            *)
LEMMA StreamingStarts ==
  ASSUME NEW k \in StreamKinds, NEW items \in Items[k], NEW size \in 0..bodySize(k, items)
  PROVE  Streaming(k, items, size, 0, <<>>, <<>>, <<>>, 0)
<1>1. Len(items) \in Nat /\ bodySize(k, items) \in Nat /\ upTo(k, items, 0) = 0 /\ 0 \in 0..Len(items)
  BY Ups
<1>2. SubSeq(bodyOf(k, items), 1, 0) = <<>>
  BY SubSeqEmpty
<1>3. Rest(k, items, 0, <<>>, <<>>, 0, 0)
  BY <1>1, <1>2 DEF Rest, span
<1>4. Passed(k, items, 0, <<>>)
  <2>1. meant(items) \in SUBSET (1..Len(items))
    BY Meant
  <2>2. place(meant(items), 0) = 0
    BY <1>1, <2>1, Places
  <2>3. \A j \in meant(items) : ~(j <= 0)
    BY <1>1, <2>1
  <2> QED
    BY <2>2, <2>3 DEF Passed
<1>5. 0 <= size /\ ~\E j \in 1..0 : TRUE
  BY <1>1
<1> QED
  BY <1>1, <1>3, <1>4, <1>5 DEF Streaming

-----------------------------------------------------------------------------
(* A part of a part of a sequence.                                         *)
LEMMA SubSeqOfSub ==
  ASSUME NEW s, NEW x \in Int, NEW y \in Int, NEW i \in Nat \ {0}, NEW j \in Int, j <= y - x + 1
  PROVE  SubSeq(SubSeq(s, x, y), i, j) = SubSeq(s, x + i - 1, x + j - 1)
<1> DEFINE r == SubSeq(s, x, y)
<1>1. \A z \in 1..(y - x + 1) : r[z] = s[x + z - 1]
  BY SubSeqAt
<1>2. \A z \in 1..(j - i + 1) : i + z - 1 \in 1..(y - x + 1) /\ x + (i + z - 1) - 1 = (x + i - 1) + z - 1
  OBVIOUS
<1>3. \A z \in 1..(j - i + 1) : r[i + z - 1] = s[(x + i - 1) + z - 1]
  BY <1>1, <1>2
<1> HIDE DEF r
<1>4. SubSeq(r, i, j) = [z \in 1..(j - i + 1) |-> r[i + z - 1]]
  OBVIOUS
<1>5. SubSeq(s, x + i - 1, x + j - 1) = [z \in 1..(j - i + 1) |-> s[(x + i - 1) + z - 1]]
  <2>1. (x + j - 1) - (x + i - 1) + 1 = j - i + 1
    OBVIOUS
  <2> QED
    BY <2>1
<1> QED
  BY <1>3, <1>4, <1>5 DEF r

(* An item is a sequence of cells.                                         *)
LEMMA WholeItem ==
  ASSUME NEW k \in StreamKinds, NEW items, NEW j \in Nat
  PROVE  /\ wholeItem(k, items, j) \in Seq(Nat \X Nat)
         /\ k # "web" => Len(wholeItem(k, items, j)) = 2
         /\ k = "web" => Len(wholeItem(k, items, j)) = lengthOf(items[j])
<1>1. CASE k = "web"
  <2>1. lengthOf(items[j]) \in {0, 2}
    BY DEF lengthOf
  <2>2. \A i \in 1..lengthOf(items[j]) : cell(j, i + 2) \in Nat \X Nat
    BY <2>1 DEF cell
  <2> QED
    BY <1>1, <2>1, <2>2 DEF wholeItem
<1>2. CASE k # "web"
  <2>1. \A i \in 1..2 : cell(j, i) \in Nat \X Nat
    BY DEF cell
  <2> QED
    BY <1>2, <2>1 DEF wholeItem
<1> QED
  BY <1>1, <1>2

(* One more item is behind the reader: it has come out if it is meant.     *)
LEMMA PassedNext ==
  ASSUME NEW k \in StreamKinds, NEW items \in Items[k], NEW m \in 0..Len(items), m + 1 <= Len(items),
         NEW o, Passed(k, items, m, o)
  PROVE  /\ m + 1 \in meant(items) => Passed(k, items, m + 1, Append(o, wholeItem(k, items, m + 1)))
         /\ m + 1 \notin meant(items) => Passed(k, items, m + 1, o)
<1> DEFINE M == meant(items)
           it == wholeItem(k, items, m + 1)
<1>1. Len(items) \in Nat /\ M \in SUBSET (1..Len(items)) /\ m \in Nat
  BY Meant
<1>2. o \in Seq(Seq(Nat \X Nat)) /\ Len(o) = place(M, m)
      /\ \A j \in M : j <= m => o[place(M, j)] = wholeItem(k, items, j)
  BY DEF Passed
<1>3. it \in Seq(Nat \X Nat)
  BY <1>1, WholeItem
<1>4. m + 1 \in 1..Len(items) /\ (m + 1) - 1 = m
  BY <1>1
<1> HIDE DEF M, it
<1>5. /\ place(M, m) \in Nat
      /\ m + 1 \in M => place(M, m + 1) = place(M, m) + 1
      /\ m + 1 \notin M => place(M, m + 1) = place(M, m)
  BY <1>1, <1>4, Places, ZenonT(30)
<1>6. \A j \in M : j <= m + 1 <=> j <= m \/ j = m + 1
  BY <1>1
<1>7. CASE m + 1 \notin M
  <2>1. \A j \in M : j <= m + 1 => j <= m
    BY <1>6, <1>7
  <2> QED
    BY <1>2, <1>5, <1>7, <2>1 DEF Passed, M
<1>8. CASE m + 1 \in M
  <2>1. Append(o, it) \in Seq(Seq(Nat \X Nat)) /\ Len(Append(o, it)) = Len(o) + 1
    BY <1>2, <1>3
  <2>2. ASSUME NEW j \in M, j <= m
        PROVE  Append(o, it)[place(M, j)] = wholeItem(k, items, j)
    <3>1. j \in 1..Len(items) /\ j - 1 \in 0..Len(items) /\ j \in 0..Len(items)
      BY <1>1
    <3>2. place(M, j) = place(M, j - 1) + 1 /\ place(M, j - 1) \in Nat
      BY <1>1, <3>1, Places
    <3>3. place(M, j) <= place(M, m)
      BY <1>1, <2>2, <3>1, Places
    <3>4. place(M, j) \in 1..Len(o)
      BY <1>2, <1>5, <3>2, <3>3
    <3> QED
      BY <1>2, <2>2, <3>4
  <2>3. Append(o, it)[place(M, m + 1)] = it
    BY <1>2, <1>5, <1>8
  <2>4. \A j \in M : j <= m + 1 => Append(o, it)[place(M, j)] = wholeItem(k, items, j)
    BY <1>6, <2>2, <2>3 DEF it
  <2> QED
    BY <1>2, <1>5, <1>8, <2>1, <2>4 DEF Passed, M, it
<1> QED
  BY <1>7, <1>8 DEF M, it

-----------------------------------------------------------------------------
(* A chunk of n cells, put behind what there was of the next item.         *)
LEMMA SpansJoin ==
  ASSUME NEW k \in StreamKinds, NEW items \in Items[k],
         NEW x \in Nat, NEW y \in Nat, NEW z \in Nat, x <= y, y <= z, z <= bodySize(k, items)
  PROVE  span(k, items, x, y) \o span(k, items, y, z) = span(k, items, x, z)
<1> DEFINE body == bodyOf(k, items)
           w == x + 1
<1>1. bodySize(k, items) \in Nat /\ Len(body) = bodySize(k, items)
  BY Body
<1>2. PICK S : body \in Seq(S)
  BY Body
<1> HIDE DEF body
<1>3. w \in 1..(Len(body) + 1) /\ y \in (w - 1)..Len(body) /\ z \in y..Len(body)
  BY <1>1
<1> HIDE DEF w
<1>4. SubSeq(body, w, y) \o SubSeq(body, y + 1, z) = SubSeq(body, w, z)
  BY <1>2, <1>3, ConcatAdjacentSubSeq
<1> QED
  BY <1>4 DEF body, w, span

(* A chunk of frames waits behind what was left of the last one.           *)
LEMMA ChunkOfFrames ==
  ASSUME NEW k \in StreamKinds, NEW items \in Items[k], NEW size, NEW t, NEW l, NEW b, NEW o, NEW s,
         Streaming(k, items, size, t, l, b, o, s), NEW e \in t..size
  PROVE  k = "web" => Streaming(k, items, size, e, l, b \o span(k, items, t, e), o, s)
<1> DEFINE all == b \o span(k, items, t, e)
<1>1. PICK m \in 0..Len(items), q \in 0..Len(items) :
        /\ Rest(k, items, t, l, b, m, q)
        /\ Passed(k, items, m, o)
        /\ \A j \in 1..m : items[j] # "done"
        /\ s # 0 <=> \E j \in 1..m : items[j] = "trailer failed"
  BY DEF Streaming
<1>2. t \in Nat /\ size \in 0..bodySize(k, items) /\ bodySize(k, items) \in Nat
  BY <1>1, Ups DEF Rest, Streaming
<1>3. e \in t..bodySize(k, items)
  BY <1>2
<1>5. upTo(k, items, q) \in Nat /\ upTo(k, items, q) <= t
  BY <1>1, Ups DEF Rest
<1>4. all = span(k, items, upTo(k, items, q), e)
  <2>1. b = span(k, items, upTo(k, items, q), t)
    BY <1>1 DEF Rest
  <2>2. e \in Nat /\ t <= e /\ e <= bodySize(k, items)
    BY <1>2, <1>3
  <2> QED
    BY <1>2, <1>5, <2>1, <2>2, SpansJoin, ZenonT(30)
<1> HIDE DEF all
<1>6. ASSUME k = "web"
      PROVE  Rest(k, items, e, l, all, m, q)
  <2>1. upTo(k, items, q) <= e /\ e \in Nat
    BY <1>2, <1>5
  <2>2. /\ m \in 0..q /\ m = q
        /\ l = span(k, items, upTo(k, items, m), upTo(k, items, q))
    BY <1>1, <1>6 DEF Rest
  <2> QED
    BY <1>3, <1>4, <1>6, <2>1, <2>2 DEF Rest
<1>7. items \in Items[k] /\ size \in 0..bodySize(k, items) /\ e <= size
  BY <1>2
<1>8. k = "web" => Streaming(k, items, size, e, l, all, o, s)
  BY <1>1, <1>6, <1>7 DEF Streaming
<1> QED
  BY <1>8 DEF all

(* A chunk ends in the middle of a line: before it whole lines wait.       *)
LEMMA LinesOfChunk ==
  ASSUME NEW k \in StreamKinds \ {"web"}, NEW items \in Items[k], NEW q \in 0..Len(items), NEW t \in Nat,
         3 * q <= t, t <= bodySize(k, items)
  PROVE  \E x \in 0..Len(items) :
           /\ q <= x /\ 3 * x <= t /\ t < 3 * x + 3
           /\ linesOf(span(k, items, 3 * q, t)) = span(k, items, 3 * q, 3 * x)
           /\ restOf(span(k, items, 3 * q, t)) = span(k, items, 3 * x, t)
<1> DEFINE body == bodyOf(k, items)
           all == SubSeq(body, 3 * q + 1, t)
           x == t \div 3
<1>0. k \in StreamKinds /\ \A j \in 0..Len(items) : upTo(k, items, j) = 3 * j
  BY DEF upTo
<1>1. Len(items) \in Nat /\ DOMAIN items = 1..Len(items)
      /\ bodySize(k, items) \in Nat /\ bodySize(k, items) <= 3 * Len(items)
  BY <1>0, Ups
<1>a. Len(items) # 0 => bodySize(k, items) = 3 * Len(items) - 1
  <2>1. Len(items) # 0 => items # <<>>
    BY <1>0, ItemsOfKind
  <2>2. Len(items) \in 0..Len(items)
    BY <1>1
  <2> QED
    BY <1>0, <2>1, <2>2 DEF bodySize, endsAt
<1>2. x \in Nat /\ 3 * x <= t /\ t < 3 * x + 3
  OBVIOUS
<1> HIDE DEF x
<1>3. q <= x /\ x <= Len(items)
  BY <1>1, <1>2
<1>4. ASSUME NEW j \in 1..Len(items), NEW i \in 1..3, 3 * (j - 1) + i <= bodySize(k, items)
      PROVE  body[3 * (j - 1) + i] = IF i = 3 THEN NL ELSE cell(j, i)
  <2>1. j \in DOMAIN items /\ cellsOf(k, items[j]) = 3 /\ j - 1 \in 0..Len(items)
    BY <1>1 DEF cellsOf
  <2>2. upTo(k, items, j - 1) = 3 * (j - 1)
    BY <1>0, <2>1
  <2>3. i \in 1..cellsOf(k, items[j]) /\ upTo(k, items, j - 1) + i <= bodySize(k, items)
    BY <1>4, <2>1, <2>2
  <2>4. bodyOf(k, items)[upTo(k, items, j - 1) + i] = IF k # "web" /\ i = 3 THEN NL ELSE cell(j, i)
    BY <1>0, <2>1, <2>3, BodyCell
  <2> QED
    BY <2>2, <2>4
<1> HIDE DEF body
<1>5. /\ DOMAIN all = 1..(t - 3 * q) /\ Len(all) = t - 3 * q
      /\ \A i \in 1..(t - 3 * q) : all[i] = body[3 * q + i]
  <2>1. t - (3 * q + 1) + 1 = t - 3 * q
    OBVIOUS
  <2>2. Len(all) = t - 3 * q /\ DOMAIN all = 1..(t - 3 * q)
    BY <2>1
  <2>3. \A i \in 1..(t - 3 * q) : all[i] = body[(3 * q + 1) + i - 1]
    BY <2>1, SubSeqAt
  <2>4. \A i \in 1..(t - 3 * q) : (3 * q + 1) + i - 1 = 3 * q + i
    OBVIOUS
  <2> QED
    BY <2>2, <2>3, <2>4
<1> DEFINE N == {0} \cup newlines(all)
           z == 3 * (x - q)
<1>6. z \in N
  <2>1. CASE x = q
    BY <2>1
  <2>2. CASE x # q
    <3>1. x \in 1..Len(items) /\ 3 * (x - 1) + 3 = 3 * x /\ 3 * x <= bodySize(k, items)
      BY <1>1, <1>2, <1>3, <2>2
    <3>2. body[3 * (x - 1) + 3] = NL
      BY <1>4, <3>1
    <3>3. z \in 1..(t - 3 * q) /\ 3 * q + z = 3 * x
      BY <1>2, <1>3, <2>2
    <3> HIDE DEF all, z
    <3>4. all[z] = NL
      BY <1>5, <3>1, <3>2, <3>3
    <3> QED
      BY <1>5, <3>3, <3>4 DEF newlines
  <2> QED
    BY <2>1, <2>2
<1>7. ASSUME NEW i \in N, i > z
      PROVE  FALSE
  <2> HIDE DEF all
  <2>0. z \in Nat
    BY <1>2, <1>3
  <2>1. i \in 1..(t - 3 * q) /\ all[i] = NL
    BY <1>5, <1>7, <2>0 DEF newlines
  <2> DEFINE r == i - z
  <2>2. r \in {1, 2} /\ 3 * q + i = 3 * x + r
    BY <1>2, <1>3, <1>7, <2>0, <2>1
  <2>3. x + 1 \in 1..Len(items) /\ (x + 1) - 1 = x
    BY <1>1, <1>a, <1>2, <1>3, <1>7, <2>0, <2>1
  <2> HIDE DEF r
  <2>4. 3 * x + r <= bodySize(k, items) /\ r \in 1..3 /\ r # 3
    BY <1>1, <1>2, <2>1, <2>2
  <2>5. body[3 * x + r] = cell(x + 1, r)
    BY <1>4, <2>3, <2>4
  <2>6. all[i] = cell(x + 1, r)
    BY <1>5, <2>1, <2>2, <2>5
  <2> QED
    BY <1>2, <2>1, <2>6 DEF cell, NL
<1>8. Max(N) = z
  <2>1. \A i \in N : i \in Int
    BY <1>5 DEF newlines
  <2>2. z \in Int
    BY <1>2, <1>3
  <2> HIDE DEF N, z
  <2>3. \A i \in N : z >= i
    BY <1>7, <2>1, <2>2
  <2>4. \A y \in N : (\A i \in N : y >= i) => y = z
    BY <1>6, <2>1, <2>2, <2>3
  <2> QED
    BY <1>6, <2>3, <2>4 DEF Max
<1>9. z \in Nat /\ z <= t - 3 * q /\ 3 * q + z = 3 * x
  BY <1>2, <1>3
<1>10. linesOf(all) = SubSeq(body, 3 * q + 1, 3 * x)
  <2>1. linesOf(all) = SubSeq(all, 1, z)
    BY <1>8 DEF linesOf
  <2>2. (3 * q + 1) + 1 - 1 = 3 * q + 1 /\ (3 * q + 1) + z - 1 = 3 * x /\ z <= t - (3 * q + 1) + 1
    BY <1>9
  <2>3. z \in Int /\ 3 * q + 1 \in Int /\ t \in Int
    BY <1>9
  <2> HIDE DEF z
  <2>4. SubSeq(SubSeq(body, 3 * q + 1, t), 1, z) = SubSeq(body, (3 * q + 1) + 1 - 1, (3 * q + 1) + z - 1)
    BY <2>2, <2>3, SubSeqOfSub
  <2> QED
    BY <2>1, <2>2, <2>4
<1>11. restOf(all) = SubSeq(body, 3 * x + 1, t)
  <2>1. restOf(all) = SubSeq(all, z + 1, t - 3 * q)
    BY <1>5, <1>8 DEF restOf
  <2>2. (3 * q + 1) + (z + 1) - 1 = 3 * x + 1 /\ (3 * q + 1) + (t - 3 * q) - 1 = t
        /\ t - 3 * q <= t - (3 * q + 1) + 1
    BY <1>9
  <2>3. z + 1 \in Nat \ {0} /\ 3 * q + 1 \in Int /\ t \in Int /\ t - 3 * q \in Int
    BY <1>9
  <2> DEFINE i == z + 1
             j == t - 3 * q
             y == 3 * q + 1
  <2>4. i \in Nat \ {0} /\ y \in Int /\ t \in Int /\ j \in Int /\ j <= t - y + 1
    BY <2>2, <2>3
  <2> HIDE DEF z, i, j, y
  <2>5. SubSeq(SubSeq(body, y, t), i, j) = SubSeq(body, y + i - 1, y + j - 1)
    BY <2>4, SubSeqOfSub
  <2> QED
    BY <2>1, <2>2, <2>5 DEF i, j, y
<1>12. x \in 0..Len(items)
  BY <1>1, <1>2, <1>3
<1> QED
  BY <1>2, <1>3, <1>10, <1>11, <1>12 DEF body, span

(* A chunk of lines, of which the last waits for its end.                  *)
LEMMA ChunkOfLines ==
  ASSUME NEW k \in StreamKinds \ {"web"}, NEW items \in Items[k], NEW size, NEW t, NEW l, NEW b, NEW o, NEW s,
         Streaming(k, items, size, t, l, b, o, s), NEW e \in t..size
  PROVE  l = <<>> => Streaming(k, items, size, e, linesOf(b \o span(k, items, t, e)), restOf(b \o span(k, items, t, e)), o, s)
<1>0. k \in StreamKinds /\ k # "web" /\ \A j \in 0..Len(items) : upTo(k, items, j) = 3 * j
  BY DEF upTo
<1>1. PICK m \in 0..Len(items), q \in 0..Len(items) :
        /\ Rest(k, items, t, l, b, m, q)
        /\ Passed(k, items, m, o)
        /\ \A j \in 1..m : items[j] # "done"
        /\ s # 0 <=> \E j \in 1..m : items[j] = "trailer failed"
  BY DEF Streaming
<1>2. /\ t \in Nat /\ size \in 0..bodySize(k, items) /\ bodySize(k, items) \in Nat
      /\ Len(items) \in Nat /\ m \in 0..q
  BY <1>0, <1>1, Ups DEF Rest, Streaming
<1>3. 3 * q <= t /\ b = span(k, items, 3 * q, t)
  BY <1>0, <1>1 DEF Rest
<1>4. l = <<>> => m = q
  <2>0. Rest(k, items, t, l, b, m, q) /\ k \in StreamKinds
    BY <1>0, <1>1
  <2>1. Len(l) = upTo(k, items, q) - upTo(k, items, m)
    BY <2>0, RestCells
  <2>2. upTo(k, items, q) = 3 * q /\ upTo(k, items, m) = 3 * m
    BY <1>0
  <2>3. l = <<>> => Len(l) = 0
    OBVIOUS
  <2> QED
    BY <1>2, <2>1, <2>2, <2>3
<1>5. e \in Nat /\ t <= e /\ e <= bodySize(k, items) /\ e <= size
  BY <1>2
<1>6. b \o span(k, items, t, e) = span(k, items, 3 * q, e)
  <2>1. 3 * q \in Nat
    BY <1>2
  <2> QED
    BY <1>0, <1>2, <1>3, <1>5, <2>1, SpansJoin, ZenonT(30)
<1>7. 3 * q <= e
  BY <1>2, <1>3, <1>5
<1>8. PICK x \in 0..Len(items) :
        /\ q <= x /\ 3 * x <= e /\ e < 3 * x + 3
        /\ linesOf(span(k, items, 3 * q, e)) = span(k, items, 3 * q, 3 * x)
        /\ restOf(span(k, items, 3 * q, e)) = span(k, items, 3 * x, e)
  BY <1>5, <1>7, LinesOfChunk
<1>9. ASSUME l = <<>>
      PROVE  Rest(k, items, e, linesOf(b \o span(k, items, t, e)), restOf(b \o span(k, items, t, e)), m, x)
  <2>1. m \in 0..x
    BY <1>2, <1>4, <1>8, <1>9
  <2>2. upTo(k, items, x) = 3 * x /\ upTo(k, items, m) = 3 * q
    BY <1>0, <1>4, <1>9
  <2> QED
    BY <1>0, <1>5, <1>6, <1>8, <2>1, <2>2 DEF Rest
<1> QED
  BY <1>1, <1>2, <1>5, <1>9 DEF Streaming

(* The first of the lines that wait.                                       *)
LEMMA NextLine ==
  ASSUME NEW k \in StreamKinds \ {"web"}, NEW items \in Items[k], NEW t, NEW l, NEW b, NEW m, NEW q,
         Rest(k, items, t, l, b, m, q), l # <<>>
  PROVE  /\ m + 1 \in 1..q /\ m + 1 <= Len(items)
         /\ firstLine(l) = wholeItem(k, items, m + 1)
         /\ Rest(k, items, t, afterLine(l), b, m + 1, q)
<1>0. k \in StreamKinds /\ k # "web" /\ \A j \in 0..Len(items) : upTo(k, items, j) = 3 * j
  BY DEF upTo
<1>1. Len(items) \in Nat /\ m \in 0..q /\ q \in 0..Len(items) /\ m \in 0..Len(items)
  BY <1>0, Ups DEF Rest
<1>2. l = span(k, items, 3 * m, 3 * q)
  BY <1>0, <1>1 DEF Rest
<1>3. m # q
  <2> SUFFICES ASSUME m = q PROVE FALSE
    OBVIOUS
  <2>1. SubSeq(bodyOf(k, items), 3 * m + 1, 3 * m) = <<>>
    BY <1>1, SubSeqEmpty
  <2> QED
    BY <1>2, <2>1 DEF span
<1>4. m + 1 \in 1..q /\ m + 1 \in (m + 1)..q /\ m + 1 <= Len(items) /\ m + 1 \in 0..Len(items) /\ (m + 1) - 1 = m
  BY <1>1, <1>3
<1>5. Len(l) = 3 * q - 3 * m
  BY <1>0, <1>1, RestCells
<1>6. \A i \in 1..3 : l[i] = IF i = 3 THEN NL ELSE cell(m + 1, i)
  <2>1. cellsOf(k, items[m + 1]) = 3
    BY <1>0 DEF cellsOf
  <2>a. \A j \in (m + 1)..q : \A i \in 1..cellsOf(k, items[j]) :
          l[upTo(k, items, j - 1) - upTo(k, items, m) + i] = IF k # "web" /\ i = 3 THEN NL ELSE cell(j, i)
    BY <1>0, RestCells
  <2>2. \A i \in 1..3 : l[upTo(k, items, (m + 1) - 1) - upTo(k, items, m) + i] = IF k # "web" /\ i = 3 THEN NL ELSE cell(m + 1, i)
    BY <1>4, <2>1, <2>a
  <2>3. \A i \in 1..3 : upTo(k, items, (m + 1) - 1) - upTo(k, items, m) + i = i
    BY <1>0, <1>1, <1>4
  <2> QED
    BY <1>0, <2>2, <2>3
<1>7. Min(newlines(l)) = 3
  <2>1. DOMAIN l = 1..(3 * q - 3 * m)
    BY <1>1, <1>2 DEF span
  <2>2. 3 \in newlines(l)
    BY <1>1, <1>4, <1>6, <2>1 DEF newlines
  <2>3. ASSUME NEW y \in newlines(l) PROVE y \in Int /\ 3 <= y
    <3>1. y \in Nat /\ 1 <= y /\ l[y] = NL
      BY <2>1 DEF newlines
    <3>2. y \in {1, 2} => l[y] = cell(m + 1, y)
      BY <1>6
    <3>3. y \notin {1, 2}
      BY <1>1, <3>1, <3>2 DEF cell, NL
    <3> QED
      BY <3>1, <3>3
  <2>4. \A y \in newlines(l) : (\A i \in newlines(l) : y =< i) => y = 3
    BY <2>2, <2>3
  <2> QED
    BY <2>2, <2>3, <2>4 DEF Min
<1>8. firstLine(l) = wholeItem(k, items, m + 1)
  <2>1. firstLine(l) = SubSeq(l, 1, 2)
    BY <1>7 DEF firstLine
  <2>2. SubSeq(l, 1, 2) = [i \in 1..2 |-> l[i]]
    OBVIOUS
  <2>3. \A i \in 1..2 : l[i] = cell(m + 1, i)
    BY <1>6
  <2> QED
    BY <1>0, <2>1, <2>2, <2>3 DEF wholeItem
<1>9. afterLine(l) = span(k, items, 3 * (m + 1), 3 * q)
  <2> DEFINE x == 3 * m + 1
             y == 3 * q
             j == 3 * q - 3 * m
  <2>1. afterLine(l) = SubSeq(l, 4, j)
    BY <1>5, <1>7 DEF afterLine
  <2>2. l = SubSeq(bodyOf(k, items), x, y)
    BY <1>2 DEF span
  <2>3. x \in Int /\ y \in Int /\ j \in Int /\ j <= y - x + 1 /\ x + 4 - 1 = 3 * (m + 1) + 1 /\ x + j - 1 = 3 * q
    BY <1>1
  <2> HIDE DEF x, y, j
  <2>4. SubSeq(SubSeq(bodyOf(k, items), x, y), 4, j) = SubSeq(bodyOf(k, items), x + 4 - 1, x + j - 1)
    BY <2>3, SubSeqOfSub
  <2> QED
    BY <2>1, <2>2, <2>3, <2>4 DEF span
<1>10. Rest(k, items, t, afterLine(l), b, m + 1, q)
  <2>1. upTo(k, items, m + 1) = 3 * (m + 1) /\ upTo(k, items, q) = 3 * q
    BY <1>0, <1>1, <1>4
  <2>2. m + 1 \in 0..q
    BY <1>4
  <2> QED
    BY <1>0, <1>9, <2>1, <2>2 DEF Rest
<1> QED
  BY <1>4, <1>8, <1>10

(* One line is taken: an item comes out, or is passed over, or ends the    *)
(* stream.                                                                 *)
LEMMA LineTaken ==
  ASSUME NEW k \in StreamKinds \ {"web"}, NEW items \in Items[k], NEW size, NEW t, NEW l, NEW b, NEW o, NEW s,
         NEW early, Streaming(k, items, size, t, l, b, o, s), l # <<>>
  PROVE  LET line == firstLine(l) IN
         /\ isDone(k, items, line) => Wholeness(k, items, size, early, b, o, "done")
         /\ ~isDone(k, items, line) /\ isData(k, items, line) =>
              Streaming(k, items, size, t, afterLine(l), b, Append(o, line), s)
         /\ ~isDone(k, items, line) /\ ~isData(k, items, line) =>
              Streaming(k, items, size, t, afterLine(l), b, o, s)
<1> DEFINE line == firstLine(l)
<1>0. k \in StreamKinds /\ k # "web"
  OBVIOUS
<1>1. PICK m \in 0..Len(items), q \in 0..Len(items) :
        /\ Rest(k, items, t, l, b, m, q)
        /\ Passed(k, items, m, o)
        /\ \A j \in 1..m : items[j] # "done"
        /\ s # 0 <=> \E j \in 1..m : items[j] = "trailer failed"
  BY DEF Streaming
<1>2. /\ m + 1 \in 1..q /\ m + 1 <= Len(items)
      /\ line = wholeItem(k, items, m + 1)
      /\ Rest(k, items, t, afterLine(l), b, m + 1, q)
  BY <1>1, NextLine
<1>3. /\ Len(items) \in Nat /\ DOMAIN items = 1..Len(items) /\ m + 1 \in DOMAIN items /\ m + 1 \in 0..Len(items)
      /\ k = "lines" => items[m + 1] = "data"
      /\ k = "events" => items[m + 1] \in {"data", "note", "done"}
      /\ k \in {"lines", "events"}
  <2>1. Len(items) \in Nat /\ DOMAIN items = 1..Len(items)
    BY <1>0, ItemsOfKind
  <2>a. m + 1 \in 1..Len(items)
    BY <1>2, <2>1
  <2>2. m + 1 \in DOMAIN items /\ m + 1 \in 0..Len(items)
    BY <2>1, <2>a
  <2> QED
    BY <1>0, <2>1, <2>2, ItemsOfKind DEF StreamKinds
<1>4. line # <<>> /\ Len(line) = 2 /\ whatIs(items, line) = items[m + 1]
  <2>1. line = [i \in 1..2 |-> cell(m + 1, i)]
    BY <1>0, <1>2 DEF wholeItem
  <2> HIDE DEF line
  <2>2. Len(line) = 2 /\ line # <<>> /\ Head(line) = cell(m + 1, 1)
    BY <2>1
  <2> QED
    BY <2>2 DEF whatIs, cell
<1> HIDE DEF line
<1>5. isDone(k, items, line) <=> items[m + 1] = "done"
  BY <1>3, <1>4 DEF isDone
<1>6. ~isDone(k, items, line) => (isData(k, items, line) <=> items[m + 1] = "data")
  BY <1>3, <1>4, <1>5 DEF isData
<1>7. ASSUME isDone(k, items, line)
      PROVE  Wholeness(k, items, size, early, b, o, "done")
  <2> DEFINE M == meant(items)
             A == arrived(k, items, size)
  <2>1. size \in Nat /\ t <= size /\ t \in Nat
    <3>1. bodySize(k, items) \in Nat
      BY <1>0, Ups
    <3>2. size \in 0..bodySize(k, items) /\ t <= size
      BY DEF Streaming
    <3>3. t \in Nat
      BY <1>1 DEF Rest
    <3> QED
      BY <3>1, <3>2, <3>3
  <2>2. upTo(k, items, m) <= size
    <3>1. upTo(k, items, m) \in Nat /\ upTo(k, items, q) \in Nat /\ upTo(k, items, m) <= upTo(k, items, q)
      <4>1. m <= q
        BY <1>2, <1>3
      <4> QED
        BY <1>0, <4>1, Ups
    <3>2. upTo(k, items, q) <= t
      BY <1>1 DEF Rest
    <3> QED
      BY <2>1, <3>1, <3>2
  <2>3. /\ Len(o) <= Cardinality(A) /\ Len(o) \in Nat
        /\ \A j \in A : place(A, j) <= Len(o) => o[place(A, j)] = wholeItem(k, items, j)
    <3>1. Passed(k, items, m, o)
      BY <1>1
    <3> QED
      BY <1>0, <2>1, <2>2, <3>1, PassedArrived
  <2>4. A \in SUBSET M /\ M \in SUBSET (1..Len(items))
    BY <1>0, <2>1, Meant
  <2>5. \A j \in M : j <= m
    <3> SUFFICES ASSUME NEW j \in M, ~(j <= m) PROVE FALSE
      OBVIOUS
    <3>1. m + 1 \in 1..j
      BY <1>3, <2>4
    <3> QED
      BY <1>5, <1>7, <3>1 DEF meant
  <2>6. Len(o) = Cardinality({j \in M : j <= m})
    BY <1>1 DEF Passed, place
  <2>7. {j \in M : j <= m} = M
    BY <2>5
  <2>8. Cardinality(A) <= Len(o)
    <3>1. IsFiniteSet(M)
      BY <1>3, <2>4, Places
    <3> HIDE DEF M, A
    <3>2. Cardinality(A) <= Cardinality(M)
      BY <2>4, <3>1, FS_Subset
    <3> QED
      BY <2>6, <2>7, <3>2
  <2>9. failures(k, items, size) = {}
    BY <1>0, <1>3, ItemsOfKind DEF failures
  <2> QED
    BY <2>3, <2>8, <2>9 DEF Wholeness
<1>8. ASSUME ~isDone(k, items, line)
      PROVE  /\ isData(k, items, line)  => Streaming(k, items, size, t, afterLine(l), b, Append(o, line), s)
             /\ ~isData(k, items, line) => Streaming(k, items, size, t, afterLine(l), b, o, s)
  <2>1. \A j \in 1..(m + 1) : j \in 1..m \/ j = m + 1
    BY <1>3
  <2>2. \A j \in 1..(m + 1) : items[j] # "done"
    BY <1>1, <1>5, <1>8, <2>1
  <2>3. m + 1 \in meant(items) <=> items[m + 1] = "data"
    BY <1>3, <2>2 DEF meant, isMessage
  <2>4. s # 0 <=> \E j \in 1..(m + 1) : items[j] = "trailer failed"
    <3>1. items[m + 1] # "trailer failed"
      BY <1>3
    <3>2. \A j \in 1..m : j \in 1..(m + 1)
      BY <1>3
    <3> QED
      BY <1>1, <2>1, <3>1, <3>2
  <2>5. items[m + 1] = "data" => Passed(k, items, m + 1, Append(o, line))
    BY <1>0, <1>1, <1>2, <2>3, PassedNext
  <2>6. items[m + 1] # "data" => Passed(k, items, m + 1, o)
    BY <1>0, <1>1, <1>2, <2>3, PassedNext
  <2>7. size \in 0..bodySize(k, items) /\ t <= size
    BY DEF Streaming
  <2> QED
    BY <1>2, <1>3, <1>6, <1>8, <2>2, <2>4, <2>5, <2>6, <2>7 DEF Streaming
<1> QED
  BY <1>7, <1>8 DEF line

-----------------------------------------------------------------------------
(* What came in whole is just what is behind the reader.                   *)
LEMMA PassedExactly ==
  ASSUME NEW k \in StreamKinds, NEW items \in Items[k], NEW size \in Nat, NEW m \in 0..Len(items),
         NEW o, Passed(k, items, m, o), arrived(k, items, size) = {j \in meant(items) : j <= m}
  PROVE  /\ Len(o) = Cardinality(arrived(k, items, size)) /\ Len(o) \in Nat
         /\ \A j \in arrived(k, items, size) :
              /\ place(arrived(k, items, size), j) \in 1..Len(o)
              /\ o[place(arrived(k, items, size), j)] = wholeItem(k, items, j)
<1> DEFINE M == meant(items)
           A == arrived(k, items, size)
<1>1. Len(items) \in Nat /\ M \in SUBSET (1..Len(items)) /\ A \in SUBSET M
      /\ \A x \in A : \A j \in M : j <= x => j \in A
  BY Meant
<1>2. Len(o) = place(M, m) /\ \A j \in M : j <= m => o[place(M, j)] = wholeItem(k, items, j)
  BY DEF Passed
<1>3. A = {j \in M : j <= m}
  OBVIOUS
<1> HIDE DEF M, A
<1>4. Len(o) = Cardinality(A)
  BY <1>2, <1>3 DEF place
<1>5. place(M, m) \in Nat
  BY <1>1, Places
<1>6. ASSUME NEW j \in A
      PROVE  place(A, j) \in 1..Len(o) /\ o[place(A, j)] = wholeItem(k, items, j)
  <2>1. place(A, j) = place(M, j)
    BY <1>1, Initial
  <2>2. j \in M /\ j <= m /\ j \in 1..Len(items) /\ j - 1 \in 0..Len(items) /\ j \in 0..Len(items)
    BY <1>1, <1>3
  <2>3. place(M, j) = place(M, j - 1) + 1 /\ place(M, j - 1) \in Nat
    BY <1>1, <2>2, Places
  <2>4. place(M, j) <= place(M, m)
    BY <1>1, <2>2, Places
  <2> QED
    BY <1>2, <1>5, <2>1, <2>2, <2>3, <2>4
<1> QED
  BY <1>2, <1>4, <1>5, <1>6 DEF A

(* The body has ended, or broken off, after a newline, a part of a line    *)
(* or a whole one.                                                         *)
LEMMA LinesEnd ==
  ASSUME NEW k \in StreamKinds \ {"web"}, NEW items \in Items[k], NEW size, NEW l, NEW b, NEW o, NEW s,
         NEW early, Streaming(k, items, size, size, l, b, o, s)
  PROVE  l = <<>> =>
         /\ s = 0
         /\ isData(k, items, b)  => Wholeness(k, items, size, early, b, Append(o, b), "done")
         /\ ~isData(k, items, b) => Wholeness(k, items, size, early, b, o, "done")
<1> DEFINE M == meant(items)
           A == arrived(k, items, size)
<1>0. k \in StreamKinds /\ k # "web" /\ \A j \in 0..Len(items) : upTo(k, items, j) = 3 * j
  BY DEF upTo
<1>1. PICK m \in 0..Len(items), q \in 0..Len(items) :
        /\ Rest(k, items, size, l, b, m, q)
        /\ Passed(k, items, m, o)
        /\ \A j \in 1..m : items[j] # "done"
        /\ s # 0 <=> \E j \in 1..m : items[j] = "trailer failed"
  BY DEF Streaming
<1>2. Len(items) \in Nat /\ DOMAIN items = 1..Len(items)
  BY <1>0, ItemsOfKind
<1>3. k \in {"lines", "events"} /\ \A j \in DOMAIN items : items[j] \in {"data", "note", "done"}
  BY <1>0, ItemsOfKind DEF StreamKinds
<1>r. Rest(k, items, size, l, b, m, q)
  BY <1>1
<1>p. Passed(k, items, m, o)
  BY <1>1
<1>n. \A j \in 1..m : items[j] # "done"
  BY <1>1
<1>v. m \in Nat /\ q \in Nat /\ m <= q /\ q <= Len(items)
  BY <1>2, <1>r DEF Rest
<1>u. upTo(k, items, q) = 3 * q /\ upTo(k, items, m) = 3 * m
  BY <1>0
<1>4. size \in Nat /\ 3 * q <= size /\ size < 3 * q + 3
  BY <1>0, <1>r, <1>u DEF Rest
<1>k. k \in StreamKinds
  OBVIOUS
<1>5. Len(l) = 3 * q - 3 * m
  <2>1. Len(l) = upTo(k, items, q) - upTo(k, items, m)
    BY <1>k, <1>r, RestCells
  <2> QED
    BY <1>u, <2>1
<1>6. Len(b) = size - 3 * q
  <2>1. Len(b) = size - upTo(k, items, q)
    BY <1>k, <1>r, RestCells
  <2> QED
    BY <1>u, <2>1
<1>e. q = Len(items) => b = <<>>
  BY <1>k, <1>r, RestCells
<1>f. q < Len(items) => \A i \in 1..cellsOf(k, items[q + 1]) : i <= Len(b) =>
           b[i] = IF k # "web" /\ i = 3 THEN NL ELSE cell(q + 1, i)
  BY <1>k, <1>r, RestCells
<1>7. l = <<>> => m = q
  <2>1. l = <<>> => Len(l) = 0
    OBVIOUS
  <2> QED
    BY <1>v, <1>5, <2>1
<1>8. Len(b) \in {0, 1, 2}
  BY <1>v, <1>4, <1>6
<1>9. \A j \in DOMAIN items : endsAt(k, items, j) = 3 * j - 1
  BY <1>0, <1>2 DEF endsAt
<1>a. M \subseteq DOMAIN items /\ \A j \in M : j \in Nat
  BY <1>2 DEF meant
<1>b. s = 0
  <2>1. s # 0 => \E j \in 1..m : items[j] = "trailer failed"
    BY <1>1
  <2>2. \A j \in 1..m : j \in DOMAIN items
    BY <1>2, <1>v
  <2> QED
    BY <1>3, <2>1, <2>2
<1>c. failures(k, items, size) = {}
  BY <1>3 DEF failures
<1>10. SUFFICES ASSUME m = q
       PROVE  /\ isData(k, items, b)  => Wholeness(k, items, size, early, b, Append(o, b), "done")
              /\ ~isData(k, items, b) => Wholeness(k, items, size, early, b, o, "done")
  BY <1>7, <1>b
<1>d. o \in Seq(Seq(Nat \X Nat)) /\ Len(o) \in Nat
  BY <1>p DEF Passed
<1>g. A = {j \in M : 3 * j - 1 <= size}
  BY <1>9, <1>a DEF arrived
<1>11. Len(b) # 2 => A = {j \in M : j <= m}
  <2>1. Len(b) # 2 => \A j \in M : 3 * j - 1 <= size <=> j <= m
    BY <1>v, <1>4, <1>6, <1>8, <1>10, <1>a
  <2> QED
    BY <1>g, <2>1
<1>12. Len(b) = 2 => A = {j \in M : j <= m + 1}
  <2>1. Len(b) = 2 => size = 3 * q + 2
    <3>1. Len(b) = 2 => size - 3 * q = 2
      BY <1>6
    <3>2. q \in Nat
      BY <1>v
    <3>3. size \in Nat
      BY <1>4
    <3> QED
      BY <3>1, <3>2, <3>3
  <2>2. \A j \in M : 3 * j - 1 <= 3 * q + 2 <=> j <= q + 1
    BY <1>v, <1>a
  <2> QED
    BY <1>g, <1>10, <2>1, <2>2
<1>13. CASE Len(b) = 0
  <2>1. /\ Len(o) = Cardinality(A)
        /\ \A j \in A : place(A, j) \in 1..Len(o) /\ o[place(A, j)] = wholeItem(k, items, j)
    <3>1. A = {j \in M : j <= m}
      BY <1>11, <1>13
    <3> QED
      BY <1>0, <1>4, <1>p, <3>1, PassedExactly, ZenonT(30)
  <2>2. ~isData(k, items, b)
    <3>1. size = 3 * q /\ b = SubSeq(bodyOf(k, items), 3 * q + 1, size)
      BY <1>v, <1>4, <1>6, <1>13, <1>r, <1>u DEF Rest, span
    <3>2. b = <<>>
      BY <1>v, <3>1, SubSeqEmpty
    <3> QED
      BY <3>2 DEF isData
  <2> QED
    BY <1>c, <1>d, <2>1, <2>2 DEF Wholeness
<1>14. CASE Len(b) = 1
  <2>1. /\ Len(o) = Cardinality(A)
        /\ \A j \in A : place(A, j) \in 1..Len(o) /\ o[place(A, j)] = wholeItem(k, items, j)
    <3>1. A = {j \in M : j <= m}
      BY <1>11, <1>14
    <3> QED
      BY <1>0, <1>4, <1>p, <3>1, PassedExactly, ZenonT(30)
  <2>2. /\ Len(Append(o, b)) = Len(o) + 1 /\ Append(o, b)[Len(o) + 1] = b
        /\ \A i \in 1..Len(o) : Append(o, b)[i] = o[i]
    BY <1>d
  <2> HIDE DEF A
  <2>3. Wholeness(k, items, size, early, b, Append(o, b), "done")
    BY <1>0, <1>c, <1>d, <2>1, <2>2 DEF Wholeness, A
  <2>4. Wholeness(k, items, size, early, b, o, "done")
    BY <1>c, <1>d, <2>1 DEF Wholeness, A
  <2> QED
    BY <2>3, <2>4
<1>15. CASE Len(b) = 2
  <2>1. q < Len(items)
    <3>1. b = <<>> => Len(b) = 0
      OBVIOUS
    <3>2. q # Len(items)
      BY <1>e, <1>15, <3>1
    <3>3. q \in Nat /\ q <= Len(items) /\ Len(items) \in Nat
      BY <1>2, <1>v
    <3> QED
      BY <3>2, <3>3
  <2>2. m + 1 \in DOMAIN items /\ m + 1 \in 0..Len(items) /\ m + 1 <= Len(items)
    BY <1>2, <1>v, <1>10, <2>1
  <2>m. m \in 0..Len(items) /\ m + 1 \in Nat
    BY <1>2, <1>v
  <2>3. \A i \in 1..2 : b[i] = cell(m + 1, i)
    <3>1. cellsOf(k, items[q + 1]) = 3
      BY <1>0 DEF cellsOf
    <3>2. \A i \in 1..2 : i \in 1..3 /\ i <= Len(b) /\ i # 3
      BY <1>15
    <3> QED
      BY <1>f, <1>10, <2>1, <3>1, <3>2
  <2>4. b = wholeItem(k, items, m + 1)
    <3>1. b = [i \in 1..2 |-> b[i]]
      <4> DEFINE x == 3 * q + 1
      <4>1. b = SubSeq(bodyOf(k, items), x, size) /\ size - x + 1 = 2 /\ x \in Int /\ size \in Int
        BY <1>v, <1>4, <1>6, <1>15, <1>r, <1>u DEF Rest, span
      <4> HIDE DEF x
      <4>2. b = [i \in 1..(size - x + 1) |-> bodyOf(k, items)[x + i - 1]]
        BY <4>1
      <4> QED
        BY <4>1, <4>2
    <3>2. wholeItem(k, items, m + 1) = [i \in 1..2 |-> cell(m + 1, i)]
      BY <1>0 DEF wholeItem
    <3> QED
      BY <2>3, <3>1, <3>2
  <2>w. b # <<>> /\ whatIs(items, b) = items[m + 1]
    <3>1. b # <<>>
      <4>1. Len(<<>>) = 0
        OBVIOUS
      <4> QED
        BY <1>15, <4>1, SMTT(20)
    <3>2. Head(b) = cell(m + 1, 1)
      BY <2>3
    <3> QED
      BY <3>1, <3>2 DEF whatIs, cell
  <2>6. k = "lines" => items[m + 1] = "data"
    BY <1>0, <2>2, ItemsOfKind
  <2>5. isData(k, items, b) <=> items[m + 1] = "data"
    BY <1>3, <1>15, <2>w, <2>6 DEF isData
  <2>7. m + 1 \in M <=> items[m + 1] = "data"
    <3>1. \A j \in 1..(m + 1) : j \in 1..m \/ j = m + 1
      BY <1>v
    <3>2. items[m + 1] = "data" => \A j \in 1..(m + 1) : items[j] # "done"
      BY <1>n, <3>1
    <3> QED
      BY <1>3, <2>2, <3>2 DEF meant, isMessage
  <2>8. A = {j \in M : j <= m + 1}
    BY <1>12, <1>15
  <2>9. ASSUME isData(k, items, b)
        PROVE  Wholeness(k, items, size, early, b, Append(o, b), "done")
    <3>0. m + 1 \in M
      BY <2>5, <2>7, <2>9
    <3>1. Passed(k, items, m + 1, Append(o, b))
      BY <1>0, <1>p, <2>2, <2>m, <2>4, <3>0, PassedNext
    <3> DEFINE r == Append(o, b)
    <3>2. \A j \in A : r[place(A, j)] = wholeItem(k, items, j)
      BY <1>0, <1>4, <2>2, <2>8, <3>1, PassedExactly, ZenonT(30)
    <3>3. Len(r) = Cardinality(A) /\ Len(r) \in Nat
      BY <1>0, <1>4, <2>2, <2>8, <3>1, PassedExactly
    <3> HIDE DEF A, r
    <3>4. Wholeness(k, items, size, early, b, r, "done")
      BY <1>c, <3>2, <3>3 DEF Wholeness, A
    <3> QED
      BY <3>4 DEF r
  <2>10. ASSUME ~isData(k, items, b)
         PROVE  Wholeness(k, items, size, early, b, o, "done")
    <3>0. m + 1 \notin M
      BY <2>5, <2>7, <2>10
    <3>1. Passed(k, items, m + 1, o)
      BY <1>0, <1>p, <2>2, <2>m, <3>0, PassedNext
    <3>2. \A j \in A : o[place(A, j)] = wholeItem(k, items, j)
      BY <1>0, <1>4, <2>2, <2>8, <3>1, PassedExactly, ZenonT(30)
    <3>3. Len(o) = Cardinality(A)
      BY <1>0, <1>4, <2>2, <2>8, <3>1, PassedExactly
    <3> HIDE DEF A
    <3> QED
      BY <1>c, <1>d, <3>2, <3>3 DEF Wholeness, A
  <2> QED
    BY <2>9, <2>10
<1> QED
  BY <1>8, <1>13, <1>14, <1>15

-----------------------------------------------------------------------------
(* One frame is taken: the next item comes out, or it is the trailer.      *)
LEMMA FrameTaken ==
  ASSUME NEW k \in StreamKinds, NEW items \in Items[k], NEW size, NEW t, NEW l, NEW b, NEW o, NEW s,
         Streaming(k, items, size, t, l, b, o, s), hasFrame(items, b)
  PROVE  k = "web" =>
         LET frame == frameOf(items, b)
             rest  == afterFrame(items, b)
         IN
         /\ frame.trailer  => Streaming(k, items, size, t, l, rest, o, parseGrpcStatus(items, frame.payload))
         /\ ~frame.trailer => Streaming(k, items, size, t, l, rest, Append(o, frame.payload), s)
<1> SUFFICES ASSUME k = "web"
             PROVE  LET frame == frameOf(items, b)
                        rest  == afterFrame(items, b)
                    IN
                    /\ frame.trailer  => Streaming(k, items, size, t, l, rest, o, parseGrpcStatus(items, frame.payload))
                    /\ ~frame.trailer => Streaming(k, items, size, t, l, rest, Append(o, frame.payload), s)
  OBVIOUS
<1>1. PICK m \in 0..Len(items), q \in 0..Len(items) :
        /\ Rest(k, items, t, l, b, m, q)
        /\ Passed(k, items, m, o)
        /\ \A j \in 1..m : items[j] # "done"
        /\ s # 0 <=> \E j \in 1..m : items[j] = "trailer failed"
  BY DEF Streaming
<1> DEFINE frame == frameOf(items, b)
           rest  == afterFrame(items, b)
           up(x) == upTo(k, items, x)
           next  == q + 1
           n     == lengthOf(items[next])
<1>2. Len(items) \in Nat /\ DOMAIN items = 1..Len(items)
  BY ItemsOfKind
<1>r. Rest(k, items, t, l, b, m, q)
  BY <1>1
<1>m. m = q
  BY <1>r DEF Rest
<1>v. q \in Nat /\ q <= Len(items) /\ t \in Nat /\ t <= bodySize(k, items)
  BY <1>2, <1>r DEF Rest
<1>p. Passed(k, items, q, o)
  BY <1>1, <1>m
<1>d. \A j \in 1..q : items[j] # "done"
  BY <1>1, <1>m
<1>s. s # 0 <=> \E j \in 1..q : items[j] = "trailer failed"
  BY <1>1, <1>m
<1>b. b = SubSeq(bodyOf(k, items), up(q) + 1, t)
  BY <1>r DEF Rest, span
<1>l. Len(b) = t - up(q)
  BY <1>r, RestCells
<1>u. up(q) \in Nat
  BY Ups
<1>h. Len(b) >= 2
  BY DEF hasFrame
<1>3. q < Len(items)
  <2>1. q = Len(items) => b = <<>>
    BY <1>r, RestCells
  <2>2. b = <<>> => Len(b) = 0
    OBVIOUS
  <2>3. q # Len(items)
    BY <1>h, <2>1, <2>2
  <2>4. q \in Nat /\ q <= Len(items)
    BY <1>v
  <2> DEFINE x == Len(items)
  <2>5. x \in Nat
    BY <1>2
  <2> HIDE DEF x
  <2> QED
    BY <2>3, <2>4, <2>5 DEF x
<1>4. next \in DOMAIN items /\ next \in 1..Len(items) /\ next \in 0..Len(items) /\ next <= Len(items) /\ next - 1 = q
  BY <1>2, <1>v, <1>3
<1>n. n \in {0, 2} /\ cellsOf(k, items[next]) = 2 + n
  BY DEF lengthOf, cellsOf
<1>5. \A i \in 1..(2 + n) : i <= Len(b) => b[i] = cell(next, i)
  <2>1. q < Len(items) => \A i \in 1..cellsOf(k, items[q + 1]) : i <= Len(b) =>
           b[i] = IF k # "web" /\ i = 3 THEN NL ELSE cell(q + 1, i)
    BY <1>r, RestCells
  <2> HIDE DEF n
  <2> QED
    BY <1>3, <1>n, <2>1
<1>6. b[1] = cell(next, 1) /\ b[2] = cell(next, 2)
  <2>1. 1 \in 1..(2 + n) /\ 2 \in 1..(2 + n) /\ 1 <= Len(b) /\ 2 <= Len(b)
    BY <1>h, <1>n, <1>l, <1>u, <1>v
  <2> QED
    BY <1>5, <2>1
<1>7. b[1][1] = next /\ b[2][1] = next
  BY <1>6 DEF cell
<1>8. Len(b) >= 2 + n
  BY <1>7 DEF hasFrame
<1>t. frame.trailer <=> items[next] \in trailerItems
  <2> HIDE DEF next
  <2> QED
    BY <1>7 DEF frameOf
<1>y. frame.payload = SubSeq(b, 3, 2 + n)
  BY <1>7 DEF frameOf
<1>a. rest = SubSeq(b, 3 + n, Len(b))
  BY <1>7 DEF afterFrame
<1> HIDE DEF frame, rest
<1>9. up(next) = up(q) + 2 + n /\ up(next) \in Nat
  <2>1. up(next) = up(next - 1) + cellsOf(k, items[next])
    BY <1>4, Ups
  <2>2. up(next) \in Nat
    BY <1>4, Ups
  <2> HIDE DEF next, n, up
  <2> QED
    BY <1>4, <1>n, <1>u, <2>1, <2>2
<1>10. up(next) <= t
  BY <1>8, <1>9, <1>l, <1>n, <1>u, <1>v
<1>11. frame.payload = wholeItem(k, items, next)
  <2>1. SubSeq(b, 3, 2 + n) = [i \in 1..n |-> b[i + 2]]
    <3> HIDE DEF n
    <3>1. SubSeq(b, 3, 2 + n) = [i \in 1..(2 + n - 3 + 1) |-> b[3 + i - 1]]
      BY <1>n
    <3>2. 2 + n - 3 + 1 = n /\ \A i \in 1..n : 3 + i - 1 = i + 2
      BY <1>n
    <3> QED
      BY <3>1, <3>2
  <2>2. \A i \in 1..n : b[i + 2] = cell(next, i + 2)
    <3>1. \A i \in 1..n : i + 2 \in 1..(2 + n) /\ i + 2 <= Len(b)
      BY <1>8, <1>n, <1>l, <1>u, <1>v
    <3> QED
      BY <1>5, <3>1
  <2>3. wholeItem(k, items, next) = [i \in 1..n |-> cell(next, i + 2)]
    BY DEF wholeItem
  <2>4. frame.payload = SubSeq(b, 3, 2 + n)
    BY <1>y
  <2> HIDE DEF n, next
  <2> QED
    BY <2>1, <2>2, <2>3, <2>4
<1>12. rest = span(k, items, up(next), t)
  <2> DEFINE x == up(q) + 1
             i == 3 + n
             j == Len(b)
  <2> HIDE DEF n, up, next
  <2>f. n \in Int /\ up(q) \in Int /\ up(next) \in Int
    BY <1>9, <1>n, <1>u
  <2>g. t \in Int
    BY <1>v
  <2>a. x \in Int /\ t \in Int /\ i \in Nat \ {0} /\ i = 3 + n /\ x = up(q) + 1 /\ n \in Int /\ up(q) \in Int /\ up(next) \in Int
    BY <2>f, <2>g, <1>n
  <2>b. j \in Int /\ j = t - up(q)
    BY <1>l, <1>u, <1>v
  <2>c. up(next) = up(q) + 2 + n
    BY <1>9
  <2> HIDE DEF x, i, j
  <2>1. x \in Int /\ t \in Int /\ i \in Nat \ {0} /\ j \in Int /\ j <= t - x + 1
        /\ x + i - 1 = up(next) + 1 /\ x + j - 1 = t
    <3>1. i \in Nat \ {0}
      BY <2>a
    <3>2. j <= t - x + 1
      BY <2>a, <2>b
    <3>3. x + i - 1 = up(next) + 1
      BY <2>a, <2>c
    <3>4. x + j - 1 = t
      BY <2>a, <2>b
    <3> QED
      BY <2>a, <2>b, <3>1, <3>2, <3>3, <3>4
  <2>2. rest = SubSeq(b, i, j) /\ b = SubSeq(bodyOf(k, items), x, t)
    BY <1>a, <1>b DEF x, i, j, n, up, next
  <2>3. SubSeq(SubSeq(bodyOf(k, items), x, t), i, j) = SubSeq(bodyOf(k, items), x + i - 1, x + j - 1)
    <3> DEFINE body == bodyOf(k, items)
    <3>1. x \in Int /\ t \in Int /\ i \in Nat \ {0} /\ j \in Int /\ j <= t - x + 1
      BY <2>1
    <3> HIDE DEF body
    <3>2. SubSeq(SubSeq(body, x, t), i, j) = SubSeq(body, x + i - 1, x + j - 1)
      BY <3>1, SubSeqOfSub
    <3> QED
      BY <3>2 DEF body
  <2> QED
    BY <2>1, <2>2, <2>3 DEF span, up
<1>13. l = span(k, items, up(next), up(next))
  <2>1. \A x \in Nat : span(k, items, x, x) = <<>>
    BY SubSeqEmpty DEF span
  <2>2. l = span(k, items, up(q), up(q))
    BY <1>r, <1>m DEF Rest
  <2> QED
    BY <1>9, <1>u, <2>1, <2>2
<1>14. Rest(k, items, t, l, rest, next, next)
  <2>1. next \in 0..next
    BY <1>v
  <2> HIDE DEF next, rest
  <2> QED
    BY <1>4, <1>10, <1>12, <1>13, <1>v, <2>1 DEF Rest
<1>15. size \in 0..bodySize(k, items) /\ t <= size
  BY DEF Streaming
<1>16. \A j \in 1..next : j \in 1..q \/ j = next
  BY <1>v
<1>17. items[next] \in {"data", "empty"} \cup trailerItems
  BY <1>4, ItemsOfKind
<1>18. \A j \in 1..next : items[j] # "done"
  <2>1. items[next] # "done"
    BY <1>17 DEF trailerItems
  <2> HIDE DEF next
  <2> QED
    BY <1>16, <1>d, <2>1
<1>19. \A j \in 1..q : items[j] \notin trailerItems
  <2>1. \A j \in DOMAIN items : items[j] \in trailerItems => j = Len(items)
    BY ItemsOfKind
  <2>2. \A j \in 1..q : j \in DOMAIN items /\ j # Len(items)
    BY <1>2, <1>v, <1>3
  <2> QED
    BY <2>1, <2>2
<1>20. CASE items[next] \in trailerItems
  <2>1. next \notin meant(items)
    BY <1>20 DEF meant, isMessage, trailerItems
  <2>2. Passed(k, items, next, o)
    BY <1>4, <1>p, <2>1, PassedNext
  <2> DEFINE t2 == parseGrpcStatus(items, frame.payload)
  <2>3. t2 = IF items[next] = "trailer ok" THEN 0 ELSE 5
    <3>1. n = 2
      BY <1>20 DEF lengthOf, trailerItems
    <3>2. wholeItem(k, items, next) = [i \in 1..2 |-> cell(next, i + 2)]
      BY <3>1 DEF wholeItem
    <3> DEFINE w == wholeItem(k, items, next)
    <3>3. Head(w) = cell(next, 3)
      BY <3>2
    <3> HIDE DEF w
    <3>4. frame.payload = w
      BY <1>11 DEF w
    <3>5. Head(frame.payload)[1] = next
      BY <3>3, <3>4 DEF cell
    <3> HIDE DEF next
    <3> QED
      BY <3>5 DEF parseGrpcStatus
  <2> HIDE DEF t2
  <2>4. t2 # 0 <=> items[next] = "trailer failed"
    <3> HIDE DEF next
    <3>1. items[next] = "trailer ok" \/ items[next] = "trailer failed"
      BY <1>20 DEF trailerItems
    <3>2. items[next] = "trailer ok" => t2 = 0
      BY <2>3
    <3>3. items[next] = "trailer failed" => t2 = 5
      BY <2>3
    <3>4. items[next] # "trailer failed" => t2 = 0
      BY <3>1, <3>2
    <3>5. 5 # 0
      OBVIOUS
    <3> QED
      BY <3>3, <3>4, <3>5
  <2>5. t2 # 0 <=> \E j \in 1..next : items[j] = "trailer failed"
    <3>1. next \in 1..next
      BY <1>v
    <3>2. \A j \in 1..q : items[j] # "trailer failed"
      BY <1>19 DEF trailerItems
    <3> HIDE DEF next
    <3>3. t2 # 0 => \E j \in 1..next : items[j] = "trailer failed"
      BY <2>4, <3>1
    <3>4. (\E j \in 1..next : items[j] = "trailer failed") => items[next] = "trailer failed"
      BY <1>16, <3>2
    <3> QED
      BY <2>4, <3>3, <3>4
  <2>6. frame.trailer
    BY <1>t, <1>20
  <2> HIDE DEF next
  <2>7. Streaming(k, items, size, t, l, rest, o, t2)
    BY <1>4, <1>14, <1>15, <1>18, <2>2, <2>5 DEF Streaming
  <2> QED
    BY <2>6, <2>7 DEF t2, rest, frame
<1>21. CASE items[next] \notin trailerItems
  <2>1. next \in meant(items)
    BY <1>4, <1>17, <1>18, <1>21 DEF meant, isMessage
  <2>2. Passed(k, items, next, Append(o, frame.payload))
    BY <1>4, <1>p, <1>11, <2>1, PassedNext
  <2>3. s # 0 <=> \E j \in 1..next : items[j] = "trailer failed"
    <3>1. items[next] # "trailer failed"
      BY <1>21 DEF trailerItems
    <3>2. \A j \in 1..q : j \in 1..next
      BY <1>v
    <3> HIDE DEF next
    <3>3. (\E j \in 1..q : items[j] = "trailer failed") => \E j \in 1..next : items[j] = "trailer failed"
      BY <3>2
    <3>4. (\E j \in 1..next : items[j] = "trailer failed") => \E j \in 1..q : items[j] = "trailer failed"
      BY <1>16, <3>1
    <3> QED
      BY <1>s, <3>3, <3>4
  <2>4. ~frame.trailer
    BY <1>t, <1>21
  <2> HIDE DEF next
  <2>5. Streaming(k, items, size, t, l, rest, Append(o, frame.payload), s)
    BY <1>4, <1>14, <1>15, <1>18, <2>2, <2>3 DEF Streaming
  <2> QED
    BY <2>4, <2>5 DEF frame, rest
<1> QED
  BY <1>20, <1>21

(* The body has ended, or broken off, in front of a whole frame.           *)
LEMMA FramesEnd ==
  ASSUME NEW k \in StreamKinds, NEW items \in Items[k], NEW size, NEW l, NEW b, NEW o, NEW s,
         NEW early, Streaming(k, items, size, size, l, b, o, s), ~hasFrame(items, b)
  PROVE  k = "web" =>
         /\ s = 0 => Wholeness(k, items, size, early, b, o, "done")
         /\ s # 0 => Wholeness(k, items, size, early, b, o, "GrpcError")
<1> SUFFICES ASSUME k = "web"
             PROVE  /\ s = 0 => Wholeness(k, items, size, early, b, o, "done")
                    /\ s # 0 => Wholeness(k, items, size, early, b, o, "GrpcError")
  OBVIOUS
<1>1. PICK m \in 0..Len(items), q \in 0..Len(items) :
        /\ Rest(k, items, size, l, b, m, q)
        /\ Passed(k, items, m, o)
        /\ \A j \in 1..m : items[j] # "done"
        /\ s # 0 <=> \E j \in 1..m : items[j] = "trailer failed"
  BY DEF Streaming
<1> DEFINE up(x) == upTo(k, items, x)
           next  == q + 1
           n     == lengthOf(items[next])
           M     == meant(items)
           A     == arrived(k, items, size)
           F     == failures(k, items, size)
<1>2. Len(items) \in Nat /\ DOMAIN items = 1..Len(items)
  BY ItemsOfKind
<1>r. Rest(k, items, size, l, b, m, q)
  BY <1>1
<1>m. m = q
  BY <1>r DEF Rest
<1>v. q \in Nat /\ q <= Len(items) /\ size \in Nat /\ up(q) <= size
  BY <1>2, <1>r DEF Rest
<1>p. Passed(k, items, q, o)
  BY <1>1, <1>m
<1>s. s # 0 <=> \E j \in 1..q : items[j] = "trailer failed"
  BY <1>1, <1>m
<1>l. Len(b) = size - up(q)
  BY <1>r, RestCells
<1>u. \A x \in 0..Len(items) : up(x) \in Nat
  BY Ups
<1>3. ASSUME q < Len(items)
      PROVE  size < up(next)
  <2>1. next \in 1..Len(items) /\ next \in 0..Len(items) /\ next - 1 = q
    BY <1>2, <1>v, <1>3
  <2>2. n \in {0, 2} /\ cellsOf(k, items[next]) = 2 + n
    BY DEF lengthOf, cellsOf
  <2>3. up(next) = up(q) + 2 + n
    <3>1. up(next) = up(next - 1) + cellsOf(k, items[next])
      BY <2>1, Ups
    <3>2. up(q) \in Nat /\ up(next) \in Nat
      BY <1>u, <2>1
    <3> HIDE DEF n, next, up
    <3> QED
      BY <2>1, <2>2, <3>1, <3>2
  <2>4. Len(b) < 2 + n
    <3>1. CASE Len(b) < 2
      BY <2>2, <3>1
    <3>2. CASE ~(Len(b) < 2)
      <4>1. up(q) \in Nat /\ Len(b) \in Int
        BY <1>l, <1>u, <1>v
      <4>2. 2 <= Len(b) /\ Len(b) >= 2
        BY <3>2, <4>1
      <4>3. \A i \in 1..(2 + n) : i <= Len(b) => b[i] = cell(next, i)
        <5>1. q < Len(items) => \A i \in 1..cellsOf(k, items[q + 1]) : i <= Len(b) =>
                b[i] = IF k # "web" /\ i = 3 THEN NL ELSE cell(q + 1, i)
          BY <1>r, RestCells
        <5> HIDE DEF n
        <5> QED
          BY <1>3, <2>2, <5>1
      <4>4. 2 \in 1..(2 + n)
        BY <2>2
      <4>5. b[2][1] = next
        BY <4>2, <4>3, <4>4 DEF cell
      <4>6. ~(Len(b) >= 2 + n)
        BY <4>2, <4>5 DEF hasFrame
      <4> HIDE DEF n
      <4> QED
        BY <2>2, <4>1, <4>6
    <3> QED
      BY <3>1, <3>2
  <2>5. up(q) \in Nat /\ up(next) \in Nat
    BY <1>u, <2>1
  <2> HIDE DEF n, next, up
  <2> QED
    BY <1>l, <1>v, <2>2, <2>3, <2>4, <2>5
<1>4. ASSUME NEW j \in DOMAIN items
      PROVE  endsAt(k, items, j) <= size <=> j <= q
  <2>1. j \in 0..Len(items) /\ j \in Nat /\ endsAt(k, items, j) = up(j)
    <3>1. j \in 0..Len(items) /\ j \in Nat
      BY <1>2
    <3>2. up(j) \in Nat
      BY <1>u, <3>1
    <3> QED
      BY <3>1, <3>2 DEF endsAt
  <2>2. up(j) \in Nat /\ up(q) \in Nat
    BY <1>u, <2>1
  <2>3. j <= q => up(j) <= up(q)
    BY <2>1, Ups
  <2>4. ASSUME ~(j <= q)
        PROVE  size < up(j)
    <3>1. q < Len(items) /\ next \in 0..Len(items) /\ next <= j
      BY <1>2, <1>v, <2>1, <2>4
    <3>2. up(next) <= up(j)
      BY <2>1, <3>1, Ups
    <3>3. up(next) \in Nat
      BY <1>u, <3>1
    <3>4. size < up(next)
      BY <1>3, <3>1
    <3> HIDE DEF next, up
    <3> QED
      BY <1>v, <2>2, <3>2, <3>3, <3>4
  <2> HIDE DEF up
  <2>5. j <= q => up(j) <= size
    BY <1>v, <2>2, <2>3
  <2>6. ~(j <= q) => ~(up(j) <= size)
    BY <1>v, <2>2, <2>4
  <2> QED
    BY <2>1, <2>5, <2>6
<1>5. A = {j \in M : j <= q}
  <2>1. M \subseteq DOMAIN items
    BY DEF meant
  <2> HIDE DEF M
  <2> QED
    BY <1>4, <2>1 DEF arrived, M
<1>6. s # 0 <=> F # {}
  <2>1. F = {j \in DOMAIN items : items[j] = "trailer failed" /\ j <= q}
    BY <1>4 DEF failures
  <2>2. \A j \in DOMAIN items : j <= q <=> j \in 1..q
    BY <1>2, <1>v
  <2>3. \A j \in 1..q : j \in DOMAIN items
    BY <1>2, <1>v
  <2> QED
    BY <1>s, <2>1, <2>2, <2>3
<1>7. Len(o) = Cardinality(A) /\ Len(o) \in Nat
  BY <1>5, <1>p, <1>v, PassedExactly
<1>8. \A j \in A : o[place(A, j)] = wholeItem(k, items, j)
  BY <1>5, <1>p, <1>v, PassedExactly
<1> HIDE DEF A, F
<1>9. Len(o) <= Cardinality(A) /\ Len(o) >= Cardinality(A)
  BY <1>7
<1>10. s = 0 => Wholeness(k, items, size, early, b, o, "done")
  BY <1>6, <1>8, <1>9 DEF Wholeness, A, F
<1>11. s # 0 => Wholeness(k, items, size, early, b, o, "GrpcError")
  BY <1>6, <1>8, <1>9 DEF Wholeness, A, F
<1> QED
  BY <1>10, <1>11

-----------------------------------------------------------------------------
(* What is true of one streamed call: its kind and place, its response,    *)
(* and what the reader of that holds.                                      *)
Whole(k, p, r, t, b, l, o, s, res) ==
  /\ p # "settled" => res = ""
  /\ p \notin {"stream", "settled"} => t = 0 /\ b = <<>> /\ l = <<>> /\ o = <<>> /\ s = 0
  /\ p = "stream" => Streaming(k, r.items, r.size, t, l, b, o, s)
  /\ Wholeness(k, r.items, r.size, r.early, b, o, res)

(* It has no business with the token endpoint.                             *)
callIsWhole(c) ==
  isStream(c) =>
    /\ ask[c].state = "none" /\ reply[c].ending \in {"end", "reset", "hang"}
    /\ Whole(kind[c], pc[c], reply[c], taken[c], buffer[c], lines[c], out[c], status[c], result[c])

OfCalls ==
  /\ DOMAIN pc = Calls /\ DOMAIN reply = Calls /\ DOMAIN taken = Calls /\ DOMAIN buffer = Calls
  /\ DOMAIN lines = Calls /\ DOMAIN out = Calls /\ DOMAIN status = Calls /\ DOMAIN result = Calls
  /\ DOMAIN ask = Calls

StreamInv == OfCalls /\ \A c \in Calls : callIsWhole(c)

(* As long as nothing came out the promise is kept.                        *)
LEMMA NothingIsWhole ==
  ASSUME NEW k \in StreamKinds, NEW items \in Items[k] \cup {<<>>}, NEW size \in Nat, NEW early, NEW b, NEW res,
         res # "done", res = "GrpcError" => early = "failed"
  PROVE  Wholeness(k, items, size, early, b, <<>>, res)
<1> DEFINE A == arrived(k, items, size)
<1>1. Cardinality(A) \in Nat /\ \A j \in A : place(A, j) \in Nat \ {0}
  <2>1. \E n \in Nat : A \in SUBSET (1..n)
    <3>1. CASE items = <<>>
      <4>1. A = {}
        BY <3>1 DEF arrived, meant
      <4> HIDE DEF A
      <4>2. A \in SUBSET (1..0)
        BY <4>1
      <4> QED
        BY <4>2
    <3>2. CASE items \in Items[k]
      BY <3>2, Meant
    <3> QED
      BY <3>1, <3>2
  <2>2. PICK n \in Nat : A \in SUBSET (1..n)
    BY <2>1
  <2> HIDE DEF A
  <2>3. Cardinality(A) \in Nat
    BY <2>2, Places
  <2>4. ASSUME NEW j \in A
        PROVE  place(A, j) \in Nat \ {0}
    <3>1. j \in 1..n /\ j - 1 \in 0..n
      BY <2>2
    <3>2. place(A, j) = place(A, j - 1) + 1 /\ place(A, j - 1) \in Nat
      BY <2>2, <3>1, Places
    <3> QED
      BY <3>2
  <2> QED
    BY <2>3, <2>4
<1> HIDE DEF A
<1>2. Len(<<>>) = 0
  OBVIOUS
<1>3. \A j \in A : ~(place(A, j) <= Len(<<>>))
  BY <1>1, <1>2
<1>4. Len(<<>>) <= Cardinality(A)
  BY <1>1, <1>2
<1> QED
  BY <1>3, <1>4 DEF Wholeness, A

(* A call that is not streaming yet goes another way.                      *)
LEMMA WholeMoves ==
  ASSUME NEW k, NEW p, NEW r, NEW t, NEW b, NEW l, NEW o, NEW s, NEW res, NEW p2,
         Whole(k, p, r, t, b, l, o, s, res), p \notin {"stream", "settled"}, p2 \notin {"stream", "settled"}
  PROVE  Whole(k, p2, r, t, b, l, o, s, res)
BY DEF Whole

(* A call is over, and says neither that it is done nor that it failed.    *)
LEMMA WholeSettles ==
  ASSUME NEW k, NEW p, NEW r, NEW t, NEW b, NEW l, NEW o, NEW s, NEW res, NEW res2, NEW l2,
         Whole(k, p, r, t, b, l, o, s, res), p # "settled", res2 \notin {"done", "GrpcError"}
  PROVE  Whole(k, "settled", r, t, b, l2, o, s, res2)
<1>1. Wholeness(k, r.items, r.size, r.early, b, o, res) /\ res = ""
  BY DEF Whole
<1>2. Wholeness(k, r.items, r.size, r.early, b, o, res2)
  BY <1>1 DEF Wholeness
<1> QED
  BY <1>2 DEF Whole

(* A call streams.                                                         *)
LEMMA WholeStreams ==
  ASSUME NEW k \in StreamKinds, NEW r, NEW t, NEW b, NEW l, NEW o, NEW s,
         Streaming(k, r.items, r.size, t, l, b, o, s)
  PROVE  Whole(k, "stream", r, t, b, l, o, s, "")
<1>1. Wholeness(k, r.items, r.size, r.early, b, o, "")
  BY StreamingIsWhole
<1> QED
  BY <1>1 DEF Whole

(* The response is there: its body will be streamed, or be read at once,   *)
(* or its head says that the call failed.                                  *)
LEMMA WholeAnswered ==
  ASSUME NEW k \in StreamKinds, NEW r, NEW t, NEW b, NEW l, NEW o, NEW s, NEW res, NEW r2,
         Whole(k, "sent", r, t, b, l, o, s, res), r2.items \in Items[k], r2.size \in 0..bodySize(k, r2.items)
  PROVE  /\ Whole(k, "stream", r2, t, b, l, o, s, res)
         /\ Whole(k, "text", r2, t, b, l, o, s, res)
         /\ r2.early = "failed" => Whole(k, "settled", r2, t, b, l, o, s, "GrpcError")
<1>1. t = 0 /\ b = <<>> /\ l = <<>> /\ o = <<>> /\ s = 0 /\ res = ""
  BY DEF Whole
<1>2. bodySize(k, r2.items) \in Nat /\ r2.size \in Nat
  <2>1. bodySize(k, r2.items) \in Nat
    BY Ups
  <2> QED
    BY <2>1
<1>3. Streaming(k, r2.items, r2.size, 0, <<>>, <<>>, <<>>, 0)
  BY StreamingStarts
<1>4. Whole(k, "stream", r2, t, b, l, o, s, res)
  BY <1>1, <1>3, WholeStreams
<1>5. Wholeness(k, r2.items, r2.size, r2.early, b, o, res)
  BY <1>1, <1>2, NothingIsWhole
<1>6. r2.early = "failed" => Wholeness(k, r2.items, r2.size, r2.early, b, o, "GrpcError")
  BY <1>1, <1>2, NothingIsWhole
<1>7. Whole(k, "text", r2, t, b, l, o, s, res)
  BY <1>1, <1>5 DEF Whole
<1>8. r2.early = "failed" => Whole(k, "settled", r2, t, b, l, o, s, "GrpcError")
  BY <1>6 DEF Whole
<1> QED
  BY <1>4, <1>7, <1>8

(* The body of an error has been read.                                     *)
LEMMA WholeRead ==
  ASSUME NEW k \in StreamKinds, NEW r, NEW t, NEW b, NEW l, NEW o, NEW s, NEW res, NEW res2,
         Whole(k, "text", r, t, b, l, o, s, res), res2 \notin {"done", "GrpcError"}
  PROVE  Whole(k, "settled", NoReply, t, b, l, o, s, res2)
<1>1. o = <<>>
  BY DEF Whole
<1>2. NoReply.items = <<>> /\ NoReply.size = 0
  BY DEF NoReply
<1>3. Wholeness(k, <<>>, 0, NoReply.early, b, <<>>, res2)
  BY NothingIsWhole
<1> QED
  BY <1>1, <1>2, <1>3 DEF Whole

(* A chunk comes.                                                          *)
LEMMA WholeChunk ==
  ASSUME NEW k \in StreamKinds, NEW r, NEW t, NEW b, NEW l, NEW o, NEW s, NEW res, NEW n \in Nat,
         Whole(k, "stream", r, t, b, l, o, s, res), l = <<>>, t + n <= r.size
  PROVE  LET all == b \o SubSeq(bodyOf(k, r.items), t + 1, t + n) IN
         /\ k = "web" => Whole(k, "stream", r, t + n, all, l, o, s, res)
         /\ k # "web" => Whole(k, "stream", r, t + n, restOf(all), linesOf(all), o, s, res)
<1>1. Streaming(k, r.items, r.size, t, l, b, o, s) /\ res = ""
  BY DEF Whole
<1>2. r.items \in Items[k] /\ t \in Nat /\ r.size \in Nat
  <2>1. r.items \in Items[k] /\ r.size \in 0..bodySize(k, r.items) /\ t \in Nat
    BY <1>1 DEF Streaming, Rest
  <2>2. bodySize(k, r.items) \in Nat
    BY <2>1, Ups
  <2> QED
    BY <2>1, <2>2
<1> DEFINE e == t + n
<1>3. e \in t..r.size
  BY <1>2
<1> HIDE DEF e
<1>4. k = "web" => Streaming(k, r.items, r.size, e, l, b \o span(k, r.items, t, e), o, s)
  BY <1>1, <1>2, <1>3, ChunkOfFrames
<1>5. k # "web" => Streaming(k, r.items, r.size, e, linesOf(b \o span(k, r.items, t, e)), restOf(b \o span(k, r.items, t, e)), o, s)
  <2> SUFFICES ASSUME k # "web"
               PROVE  Streaming(k, r.items, r.size, e, linesOf(b \o span(k, r.items, t, e)), restOf(b \o span(k, r.items, t, e)), o, s)
    OBVIOUS
  <2>1. k \in StreamKinds \ {"web"}
    OBVIOUS
  <2> QED
    BY <1>1, <1>2, <1>3, <2>1, ChunkOfLines
<1> DEFINE all == b \o span(k, r.items, t, e)
<1>6. k = "web" => Whole(k, "stream", r, e, all, l, o, s, res)
  BY <1>1, <1>4, WholeStreams
<1>7. k # "web" => Whole(k, "stream", r, e, restOf(all), linesOf(all), o, s, res)
  BY <1>1, <1>5, WholeStreams
<1> QED
  BY <1>6, <1>7 DEF e, span

(* A line is taken.                                                        *)
LEMMA WholeLine ==
  ASSUME NEW k \in StreamKinds, NEW r, NEW t, NEW b, NEW l, NEW o, NEW s, NEW res,
         Whole(k, "stream", r, t, b, l, o, s, res), l # <<>>
  PROVE  LET line == firstLine(l) IN
         /\ k # "web" /\ isDone(k, r.items, line) => Whole(k, "settled", r, t, b, <<>>, o, s, "done")
         /\ k # "web" /\ ~isDone(k, r.items, line) =>
              /\ isData(k, r.items, line)  => Whole(k, "stream", r, t, b, afterLine(l), Append(o, line), s, res)
              /\ ~isData(k, r.items, line) => Whole(k, "stream", r, t, b, afterLine(l), o, s, res)
<1> DEFINE line == firstLine(l)
<1> SUFFICES ASSUME k # "web"
             PROVE  /\ isDone(k, r.items, line) => Whole(k, "settled", r, t, b, <<>>, o, s, "done")
                    /\ ~isDone(k, r.items, line) =>
                         /\ isData(k, r.items, line)  => Whole(k, "stream", r, t, b, afterLine(l), Append(o, line), s, res)
                         /\ ~isData(k, r.items, line) => Whole(k, "stream", r, t, b, afterLine(l), o, s, res)
  OBVIOUS
<1>1. Streaming(k, r.items, r.size, t, l, b, o, s) /\ res = "" /\ r.items \in Items[k] /\ k \in StreamKinds \ {"web"}
  BY DEF Whole, Streaming
<1>2. isDone(k, r.items, line) => Wholeness(k, r.items, r.size, r.early, b, o, "done")
  BY <1>1, LineTaken
<1>3. ~isDone(k, r.items, line) /\ isData(k, r.items, line) =>
        Streaming(k, r.items, r.size, t, afterLine(l), b, Append(o, line), s)
  BY <1>1, LineTaken
<1>4. ~isDone(k, r.items, line) /\ ~isData(k, r.items, line) =>
        Streaming(k, r.items, r.size, t, afterLine(l), b, o, s)
  BY <1>1, LineTaken
<1> HIDE DEF line
<1>5. isDone(k, r.items, line) => Whole(k, "settled", r, t, b, <<>>, o, s, "done")
  BY <1>2 DEF Whole
<1>6. ~isDone(k, r.items, line) /\ isData(k, r.items, line) => Whole(k, "stream", r, t, b, afterLine(l), Append(o, line), s, res)
  BY <1>1, <1>3, WholeStreams
<1>7. ~isDone(k, r.items, line) /\ ~isData(k, r.items, line) => Whole(k, "stream", r, t, b, afterLine(l), o, s, res)
  BY <1>1, <1>4, WholeStreams
<1> QED
  BY <1>5, <1>6, <1>7

(* A frame is taken.                                                       *)
LEMMA WholeFrame ==
  ASSUME NEW k \in StreamKinds, NEW r, NEW t, NEW b, NEW l, NEW o, NEW s, NEW res,
         Whole(k, "stream", r, t, b, l, o, s, res), hasFrame(r.items, b)
  PROVE  k = "web" =>
         LET frame == frameOf(r.items, b)
             rest  == afterFrame(r.items, b)
         IN
         /\ frame.trailer  => Whole(k, "stream", r, t, rest, l, o, parseGrpcStatus(r.items, frame.payload), res)
         /\ ~frame.trailer => Whole(k, "stream", r, t, rest, l, Append(o, frame.payload), s, res)
<1> DEFINE frame == frameOf(r.items, b)
           rest  == afterFrame(r.items, b)
<1>1. Streaming(k, r.items, r.size, t, l, b, o, s) /\ res = "" /\ r.items \in Items[k]
  BY DEF Whole, Streaming
<1>2. k = "web" => (frame.trailer  => Streaming(k, r.items, r.size, t, l, rest, o, parseGrpcStatus(r.items, frame.payload)))
  BY <1>1, FrameTaken
<1>3. k = "web" => (~frame.trailer => Streaming(k, r.items, r.size, t, l, rest, Append(o, frame.payload), s))
  BY <1>1, FrameTaken
<1> HIDE DEF frame, rest
<1>4. k = "web" => (frame.trailer  => Whole(k, "stream", r, t, rest, l, o, parseGrpcStatus(r.items, frame.payload), res))
  BY <1>1, <1>2, WholeStreams
<1>5. k = "web" => (~frame.trailer => Whole(k, "stream", r, t, rest, l, Append(o, frame.payload), s, res))
  BY <1>1, <1>3, WholeStreams
<1> QED
  BY <1>4, <1>5 DEF frame, rest

(* The body ends.                                                          *)
LEMMA WholeEnds ==
  ASSUME NEW k \in StreamKinds, NEW r, NEW t, NEW b, NEW l, NEW o, NEW s, NEW res,
         Whole(k, "stream", r, t, b, l, o, s, res), t = r.size, l = <<>>, ~(k = "web" /\ hasFrame(r.items, b))
  PROVE  /\ k = "web" => Whole(k, "settled", r, t, b, l, o, s, IF s # 0 THEN "GrpcError" ELSE "done")
         /\ k # "web" =>
              /\ s = 0
              /\ isData(k, r.items, b)  => Whole(k, "settled", r, t, b, l, Append(o, b), s, "done")
              /\ ~isData(k, r.items, b) => Whole(k, "settled", r, t, b, l, o, s, "done")
<1>1. Streaming(k, r.items, r.size, r.size, l, b, o, s) /\ r.items \in Items[k]
  BY DEF Whole, Streaming
<1>a. ASSUME ~hasFrame(r.items, b)
      PROVE  k = "web" => /\ s = 0 => Wholeness(k, r.items, r.size, r.early, b, o, "done")
                          /\ s # 0 => Wholeness(k, r.items, r.size, r.early, b, o, "GrpcError")
  BY <1>1, <1>a, FramesEnd
<1>b. ASSUME k \in StreamKinds \ {"web"}
      PROVE  l = <<>> =>
         /\ s = 0
         /\ isData(k, r.items, b)  => Wholeness(k, r.items, r.size, r.early, b, Append(o, b), "done")
         /\ ~isData(k, r.items, b) => Wholeness(k, r.items, r.size, r.early, b, o, "done")
  BY <1>1, <1>b, LinesEnd
<1>2. CASE k = "web"
  <2>1. ~hasFrame(r.items, b)
    BY <1>2
  <2>2. s = 0 => Wholeness(k, r.items, r.size, r.early, b, o, "done")
    BY <1>2, <1>a, <2>1
  <2>3. s # 0 => Wholeness(k, r.items, r.size, r.early, b, o, "GrpcError")
    BY <1>2, <1>a, <2>1
  <2> QED
    BY <1>2, <2>2, <2>3 DEF Whole
<1>3. CASE k # "web"
  <2>1. k \in StreamKinds \ {"web"}
    BY <1>3
  <2>2. s = 0
    BY <1>b, <2>1
  <2>3. isData(k, r.items, b) => Wholeness(k, r.items, r.size, r.early, b, Append(o, b), "done")
    BY <1>b, <2>1
  <2>4. ~isData(k, r.items, b) => Wholeness(k, r.items, r.size, r.early, b, o, "done")
    BY <1>b, <2>1
  <2> QED
    BY <1>3, <2>2, <2>3, <2>4 DEF Whole
<1> QED
  BY <1>2, <1>3

-----------------------------------------------------------------------------
(* A step of one call, and what it leaves alone in another.                *)
leavesAlone(d) ==
  /\ kind' = kind /\ ask'[d] = ask[d] /\ pc'[d] = pc[d] /\ reply'[d] = reply[d] /\ taken'[d] = taken[d]
  /\ buffer'[d] = buffer[d] /\ lines'[d] = lines[d] /\ out'[d] = out[d]
  /\ status'[d] = status[d] /\ result'[d] = result[d]

(* A call that a step leaves alone keeps what is true of it.               *)
LEMMA LeftAlone ==
  ASSUME NEW d \in Calls, callIsWhole(d), leavesAlone(d)
  PROVE  callIsWhole(d)'
<1>1. isStream(d)' <=> isStream(d)
  BY DEF isStream, leavesAlone
<1> QED
  BY <1>1 DEF callIsWhole, leavesAlone

onlyOf(c) == OfCalls' /\ \A d \in Calls \ {c} : leavesAlone(d)

(* What applyAuthHeaders changes.                                          *)
LEMMA Headers ==
  ASSUME NEW c \in Calls, OfCalls, applyAuthHeaders(c)
  PROVE  /\ DOMAIN pc' = Calls /\ DOMAIN ask' = Calls
         /\ \A d \in Calls \ {c} : pc'[d] = pc[d] /\ ask'[d] = ask[d]
         /\ kind[c] # "send" => pc'[c] = "ready" /\ ask' = ask
BY DEF applyAuthHeaders, goto, request, OfCalls, tokenVars

(* What settle changes.                                                    *)
LEMMA Settling ==
  ASSUME NEW c \in Calls, OfCalls, NEW res, settle(c, res)
  PROVE  /\ DOMAIN pc' = Calls /\ DOMAIN result' = Calls
         /\ \A d \in Calls \ {c} : pc'[d] = pc[d] /\ result'[d] = result[d]
         /\ pc'[c] = "settled" /\ result'[c] = res
BY DEF settle, goto, OfCalls

(* For a step of one call it is enough to look at that call.               *)
LEMMA OneCallSteps ==
  ASSUME NEW c \in Calls, StreamInv, onlyOf(c), kind' = kind, isStream(c) => callIsWhole(c)'
  PROVE  StreamInv'
<1>1. \A d \in Calls \ {c} : callIsWhole(d)'
  BY LeftAlone DEF StreamInv, onlyOf
<1>2. callIsWhole(c)'
  BY DEF callIsWhole, isStream
<1> QED
  BY <1>1, <1>2 DEF StreamInv, onlyOf

(* A call that is not streaming yet goes another way.                      *)
LEMMA MoveKeepsWhole ==
  ASSUME NEW c \in Calls, callIsWhole(c), isStream(c), kind' = kind, ask'[c] = ask[c],
         pc[c] \notin {"stream", "settled"}, pc'[c] \notin {"stream", "settled"},
         reply'[c] = reply[c], taken'[c] = taken[c], buffer'[c] = buffer[c], lines'[c] = lines[c],
         out'[c] = out[c], status'[c] = status[c], result'[c] = result[c]
  PROVE  callIsWhole(c)'
<1>1. ask[c].state = "none" /\ reply[c].ending \in {"end", "reset", "hang"}
      /\ Whole(kind[c], pc[c], reply[c], taken[c], buffer[c], lines[c], out[c], status[c], result[c])
  BY DEF callIsWhole
<1>2. Whole(kind[c], pc'[c], reply[c], taken[c], buffer[c], lines[c], out[c], status[c], result[c])
  BY <1>1, WholeMoves
<1> QED
  BY <1>1, <1>2 DEF callIsWhole

(* A call is over, and says neither that it is done nor that it failed.    *)
LEMMA SettlingKeepsWhole ==
  ASSUME NEW c \in Calls, callIsWhole(c), isStream(c), kind' = kind, ask'[c] = ask[c],
         pc[c] # "settled", pc'[c] = "settled", result'[c] \notin {"done", "GrpcError"},
         reply'[c] = reply[c], taken'[c] = taken[c], buffer'[c] = buffer[c],
         out'[c] = out[c], status'[c] = status[c]
  PROVE  callIsWhole(c)'
<1>1. ask[c].state = "none" /\ reply[c].ending \in {"end", "reset", "hang"}
      /\ Whole(kind[c], pc[c], reply[c], taken[c], buffer[c], lines[c], out[c], status[c], result[c])
  BY DEF callIsWhole
<1>2. Whole(kind[c], "settled", reply[c], taken[c], buffer[c], lines'[c], out[c], status[c], result'[c])
  BY <1>1, WholeSettles
<1> QED
  BY <1>1, <1>2 DEF callIsWhole

(* An attempt begins.                                                      *)
LEMMA StartKeeps ==
  ASSUME NEW c \in Calls, StreamInv, Start(c)
  PROVE  StreamInv'
<1>1. OfCalls /\ callIsWhole(c)
  BY DEF StreamInv
<1>2. UNCHANGED <<kind, attempt, aborted, reply, streamVars, result>>
  BY DEF Start
<1>3. applyAuthHeaders(c) /\ pc[c] = "idle"
  BY DEF Start
<1>4. onlyOf(c)
  BY <1>1, <1>2, <1>3, Headers DEF onlyOf, leavesAlone, OfCalls, streamVars
<1>5. ASSUME isStream(c)
      PROVE  callIsWhole(c)'
  <2>1. pc'[c] = "ready" /\ ask' = ask
    BY <1>1, <1>3, <1>5, Headers DEF isStream
  <2> QED
    BY <1>1, <1>2, <1>3, <1>5, <2>1, MoveKeepsWhole DEF streamVars
<1> QED
  BY <1>2, <1>4, <1>5, OneCallSteps

(* A token, or a refusal, comes for a call that asked.                     *)
LEMMA TokensKeep ==
  ASSUME NEW c \in Calls, StreamInv, TokenArrives(c) \/ RefreshArrives(c) \/ TokenFails(c)
  PROVE  StreamInv'
<1>1. OfCalls /\ callIsWhole(c)
  BY DEF StreamInv
<1>2. kind' = kind /\ UNCHANGED <<reply, streamVars>>
  BY DEF TokenArrives, RefreshArrives, TokenFails
<1>3. DOMAIN ask' = Calls /\ \A d \in Calls \ {c} : ask'[d] = ask[d]
  BY <1>1 DEF TokenArrives, RefreshArrives, TokenFails, apply, giveUp, OfCalls
<1>4. DOMAIN pc' = Calls /\ DOMAIN result' = Calls /\ \A d \in Calls \ {c} : pc'[d] = pc[d] /\ result'[d] = result[d]
  BY <1>1 DEF TokenArrives, RefreshArrives, TokenFails, settle, goto, OfCalls
<1>5. onlyOf(c)
  BY <1>1, <1>2, <1>3, <1>4 DEF onlyOf, leavesAlone, OfCalls, streamVars
<1>6. ~isStream(c)
  BY <1>1 DEF callIsWhole, TokenArrives, RefreshArrives, TokenFails
<1> QED
  BY <1>2, <1>5, <1>6, OneCallSteps

(* The request goes out, or the signal has fired before.                   *)
LEMMA SendKeeps ==
  ASSUME NEW c \in Calls, StreamInv, Send(c)
  PROVE  StreamInv'
<1>1. OfCalls /\ callIsWhole(c)
  BY DEF StreamInv
<1>2. kind' = kind /\ ask' = ask /\ UNCHANGED <<reply, streamVars>> /\ pc[c] = "ready"
  BY DEF Send, tokenVars
<1>3. CASE aborted[c]
  <2>1. settle(c, "thrown")
    BY <1>3 DEF Send
  <2>2. onlyOf(c)
    BY <1>1, <1>2, <2>1, Settling DEF onlyOf, leavesAlone, OfCalls, streamVars
  <2>3. pc'[c] = "settled" /\ result'[c] = "thrown"
    BY <1>1, <2>1, Settling
  <2>4. isStream(c) => callIsWhole(c)'
    BY <1>1, <1>2, <2>3, SettlingKeepsWhole DEF streamVars
  <2> QED
    BY <1>2, <2>2, <2>4, OneCallSteps
<1>4. CASE ~aborted[c]
  <2>1. goto(c, "sent") /\ result' = result
    BY <1>4 DEF Send
  <2>2. onlyOf(c)
    BY <1>1, <1>2, <2>1 DEF onlyOf, leavesAlone, OfCalls, streamVars, goto
  <2>3. pc'[c] = "sent"
    BY <1>1, <2>1 DEF goto, OfCalls
  <2>4. isStream(c) => callIsWhole(c)'
    BY <1>1, <1>2, <2>1, <2>3, MoveKeepsWhole DEF streamVars
  <2> QED
    BY <1>2, <2>2, <2>4, OneCallSteps
<1> QED
  BY <1>3, <1>4

(* A deadline or the signal ends the attempt.                              *)
LEMMA FailingKeeps ==
  ASSUME NEW c \in Calls, NEW error, StreamInv, failing(c, error)
  PROVE  StreamInv'
<1>1. OfCalls /\ callIsWhole(c)
  BY DEF StreamInv
<1>2. kind' = kind /\ UNCHANGED <<reply, streamVars>> /\ pc[c] # "settled"
  BY DEF failing, reading
<1>3. CASE error = "TimeoutError" /\ pc[c] = "sent" /\ retries(c)
  <2>1. applyAuthHeaders(c) /\ result' = result
    BY <1>3 DEF failing
  <2>2. onlyOf(c)
    BY <1>1, <1>2, <2>1, Headers DEF onlyOf, leavesAlone, OfCalls, streamVars
  <2>3. ASSUME isStream(c)
        PROVE  callIsWhole(c)'
    <3>1. pc'[c] = "ready" /\ ask' = ask
      BY <1>1, <2>1, <2>3, Headers DEF isStream
    <3> QED
      BY <1>1, <1>2, <1>3, <2>1, <2>3, <3>1, MoveKeepsWhole DEF streamVars
  <2> QED
    BY <1>2, <2>2, <2>3, OneCallSteps
<1>4. CASE ~(error = "TimeoutError" /\ pc[c] = "sent" /\ retries(c))
  <2>1. settle(c, "thrown") /\ UNCHANGED tokenVars
    BY <1>4 DEF failing
  <2>2. ask' = ask
    BY <2>1 DEF tokenVars
  <2>3. onlyOf(c)
    BY <1>1, <1>2, <2>1, <2>2, Settling DEF onlyOf, leavesAlone, OfCalls, streamVars
  <2>4. pc'[c] = "settled" /\ result'[c] = "thrown"
    BY <1>1, <2>1, Settling
  <2>5. isStream(c) => callIsWhole(c)'
    BY <1>1, <1>2, <2>2, <2>4, SettlingKeepsWhole DEF streamVars
  <2> QED
    BY <1>2, <2>3, <2>5, OneCallSteps
<1> QED
  BY <1>3, <1>4

(* What the endpoint, the caller and the clock do is nothing to a reader.  *)
LEMMA OthersKeep ==
  ASSUME StreamInv,
         \/ UNCHANGED vars \/ TimePasses
         \/ \E c \in Calls : Endpoint(c) \/ Abort(c)
  PROVE  StreamInv'
<1>1. CASE UNCHANGED vars \/ TimePasses \/ \E c \in Calls : Abort(c)
  <2>1. UNCHANGED <<kind, ask, pc, reply, streamVars, result>>
    BY <1>1 DEF vars, callVars, tokenVars, TimePasses, Tick, Abort
  <2>2. OfCalls' /\ \A d \in Calls : leavesAlone(d)
    BY <2>1 DEF StreamInv, OfCalls, leavesAlone, streamVars
  <2> QED
    BY <2>2, LeftAlone DEF StreamInv
<1>2. ASSUME NEW c \in Calls, Endpoint(c)
      PROVE  StreamInv'
  <2>0. OfCalls /\ callIsWhole(c)
    BY DEF StreamInv
  <2>1. UNCHANGED <<kind, pc, reply, streamVars, result>>
    BY <1>2 DEF Endpoint, callVars
  <2>2. DOMAIN ask' = Calls /\ \A d \in Calls \ {c} : ask'[d] = ask[d]
    BY <1>2, <2>0 DEF Endpoint, Issue, Refuse, LoseAnswer, OfCalls
  <2>3. onlyOf(c)
    BY <2>0, <2>1, <2>2 DEF onlyOf, OfCalls, leavesAlone, streamVars
  <2>4. ~isStream(c)
    BY <1>2, <2>0 DEF callIsWhole, Endpoint, Issue, Refuse, LoseAnswer
  <2> QED
    BY <2>1, <2>3, <2>4, OneCallSteps
<1> QED
  BY <1>1, <1>2

(* The response head arrives.                                              *)
LEMMA RespondKeeps ==
  ASSUME NEW c \in Calls, StreamInv, Respond(c)
  PROVE  StreamInv'
<1>1. OfCalls /\ callIsWhole(c)
  BY DEF StreamInv
<1>2. kind' = kind /\ UNCHANGED streamVars /\ pc[c] = "sent"
  BY DEF Respond
<1>3. PICK r \in Answers(c) :
       IF r.status \in {401, 500} /\ retries(c)
       THEN /\ again(c)
            /\ IF r.status = 401 /\ provider = "refresh"
               THEN goto(c, "refresh") /\ request(c) /\ UNCHANGED token
               ELSE applyAuthHeaders(c)
            /\ UNCHANGED <<reply, result>>
       ELSE /\ reply' = [reply EXCEPT ![c] = r]
            /\ judged(c, r) /\ UNCHANGED <<attempt, tokenVars>>
  BY DEF Respond
<1>e. isStream(c) => r.ending \in {"end", "reset", "hang"}
  BY <1>3 DEF Answers, isStream
<1>4. isStream(c) => r.items \in Items[kind[c]] /\ r.size \in 0..bodySize(kind[c], r.items) /\ r.status \in {200, 500}
  <2> SUFFICES ASSUME isStream(c)
               PROVE  r.items \in Items[kind[c]] /\ r.size \in 0..bodySize(kind[c], r.items) /\ r.status \in {200, 500}
    OBVIOUS
  <2>1. kind[c] # "send"
    BY DEF isStream
  <2>2. PICK items \in Items[kind[c]] :
          r \in [status : {200, 500}, early : IF kind[c] = "web" THEN {"none", "ok", "failed"} ELSE {"none"},
                 items : {items}, size : 0..bodySize(kind[c], items), ending : {"end", "reset", "hang"}]
    BY <1>3, <2>1 DEF Answers
  <2> QED
    BY <2>2
<1>5. CASE r.status \in {401, 500} /\ retries(c)
  <2>1. UNCHANGED <<reply, result>>
    BY <1>3, <1>5
  <2>2. CASE r.status = 401 /\ provider = "refresh"
    <3>1. goto(c, "refresh") /\ request(c)
      BY <1>3, <1>5, <2>2
    <3>2. onlyOf(c)
      BY <1>1, <1>2, <2>1, <3>1 DEF onlyOf, leavesAlone, OfCalls, streamVars, goto, request
    <3>3. ~isStream(c)
      BY <1>4, <2>2
    <3> QED
      BY <1>2, <3>2, <3>3, OneCallSteps
  <2>3. CASE ~(r.status = 401 /\ provider = "refresh")
    <3>1. applyAuthHeaders(c)
      BY <1>3, <1>5, <2>3
    <3>2. onlyOf(c)
      BY <1>1, <1>2, <2>1, <3>1, Headers DEF onlyOf, leavesAlone, OfCalls, streamVars
    <3>3. ASSUME isStream(c)
          PROVE  callIsWhole(c)'
      <4>1. pc'[c] = "ready" /\ ask' = ask
        BY <1>1, <3>1, <3>3, Headers DEF isStream
      <4> QED
        BY <1>1, <1>2, <2>1, <3>3, <4>1, MoveKeepsWhole DEF streamVars
    <3> QED
      BY <1>2, <3>2, <3>3, OneCallSteps
  <2> QED
    BY <2>2, <2>3
<1>6. CASE ~(r.status \in {401, 500} /\ retries(c))
  <2>1. reply' = [reply EXCEPT ![c] = r] /\ judged(c, r) /\ UNCHANGED tokenVars
    BY <1>3, <1>6
  <2>2. ask' = ask
    BY <2>1 DEF tokenVars
  <2>3. DOMAIN reply' = Calls /\ reply'[c] = r /\ \A d \in Calls \ {c} : reply'[d] = reply[d]
    BY <1>1, <2>1 DEF OfCalls
  <2>4. /\ DOMAIN pc' = Calls /\ DOMAIN result' = Calls
        /\ \A d \in Calls \ {c} : pc'[d] = pc[d] /\ result'[d] = result[d]
    BY <1>1, <2>1 DEF judged, settle, goto, OfCalls
  <2>5. onlyOf(c)
    BY <1>1, <1>2, <2>2, <2>3, <2>4 DEF onlyOf, leavesAlone, OfCalls, streamVars
  <2>6. ASSUME isStream(c)
        PROVE  callIsWhole(c)'
    <3>1. /\ ask[c].state = "none" /\ kind[c] \in StreamKinds
          /\ Whole(kind[c], "sent", reply[c], taken[c], buffer[c], lines[c], out[c], status[c], result[c])
      BY <1>1, <1>2, <2>6 DEF callIsWhole, isStream, StreamKinds
    <3>2. r.items \in Items[kind[c]] /\ r.size \in 0..bodySize(kind[c], r.items)
      BY <1>4, <2>6
    <3>3. /\ Whole(kind[c], "stream", r, taken[c], buffer[c], lines[c], out[c], status[c], result[c])
          /\ Whole(kind[c], "text", r, taken[c], buffer[c], lines[c], out[c], status[c], result[c])
          /\ r.early = "failed" => Whole(kind[c], "settled", r, taken[c], buffer[c], lines[c], out[c], status[c], "GrpcError")
      BY <3>1, <3>2, WholeAnswered
    <3>4. \/ pc'[c] \in {"stream", "text"} /\ result'[c] = result[c]
          \/ r.early = "failed" /\ pc'[c] = "settled" /\ result'[c] = "GrpcError"
      BY <1>1, <2>1 DEF judged, settle, goto, OfCalls
    <3>5. Whole(kind[c], pc'[c], r, taken[c], buffer[c], lines[c], out[c], status[c], result'[c])
      BY <3>3, <3>4
    <3> QED
      BY <1>2, <1>e, <2>2, <2>3, <2>6, <3>1, <3>5 DEF callIsWhole, streamVars
  <2> QED
    BY <1>2, <2>5, <2>6, OneCallSteps
<1> QED
  BY <1>5, <1>6

(* The whole body is read at once.                                         *)
LEMMA ReadTextKeeps ==
  ASSUME NEW c \in Calls, StreamInv, ReadText(c)
  PROVE  StreamInv'
<1>1. OfCalls /\ callIsWhole(c)
  BY DEF StreamInv
<1>2. kind' = kind /\ ask' = ask /\ UNCHANGED streamVars /\ pc[c] = "text"
  BY DEF ReadText, tokenVars
<1>3. PICK read \in {"thrown"} \cup IF kind[c] = "web" THEN {"value"} ELSE {parseBody(x) : x \in Contents} :
        settle(c, IF read = "value" /\ reply[c].status # 200 THEN "ApiError" ELSE read)
  BY DEF ReadText
<1>4. read \in {"thrown", "value"}
  BY <1>3 DEF parseBody
<1>5. pc'[c] = "settled" /\ result'[c] \in {"thrown", "value", "ApiError"}
  BY <1>1, <1>3, <1>4, Settling
<1>6. DOMAIN reply' = Calls /\ reply'[c] = NoReply /\ \A d \in Calls \ {c} : reply'[d] = reply[d]
  BY <1>1 DEF ReadText, OfCalls
<1>7. onlyOf(c)
  BY <1>1, <1>2, <1>3, <1>6, Settling DEF onlyOf, leavesAlone, OfCalls, streamVars
<1>8. ASSUME isStream(c)
      PROVE  callIsWhole(c)'
  <2>1. /\ ask[c].state = "none" /\ kind[c] \in StreamKinds
        /\ Whole(kind[c], "text", reply[c], taken[c], buffer[c], lines[c], out[c], status[c], result[c])
    BY <1>1, <1>2, <1>8 DEF callIsWhole, isStream, StreamKinds
  <2>2. result'[c] \notin {"done", "GrpcError"}
    BY <1>5
  <2>3. Whole(kind[c], "settled", NoReply, taken[c], buffer[c], lines[c], out[c], status[c], result'[c])
    BY <2>1, <2>2, WholeRead
  <2> QED
    BY <1>2, <1>5, <1>6, <2>1, <2>3 DEF callIsWhole, streamVars, NoReply
<1> QED
  BY <1>2, <1>7, <1>8, OneCallSteps

(* What is known of a call whose body is being read.                       *)
LEMMA Reader ==
  ASSUME NEW c \in Calls, StreamInv, pc[c] = "stream", isStream(c)
  PROVE  /\ ask[c].state = "none" /\ reply[c].ending \in {"end", "reset", "hang"} /\ kind[c] \in StreamKinds
         /\ Whole(kind[c], "stream", reply[c], taken[c], buffer[c], lines[c], out[c], status[c], result[c])
BY DEF StreamInv, callIsWhole, isStream, StreamKinds

(* A chunk of the body is read.                                            *)
LEMMA ReadChunkKeeps ==
  ASSUME NEW c \in Calls, StreamInv, ReadChunk(c)
  PROVE  StreamInv'
<1>1. OfCalls
  BY DEF StreamInv
<1>2. /\ kind' = kind /\ ask' = ask /\ UNCHANGED <<pc, reply, out, status, result>>
      /\ pc[c] = "stream" /\ lines[c] = <<>>
  BY DEF ReadChunk, reading, tokenVars
<1> DEFINE all(n) == buffer[c] \o SubSeq(bodyOf(kind[c], reply[c].items), taken[c] + 1, taken[c] + n)
<1>3. PICK n \in 1..MaxChunk :
       /\ taken[c] + n <= reply[c].size
       /\ taken' = [taken EXCEPT ![c] = @ + n]
       /\ IF kind[c] = "web"
          THEN buffer' = [buffer EXCEPT ![c] = all(n)] /\ UNCHANGED lines
          ELSE /\ lines'  = [lines EXCEPT ![c] = linesOf(all(n))]
               /\ buffer' = [buffer EXCEPT ![c] = restOf(all(n))]
  BY DEF ReadChunk
<1>4. n \in Nat
  BY <1>3, ProgramAssumption
<1> DEFINE whole == all(n)
<1> HIDE DEF all
<1>5. DOMAIN taken' = Calls /\ taken'[c] = taken[c] + n /\ \A d \in Calls \ {c} : taken'[d] = taken[d]
  BY <1>1, <1>3 DEF OfCalls
<1>6. /\ DOMAIN buffer' = Calls /\ \A d \in Calls \ {c} : buffer'[d] = buffer[d]
      /\ buffer'[c] = IF kind[c] = "web" THEN whole ELSE restOf(whole)
  BY <1>1, <1>3 DEF OfCalls
<1>7. /\ DOMAIN lines' = Calls /\ \A d \in Calls \ {c} : lines'[d] = lines[d]
      /\ lines'[c] = IF kind[c] = "web" THEN lines[c] ELSE linesOf(whole)
  BY <1>1, <1>3 DEF OfCalls
<1>8. onlyOf(c)
  BY <1>1, <1>2, <1>5, <1>6, <1>7 DEF onlyOf, leavesAlone, OfCalls
<1>9. ASSUME isStream(c)
      PROVE  callIsWhole(c)'
  <2>1. /\ ask[c].state = "none" /\ reply[c].ending \in {"end", "reset", "hang"} /\ kind[c] \in StreamKinds
        /\ Whole(kind[c], "stream", reply[c], taken[c], buffer[c], lines[c], out[c], status[c], result[c])
    BY <1>2, <1>9, Reader
  <2>2. taken[c] + n <= reply[c].size
    BY <1>3
  <2>3. /\ kind[c] = "web" => Whole(kind[c], "stream", reply[c], taken[c] + n, whole, lines[c], out[c], status[c], result[c])
        /\ kind[c] # "web" => Whole(kind[c], "stream", reply[c], taken[c] + n, restOf(whole), linesOf(whole), out[c], status[c], result[c])
    BY <1>2, <1>4, <2>1, <2>2, WholeChunk DEF all
  <2>4. Whole(kind[c], "stream", reply[c], taken'[c], buffer'[c], lines'[c], out[c], status[c], result[c])
    BY <1>5, <1>6, <1>7, <2>3
  <2> QED
    BY <1>2, <2>1, <2>4 DEF callIsWhole
<1> QED
  BY <1>2, <1>8, <1>9, OneCallSteps

(* Only lines wait as lines.                                               *)
LEMMA LinesAreNoFrames ==
  ASSUME NEW k \in StreamKinds, NEW r, NEW t, NEW b, NEW l, NEW o, NEW s, NEW res,
         Whole(k, "stream", r, t, b, l, o, s, res), l # <<>>
  PROVE  k # "web"
<1> SUFFICES ASSUME k = "web" PROVE FALSE
  OBVIOUS
<1>1. Streaming(k, r.items, r.size, t, l, b, o, s)
  BY DEF Whole
<1>2. PICK m \in 0..Len(r.items), q \in 0..Len(r.items) : Rest(k, r.items, t, l, b, m, q)
  BY <1>1 DEF Streaming
<1>3. r.items \in Items[k]
  BY <1>1 DEF Streaming
<1>4. m = q /\ l = span(k, r.items, upTo(k, r.items, m), upTo(k, r.items, q))
  BY <1>2 DEF Rest
<1>5. upTo(k, r.items, q) \in Nat
  BY <1>3, Ups
<1> QED
  BY <1>4, <1>5, SubSeqEmpty DEF span

(* A line is taken.                                                        *)
LEMMA TakeLineKeeps ==
  ASSUME NEW c \in Calls, StreamInv, TakeLine(c)
  PROVE  StreamInv'
<1> DEFINE line == firstLine(lines[c])
           items == reply[c].items
<1>1. OfCalls
  BY DEF StreamInv
<1>2. /\ kind' = kind /\ ask' = ask /\ UNCHANGED <<reply, taken, buffer, status>>
      /\ pc[c] = "stream" /\ lines[c] # <<>>
  BY DEF TakeLine, tokenVars
<1>3. IF isDone(kind[c], items, line)
      THEN settle(c, "done") /\ lines' = [lines EXCEPT ![c] = <<>>] /\ UNCHANGED out
      ELSE /\ lines' = [lines EXCEPT ![c] = afterLine(@)]
           /\ IF isData(kind[c], items, line) THEN yielded(c, line) ELSE UNCHANGED out
           /\ UNCHANGED <<pc, token, result>>
  BY DEF TakeLine
<1> HIDE DEF line
<1>4. DOMAIN lines' = Calls /\ \A d \in Calls \ {c} : lines'[d] = lines[d]
  BY <1>1, <1>3 DEF OfCalls
<1>5. DOMAIN out' = Calls /\ \A d \in Calls \ {c} : out'[d] = out[d]
  BY <1>1, <1>3 DEF OfCalls, yielded
<1>6. /\ DOMAIN pc' = Calls /\ DOMAIN result' = Calls
      /\ \A d \in Calls \ {c} : pc'[d] = pc[d] /\ result'[d] = result[d]
  BY <1>1, <1>3, Settling DEF OfCalls
<1>7. onlyOf(c)
  BY <1>1, <1>2, <1>4, <1>5, <1>6 DEF onlyOf, leavesAlone, OfCalls
<1>8. ASSUME isStream(c)
      PROVE  callIsWhole(c)'
  <2>1. /\ ask[c].state = "none" /\ reply[c].ending \in {"end", "reset", "hang"} /\ kind[c] \in StreamKinds
        /\ Whole(kind[c], "stream", reply[c], taken[c], buffer[c], lines[c], out[c], status[c], result[c])
    BY <1>2, <1>8, Reader
  <2>2. kind[c] # "web"
    BY <1>2, <2>1, LinesAreNoFrames
  <2>3. /\ isDone(kind[c], items, line) =>
             Whole(kind[c], "settled", reply[c], taken[c], buffer[c], <<>>, out[c], status[c], "done")
        /\ ~isDone(kind[c], items, line) =>
             /\ isData(kind[c], items, line) =>
                  Whole(kind[c], "stream", reply[c], taken[c], buffer[c], afterLine(lines[c]), Append(out[c], line), status[c], result[c])
             /\ ~isData(kind[c], items, line) =>
                  Whole(kind[c], "stream", reply[c], taken[c], buffer[c], afterLine(lines[c]), out[c], status[c], result[c])
    BY <1>2, <2>1, <2>2, WholeLine DEF line
  <2>4. CASE isDone(kind[c], items, line)
    <3>1. pc'[c] = "settled" /\ result'[c] = "done" /\ lines'[c] = <<>> /\ out'[c] = out[c]
      BY <1>1, <1>3, <2>4, Settling DEF OfCalls
    <3> QED
      BY <1>2, <2>1, <2>3, <2>4, <3>1 DEF callIsWhole
  <2>5. CASE ~isDone(kind[c], items, line)
    <3>1. pc'[c] = "stream" /\ result'[c] = result[c] /\ lines'[c] = afterLine(lines[c])
      BY <1>1, <1>2, <1>3, <2>5 DEF OfCalls
    <3>2. out'[c] = IF isData(kind[c], items, line) THEN Append(out[c], line) ELSE out[c]
      BY <1>1, <1>3, <2>5 DEF OfCalls, yielded
    <3>3. Whole(kind[c], "stream", reply[c], taken[c], buffer[c], afterLine(lines[c]), out'[c], status[c], result[c])
      BY <2>3, <2>5, <3>2
    <3> QED
      BY <1>2, <2>1, <3>1, <3>3 DEF callIsWhole
  <2> QED
    BY <2>4, <2>5
<1> QED
  BY <1>2, <1>7, <1>8, OneCallSteps

(* A frame is taken.                                                       *)
LEMMA TakeFrameKeeps ==
  ASSUME NEW c \in Calls, StreamInv, TakeFrame(c)
  PROVE  StreamInv'
<1> DEFINE items == reply[c].items
           frame == frameOf(items, buffer[c])
           rest  == afterFrame(items, buffer[c])
<1>1. OfCalls
  BY DEF StreamInv
<1>2. /\ kind' = kind /\ ask' = ask /\ UNCHANGED <<pc, reply, taken, lines, result>>
      /\ pc[c] = "stream" /\ kind[c] = "web" /\ hasFrame(items, buffer[c])
  BY DEF TakeFrame, tokenVars
<1>3. IF frame.trailer
      THEN status' = [status EXCEPT ![c] = parseGrpcStatus(items, frame.payload)] /\ UNCHANGED out
      ELSE yielded(c, frame.payload) /\ UNCHANGED status
  BY DEF TakeFrame
<1>4. DOMAIN buffer' = Calls /\ buffer'[c] = rest /\ \A d \in Calls \ {c} : buffer'[d] = buffer[d]
  BY <1>1 DEF OfCalls, TakeFrame
<1> HIDE DEF frame, rest
<1>5. /\ DOMAIN out' = Calls /\ \A d \in Calls \ {c} : out'[d] = out[d]
      /\ out'[c] = IF frame.trailer THEN out[c] ELSE Append(out[c], frame.payload)
  BY <1>1, <1>3 DEF OfCalls, yielded
<1>6. /\ DOMAIN status' = Calls /\ \A d \in Calls \ {c} : status'[d] = status[d]
      /\ status'[c] = IF frame.trailer THEN parseGrpcStatus(items, frame.payload) ELSE status[c]
  BY <1>1, <1>3 DEF OfCalls
<1>7. onlyOf(c)
  BY <1>1, <1>2, <1>4, <1>5, <1>6 DEF onlyOf, leavesAlone, OfCalls
<1>8. ASSUME isStream(c)
      PROVE  callIsWhole(c)'
  <2>1. /\ ask[c].state = "none" /\ reply[c].ending \in {"end", "reset", "hang"} /\ kind[c] \in StreamKinds
        /\ Whole(kind[c], "stream", reply[c], taken[c], buffer[c], lines[c], out[c], status[c], result[c])
    BY <1>2, <1>8, Reader
  <2>2. hasFrame(reply[c].items, buffer[c])
    BY <1>2
  <2>3. kind[c] = "web" =>
          /\ frame.trailer =>
               Whole(kind[c], "stream", reply[c], taken[c], rest, lines[c], out[c], parseGrpcStatus(items, frame.payload), result[c])
          /\ ~frame.trailer =>
               Whole(kind[c], "stream", reply[c], taken[c], rest, lines[c], Append(out[c], frame.payload), status[c], result[c])
    BY <2>1, <2>2, WholeFrame DEF frame, rest
  <2>4. Whole(kind[c], "stream", reply[c], taken[c], buffer'[c], lines[c], out'[c], status'[c], result[c])
    BY <1>2, <1>4, <1>5, <1>6, <2>3
  <2> QED
    BY <1>2, <2>1, <2>4 DEF callIsWhole
<1> QED
  BY <1>2, <1>7, <1>8, OneCallSteps

(* The body ends.                                                          *)
LEMMA EndBodyKeeps ==
  ASSUME NEW c \in Calls, StreamInv, EndBody(c)
  PROVE  StreamInv'
<1> DEFINE r == reply[c]
           isLine == kind[c] # "web" /\ isData(kind[c], r.items, buffer[c])
           ends == IF r.ending = "reset" THEN "thrown" ELSE IF status[c] # 0 THEN "GrpcError" ELSE "done"
<1>1. OfCalls
  BY DEF StreamInv
<1>2. /\ kind' = kind /\ ask' = ask /\ UNCHANGED <<reply, taken, buffer, lines, status>>
      /\ pc[c] = "stream" /\ lines[c] = <<>> /\ ~(kind[c] = "web" /\ hasFrame(r.items, buffer[c]))
      /\ taken[c] = r.size
  BY DEF EndBody, reading, tokenVars
<1>3. settle(c, ends)
  BY DEF EndBody
<1>h. r.ending # "hang"
  BY DEF EndBody
<1>4. IF isLine /\ r.ending = "end" THEN yielded(c, buffer[c]) ELSE UNCHANGED out
  BY DEF EndBody
<1>5. DOMAIN out' = Calls /\ \A d \in Calls \ {c} : out'[d] = out[d]
  BY <1>1, <1>4 DEF OfCalls, yielded
<1>6. onlyOf(c)
  BY <1>1, <1>2, <1>3, <1>5, Settling DEF onlyOf, leavesAlone, OfCalls
<1>7. DOMAIN out = Calls /\ pc'[c] = "settled" /\ result'[c] = ends
  BY <1>1, <1>3, Settling DEF OfCalls
<1>8. ASSUME isStream(c)
      PROVE  callIsWhole(c)'
  <2>1. /\ ask[c].state = "none" /\ reply[c].ending \in {"end", "reset", "hang"} /\ kind[c] \in StreamKinds
        /\ Whole(kind[c], "stream", reply[c], taken[c], buffer[c], lines[c], out[c], status[c], result[c])
    BY <1>2, <1>8, Reader
  <2>2. /\ kind[c] = "web" =>
             Whole(kind[c], "settled", reply[c], taken[c], buffer[c], lines[c], out[c], status[c], IF status[c] # 0 THEN "GrpcError" ELSE "done")
        /\ kind[c] # "web" =>
             /\ status[c] = 0
             /\ isData(kind[c], r.items, buffer[c]) =>
                  Whole(kind[c], "settled", reply[c], taken[c], buffer[c], lines[c], Append(out[c], buffer[c]), status[c], "done")
             /\ ~isData(kind[c], r.items, buffer[c]) =>
                  Whole(kind[c], "settled", reply[c], taken[c], buffer[c], lines[c], out[c], status[c], "done")
    BY <1>2, <2>1, WholeEnds
  <2>3. CASE r.ending = "reset"
    <3>1. out' = out /\ result'[c] = "thrown"
      BY <1>4, <1>7, <2>3
    <3>2. Whole(kind[c], "settled", reply[c], taken[c], buffer[c], lines[c], out[c], status[c], "thrown")
      BY <2>1, WholeSettles
    <3> QED
      BY <1>2, <1>7, <2>1, <3>1, <3>2 DEF callIsWhole
  <2>4. CASE r.ending = "end"
    <3>1. out'[c] = IF isLine THEN Append(out[c], buffer[c]) ELSE out[c]
      BY <1>4, <1>7, <2>4 DEF yielded
    <3>2. result'[c] = IF status[c] # 0 THEN "GrpcError" ELSE "done"
      BY <1>7, <2>4
    <3>3. Whole(kind[c], "settled", reply[c], taken[c], buffer[c], lines[c], out'[c], status[c], result'[c])
      <4>1. CASE kind[c] = "web"
        BY <2>2, <3>1, <3>2, <4>1
      <4>2. CASE kind[c] # "web" /\ isData(kind[c], r.items, buffer[c])
        BY <2>2, <3>1, <3>2, <4>2
      <4>3. CASE kind[c] # "web" /\ ~isData(kind[c], r.items, buffer[c])
        BY <2>2, <3>1, <3>2, <4>3
      <4> QED
        BY <4>1, <4>2, <4>3
    <3> QED
      BY <1>2, <1>7, <2>1, <3>3 DEF callIsWhole
  <2> QED
    BY <1>h, <2>1, <2>3, <2>4
<1> QED
  BY <1>2, <1>6, <1>8, OneCallSteps

(* The consumer leaves.                                                    *)
LEMMA LeaveKeeps ==
  ASSUME NEW c \in Calls, StreamInv, Leave(c)
  PROVE  StreamInv'
<1>1. OfCalls /\ callIsWhole(c)
  BY DEF StreamInv
<1>2. /\ kind' = kind /\ ask' = ask /\ UNCHANGED <<reply, taken, buffer, out, status>>
      /\ pc[c] = "stream" /\ settle(c, "left")
  BY DEF Leave, tokenVars
<1>3. DOMAIN lines' = Calls /\ \A d \in Calls \ {c} : lines'[d] = lines[d]
  BY <1>1 DEF Leave, OfCalls
<1>4. onlyOf(c)
  BY <1>1, <1>2, <1>3, Settling DEF onlyOf, leavesAlone, OfCalls
<1>5. pc'[c] = "settled" /\ result'[c] = "left"
  BY <1>1, <1>2, Settling
<1>6. isStream(c) => callIsWhole(c)'
  BY <1>1, <1>2, <1>5, SettlingKeepsWhole
<1> QED
  BY <1>2, <1>4, <1>6, OneCallSteps

(* At first nothing has come out.                                          *)
LEMMA WholeAtFirst == Init => StreamInv
<1> SUFFICES ASSUME Init PROVE StreamInv
  OBVIOUS
<1>1. OfCalls
  BY DEF Init, TokenInit, OfCalls
<1>2. ASSUME NEW c \in Calls, isStream(c)
      PROVE  callIsWhole(c)
  <2>1. /\ ask[c].state = "none" /\ pc[c] = "idle" /\ reply[c] = NoReply /\ taken[c] = 0
        /\ buffer[c] = <<>> /\ lines[c] = <<>> /\ out[c] = <<>> /\ status[c] = 0 /\ result[c] = ""
    BY DEF Init, TokenInit, NoAsk
  <2>2. kind[c] \in StreamKinds
    BY <1>2 DEF isStream, StreamKinds
  <2>3. NoReply.items = <<>> /\ NoReply.size = 0 /\ NoReply.ending = "end"
    BY DEF NoReply
  <2>4. Wholeness(kind[c], <<>>, 0, NoReply.early, <<>>, <<>>, "")
    BY <2>2, NothingIsWhole
  <2>5. Whole(kind[c], "idle", NoReply, 0, <<>>, <<>>, <<>>, 0, "")
    BY <2>3, <2>4 DEF Whole
  <2> QED
    BY <2>1, <2>3, <2>5 DEF callIsWhole
<1> QED
  BY <1>1, <1>2 DEF StreamInv, callIsWhole

(* Every step keeps the invariant.                                         *)
LEMMA StepsKeepWhole == StreamInv /\ [Next]_vars => StreamInv'
<1> SUFFICES ASSUME StreamInv, [Next]_vars PROVE StreamInv'
  OBVIOUS
<1>1. CASE UNCHANGED vars
  BY <1>1, OthersKeep
<1>2. CASE TimePasses
  BY <1>2, OthersKeep
<1>3. ASSUME NEW c \in Calls, Client(c)
      PROVE  StreamInv'
  <2>1. CASE Start(c)
    BY <2>1, StartKeeps
  <2>2. CASE TokenArrives(c) \/ RefreshArrives(c) \/ TokenFails(c)
    BY <2>2, TokensKeep
  <2>3. CASE Send(c)
    BY <2>3, SendKeeps
  <2>4. CASE Aborted(c)
    BY <2>4, FailingKeeps DEF Aborted
  <2>5. CASE ReadChunk(c)
    BY <2>5, ReadChunkKeeps
  <2>6. CASE TakeLine(c)
    BY <2>6, TakeLineKeeps
  <2>7. CASE TakeFrame(c)
    BY <2>7, TakeFrameKeeps
  <2>8. CASE EndBody(c)
    BY <2>8, EndBodyKeeps
  <2> QED
    BY <1>3, <2>1, <2>2, <2>3, <2>4, <2>5, <2>6, <2>7, <2>8 DEF Client
<1>4. ASSUME NEW c \in Calls, Endpoint(c) \/ Abort(c)
      PROVE  StreamInv'
  BY <1>4, OthersKeep
<1>5. ASSUME NEW c \in Calls, Respond(c)
      PROVE  StreamInv'
  BY <1>5, RespondKeeps
<1>6. ASSUME NEW c \in Calls, ReadText(c)
      PROVE  StreamInv'
  BY <1>6, ReadTextKeeps
<1>7. ASSUME NEW c \in Calls, DeadlineFires(c)
      PROVE  StreamInv'
  BY <1>7, FailingKeeps DEF DeadlineFires
<1>8. ASSUME NEW c \in Calls, Leave(c)
      PROVE  StreamInv'
  BY <1>8, LeaveKeeps
<1> QED
  BY <1>1, <1>2, <1>3, <1>4, <1>5, <1>6, <1>7, <1>8 DEF Next

(* Whatever the bodies, the chunks that bring them and the moment they     *)
(* break off, a stream yields the server's items whole, once each and in   *)
(* their order, and is done only with all that came in whole               *)
(* (parseStream and grpcFrames, src/generators/tsClient.ts).               *)
THEOREM StreamsAreWhole == Spec => []ItemsAreWhole
<1>1. StreamInv => ItemsAreWhole
  BY DEF StreamInv, callIsWhole, Whole, Wholeness, ItemsAreWhole
<1> QED
  BY <1>1, WholeAtFirst, StepsKeepWhole, PTL DEF Spec

=============================================================================
