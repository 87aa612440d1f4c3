------------------------- MODULE SessionClientProofs -------------------------
(***************************************************************************)
(* Sessions stay of one piece, one that was signed out does not return,    *)
(* and a button is forbidden only when another user's token was sent, for  *)
(* any number of tabs, users and tokens.                                   *)
(***************************************************************************)
EXTENDS SessionClient, TLAPS

\* A session somebody has been given.
Genuine(session) == session.user = issued[session.token]

\* A tab whose login was accepted, and does not know it yet.
Accepted(b) == signing[b].kind = "login" /\ signing[b].answer = "ok"

\* What waits for an answer is of one piece.
SigningWhole ==
    \A b \in Tabs :
        /\ signing[b].kind = "restore" => Genuine(signing[b].cached)
        /\ Accepted(b) => signing[b].token \in Tokens /\ issued[signing[b].token] = signing[b].user

\* Only sessions that were given can be signed out, and none that is being restored has been.
SignedOutBefore ==
    /\ \A t \in signedOut : issued[t] # None
    /\ \A b \in Tabs : signing[b].kind = "restore" => signing[b].cached.token \notin signedOut

\* The token of an accepted login is nowhere else.
OnlyInAnswer ==
    \A b \in Tabs : Accepted(b) =>
        /\ signing[b].token \notin signedOut \cup {stored.token}
        /\ \A d \in Tabs :
              /\ shown[d].token # signing[b].token
              /\ signing[d].kind = "restore" => signing[d].cached.token # signing[b].token
              /\ Accepted(d) /\ d # b => signing[d].token # signing[b].token

\* A call is made with a button its tab offers; it is forbidden to whom the token was given.
CallsOffered ==
    \A b \in Tabs : calling[b] # Idle =>
        /\ Genuine(calling[b].by)
        /\ HasMinimumRole(calling[b].by.user, OfferedTo(calling[b].kind))
        /\ calling[b].answer = "forbidden" =>
              /\ calling[b].token \in Tokens /\ issued[calling[b].token] # None
              /\ ~HasMinimumRole(issued[calling[b].token], Required(calling[b].kind))

Inv == /\ TypeOK /\ Whole /\ SigningWhole /\ SignedOutStaysOut /\ SignedOutBefore
       /\ OnlyInAnswer /\ CallsOffered

LEMMA SigningFields ==
    ASSUME TypeOK, NEW b \in Tabs
    PROVE  /\ signing[b].kind = "restore" =>
                 /\ signing[b] \in Restoring /\ signing[b].cached \in Session
                 /\ signing[b].cached.token \in Tokens /\ signing[b].cached.user \in Users
           /\ signing[b].kind = "login" =>
                 /\ signing[b] \in LoggingIn /\ signing[b].user \in Users
                 /\ signing[b].token \in Tokens \cup {None}
<1>1. signing[b] \in {Idle} \cup Restoring \cup LoggingIn
  BY DEF TypeOK
<1>2. signing[b] = Idle => signing[b].kind = "idle"
  BY DEF Idle
<1>3. signing[b] \in Restoring => signing[b].kind = "restore" /\ signing[b].cached \in Session
  BY DEF Restoring
<1>4. signing[b] \in LoggingIn =>
          /\ signing[b].kind = "login" /\ signing[b].user \in Users
          /\ signing[b].token \in Tokens \cup {None}
  BY DEF LoggingIn
<1>5. \A s \in Session : s.token \in Tokens /\ s.user \in Users
  BY DEF Session
<1> QED  BY <1>1, <1>2, <1>3, <1>4, <1>5

LEMMA SessionFields ==
    /\ \A s \in Session : s.token \in Tokens /\ s.user \in Users /\ s # NoSession
    /\ NoSession.token = None /\ NoSession.user = None
    /\ \A t \in Tokens, u \in Users : [token |-> t, user |-> u] \in Session
    /\ None \notin Tokens /\ None \notin Users
<1>1. None \notin Tokens /\ None \notin Users
  BY SessionClientAssumption
<1>2. NoSession.token = None /\ NoSession.user = None
  BY DEF NoSession
<1>3. \A s \in Session : s.token \in Tokens /\ s.user \in Users
  BY DEF Session
<1>4. \A t \in Tokens, u \in Users : [token |-> t, user |-> u] \in Session
  BY DEF Session
<1>5. \A s \in Session : s # NoSession
  BY <1>1, <1>2, <1>3
<1> QED  BY <1>1, <1>2, <1>3, <1>4, <1>5

\* A token that was given to somebody is given to nobody else.
LEMMA Issued ==
    ASSUME TypeOK, [Next]_vars
    PROVE  \A t \in Tokens : issued[t] # None => issued'[t] = issued[t]
<1>1. ASSUME NEW b \in Tabs, ServeLogin(b)
      PROVE  \A t \in Tokens : issued[t] # None => issued'[t] = issued[t]
  BY <1>1 DEF ServeLogin, TypeOK
<1>2. (\E b \in Tabs : ServeLogin(b)) \/ issued' = issued
  BY DEF Next, Signing, Open, Restore, Enter, ServeSession, Logout, Answered, ServeCall, Login, Call,
     Expire, Finish, vars
<1> QED  BY <1>1, <1>2

LEMMA TypeStep ==
    ASSUME TypeOK, SigningWhole, [Next]_vars
    PROVE  TypeOK'
<1> USE SessionClientAssumption
<1>1. ASSUME NEW b \in Tabs, Open(b)
      PROVE  TypeOK'
  <2>1. stored # NoSession => [kind |-> "restore", cached |-> stored, answer |-> "none"] \in Restoring
    BY DEF TypeOK, Restoring, Answers
  <2>2. signing' \in [Tabs -> {Idle} \cup Restoring \cup LoggingIn]
    BY <1>1, <2>1 DEF Open, TypeOK
  <2>3. calling' \in [Tabs -> {Idle} \cup Calling]
    BY <1>1 DEF Open, TypeOK
  <2> QED  BY <1>1, <2>2, <2>3 DEF Open, TypeOK
<1>2. ASSUME NEW b \in Tabs, Restore(b)
      PROVE  TypeOK'
  <2>1. signing[b].cached.token \in Tokens /\ issued[signing[b].cached.token] \in Users
    BY <1>2, SigningFields DEF Restore, SigningWhole, Genuine
  <2>2. [token |-> signing[b].cached.token, user |-> issued[signing[b].cached.token]] \in Session
    BY <2>1, SessionFields
  <2>3. stored' \in Session \cup {NoSession} /\ shown' = [shown EXCEPT ![b] = stored']
    BY <1>2, <2>2 DEF Restore
  <2>4. shown' \in [Tabs -> Session \cup {NoSession}]
    BY <2>3 DEF TypeOK
  <2>5. stored' \in Session \cup {NoSession}
    BY <2>3
  <2>6. /\ signing' = [signing EXCEPT ![b] = Idle] /\ loading' = [loading EXCEPT ![b] = FALSE]
        /\ UNCHANGED <<issued, valid, calling, signedOut>>
    BY <1>2 DEF Restore, Finish
  <2> QED  BY <2>4, <2>5, <2>6 DEF TypeOK
<1>3. ASSUME NEW b \in Tabs, Enter(b)
      PROVE  TypeOK'
  <2>1. Accepted(b) => [token |-> signing[b].token, user |-> signing[b].user] \in Session
    BY <1>3, SigningFields, SessionFields DEF Enter, SigningWhole, Accepted
  <2>2. \/ /\ Accepted(b)
           /\ stored' = [token |-> signing[b].token, user |-> signing[b].user]
           /\ shown' = [shown EXCEPT ![b] = stored']
        \/ stored' = NoSession /\ UNCHANGED shown
        \/ UNCHANGED <<stored, shown>>
    BY <1>3 DEF Enter, Accepted
  <2>3. stored' \in Session \cup {NoSession} /\ shown' \in [Tabs -> Session \cup {NoSession}]
    <3>1. CASE stored' \in Session /\ shown' = [shown EXCEPT ![b] = stored']
      BY <3>1 DEF TypeOK
    <3>2. CASE stored' \in {NoSession, stored} /\ shown' = shown
      BY <3>2 DEF TypeOK
    <3> QED  BY <2>1, <2>2, <3>1, <3>2
  <2> QED  BY <1>3, <2>3 DEF Enter, Finish, TypeOK
<1>4. ASSUME NEW b \in Tabs, ServeSession(b)
      PROVE  TypeOK'
  <2>1. PICK answer \in Answers : signing' = [signing EXCEPT ![b].answer = answer]
    BY <1>4 DEF ServeSession, Answers
  <2>2. [signing[b] EXCEPT !.answer = answer] \in Restoring
    BY <1>4, SigningFields DEF ServeSession, Restoring
  <2>3. signing' \in [Tabs -> {Idle} \cup Restoring \cup LoggingIn]
    BY <2>1, <2>2 DEF TypeOK
  <2> QED  BY <1>4, <2>3 DEF ServeSession, TypeOK
<1>5. ASSUME NEW b \in Tabs, ServeLogin(b)
      PROVE  TypeOK'
  <2>1. signing[b] \in LoggingIn /\ signing[b].user \in Users
    BY <1>5, SigningFields DEF ServeLogin
  <2>2. ASSUME NEW t \in Tokens, issued[t] = None,
               issued' = [issued EXCEPT ![t] = signing[b].user], valid' = valid \cup {t},
               signing' = [signing EXCEPT ![b].answer = "ok", ![b].token = t]
        PROVE  TypeOK'
    <3>1. [signing[b] EXCEPT !.answer = "ok", !.token = t] \in LoggingIn
      BY <2>1 DEF LoggingIn, Answers
    <3>2. signing' \in [Tabs -> {Idle} \cup Restoring \cup LoggingIn]
      BY <2>2, <3>1 DEF TypeOK
    <3>3. issued' \in [Tokens -> Users \cup {None}]
      BY <2>1, <2>2 DEF TypeOK
    <3>4. valid' \subseteq {u \in Tokens : issued'[u] # None}
      <4>1. issued'[t] # None
        BY <2>1, <2>2, SessionFields DEF TypeOK
      <4>2. \A u \in Tokens : u # t => issued'[u] = issued[u]
        BY <2>2 DEF TypeOK
      <4>3. \A u \in valid : u \in Tokens /\ issued[u] # None
        BY DEF TypeOK
      <4> QED  BY <2>2, <4>1, <4>2, <4>3
    <3> QED  BY <1>5, <3>2, <3>3, <3>4 DEF ServeLogin, TypeOK
  <2>3. ASSUME NEW answer \in Answers, signing' = [signing EXCEPT ![b].answer = answer],
               UNCHANGED <<issued, valid>>
        PROVE  TypeOK'
    <3>1. [signing[b] EXCEPT !.answer = answer] \in LoggingIn
      BY <2>1 DEF LoggingIn
    <3>2. signing' \in [Tabs -> {Idle} \cup Restoring \cup LoggingIn]
      BY <2>3, <3>1 DEF TypeOK
    <3> QED  BY <1>5, <2>3, <3>2 DEF ServeLogin, TypeOK
  <2> QED  BY <1>5, <2>2, <2>3 DEF ServeLogin, Answers
<1>6. ASSUME NEW b \in Tabs, Logout(b)
      PROVE  TypeOK'
  <2>1. {shown[b].token, stored.token} \ {None} \subseteq Tokens
    BY SessionFields DEF TypeOK
  <2>2. signedOut' \subseteq Tokens
    BY <1>6, <2>1 DEF Logout, TypeOK
  <2> QED  BY <1>6, <2>2 DEF Logout, TypeOK
<1>7. ASSUME NEW b \in Tabs, Answered(b)
      PROVE  TypeOK'
  BY <1>7 DEF Answered, TypeOK
<1>8. ASSUME NEW b \in Tabs, ServeCall(b)
      PROVE  TypeOK'
  <2>1. PICK answer \in {"failed", Decision(calling[b])} :
            calling' = [calling EXCEPT ![b].answer = answer]
    BY <1>8 DEF ServeCall
  <2>2. answer \in Answers
    BY DEF Answers, Decision
  <2>3. calling[b] \in Calling
    BY <1>8 DEF ServeCall, TypeOK
  <2>4. [calling[b] EXCEPT !.answer = answer] \in Calling
    BY <2>2, <2>3 DEF Calling
  <2>5. calling' \in [Tabs -> {Idle} \cup Calling]
    BY <2>1, <2>4 DEF TypeOK
  <2> QED  BY <1>8, <2>5 DEF ServeCall, TypeOK
<1>9. ASSUME NEW b \in Tabs, NEW u \in Users, Login(b, u)
      PROVE  TypeOK'
  <2>1. [kind |-> "login", user |-> u, token |-> None, answer |-> "none"] \in LoggingIn
    BY DEF LoggingIn, Answers
  <2> QED  BY <1>9, <2>1 DEF Login, TypeOK
<1>10. ASSUME NEW b \in Tabs, NEW operation \in Operations, Call(b, operation)
       PROVE  TypeOK'
  <2>1. stored.token \in Tokens \cup {None} /\ shown[b] \in Session
    BY <1>10, SessionFields DEF Call, TypeOK
  <2>2. [kind |-> operation, token |-> stored.token, by |-> shown[b], answer |-> "none"] \in Calling
    BY <2>1 DEF Calling, Answers
  <2> QED  BY <1>10, <2>2 DEF Call, TypeOK
<1>11. ASSUME NEW t \in Tokens, Expire(t)
       PROVE  TypeOK'
  BY <1>11 DEF Expire, TypeOK
<1>12. CASE UNCHANGED vars
  BY <1>12 DEF vars, TypeOK
<1> QED  BY <1>1, <1>2, <1>3, <1>4, <1>5, <1>6, <1>7, <1>8, <1>9, <1>10, <1>11, <1>12 DEF Next, Signing

\* A session that was given to somebody stays so.
LEMMA GivenStays ==
    ASSUME TypeOK, [Next]_vars
    PROVE  \A s \in Session : s.user = issued[s.token] => s.user = issued'[s.token]
  BY Issued, SessionFields

-----------------------------------------------------------------------------
(* The steps, as tabs and storage see them. *)

\* What a step does to the request that tab b waits for.
SigningStep(b) ==
    \/ signing'[b] = signing[b]
    \/ signing'[b] = Idle
    \/ signing'[b].kind = "restore" /\ stored \in Session /\ signing'[b].cached = stored
    \/ signing'[b].kind = "login" /\ signing'[b].answer # "ok"
    \/ /\ signing[b].kind = "restore" /\ signing'[b].kind = "restore"
       /\ signing'[b].cached = signing[b].cached
    \/ /\ signing'[b].kind = "login"
       /\ \E t \in Tokens : /\ issued[t] = None /\ issued'[t] = signing[b].user
                           /\ signing'[b].token = t /\ signing'[b].user = signing[b].user
                           /\ signing[b].user \in Users
       /\ UNCHANGED <<stored, shown, signedOut>>
       /\ \A d \in Tabs : d # b => signing'[d] = signing[d]

LEMMA Signings ==
    ASSUME TypeOK, [Next]_vars, NEW b \in Tabs
    PROVE  SigningStep(b)
<1>1. CASE Open(b)
  BY <1>1, SessionFields DEF Open, SigningStep, TypeOK
<1>2. CASE Restore(b) \/ Enter(b)
  BY <1>2 DEF Restore, Enter, Finish, SigningStep, TypeOK
<1>3. CASE ServeSession(b)
  <2>1. PICK answer : signing' = [signing EXCEPT ![b].answer = answer]
    BY <1>3 DEF ServeSession
  <2>2. signing[b] \in Restoring /\ signing[b].kind = "restore"
    BY <1>3, SigningFields DEF ServeSession
  <2>3. signing'[b] = [signing[b] EXCEPT !.answer = answer]
    BY <2>1 DEF TypeOK
  <2>4. signing'[b].kind = "restore" /\ signing'[b].cached = signing[b].cached
    BY <2>2, <2>3 DEF Restoring
  <2> QED  BY <2>2, <2>4 DEF SigningStep
<1>4. CASE ServeLogin(b)
  <2>1. signing[b] \in LoggingIn /\ signing[b].user \in Users /\ signing[b].kind = "login"
    BY <1>4, SigningFields DEF ServeLogin
  <2>2. ASSUME NEW t \in Tokens, issued[t] = None, issued' = [issued EXCEPT ![t] = signing[b].user],
               signing' = [signing EXCEPT ![b].answer = "ok", ![b].token = t]
        PROVE  SigningStep(b)
    <3>1. signing'[b] = [signing[b] EXCEPT !.answer = "ok", !.token = t]
      BY <2>2 DEF TypeOK
    <3>2. /\ signing'[b].kind = "login" /\ signing'[b].token = t
          /\ signing'[b].user = signing[b].user
      BY <2>1, <3>1 DEF LoggingIn
    <3>3. \A d \in Tabs : d # b => signing'[d] = signing[d]
      BY <2>2 DEF TypeOK
    <3>4. issued'[t] = signing[b].user
      BY <2>2 DEF TypeOK
    <3>5. UNCHANGED <<stored, shown, signedOut>>
      BY <1>4 DEF ServeLogin
    <3> QED  BY <2>1, <2>2, <3>2, <3>3, <3>4, <3>5 DEF SigningStep
  <2>3. ASSUME NEW answer \in {"unauthorized", "failed"}, signing' = [signing EXCEPT ![b].answer = answer]
        PROVE  SigningStep(b)
    <3>1. signing'[b] = [signing[b] EXCEPT !.answer = answer]
      BY <2>3 DEF TypeOK
    <3>2. signing'[b].kind = "login" /\ signing'[b].answer # "ok"
      BY <2>1, <2>3, <3>1 DEF LoggingIn
    <3> QED  BY <3>2 DEF SigningStep
  <2> QED  BY <1>4, <2>2, <2>3 DEF ServeLogin
<1>5. ASSUME NEW u \in Users, Login(b, u)
      PROVE  SigningStep(b)
  <2>1. signing'[b] = [kind |-> "login", user |-> u, token |-> None, answer |-> "none"]
    BY <1>5 DEF Login, TypeOK
  <2> QED  BY <2>1 DEF SigningStep
<1>6. ASSUME NEW d \in Tabs, d # b,
             Open(d) \/ Signing(d) \/ (\E u \in Users : Login(d, u))
      PROVE  signing'[b] = signing[b]
  <2>1. \/ \E x : signing' = [signing EXCEPT ![d] = x]
        \/ \E x : signing' = [signing EXCEPT ![d].answer = x]
        \/ \E x, y : signing' = [signing EXCEPT ![d].answer = x, ![d].token = y]
    BY <1>6 DEF Open, Signing, Restore, Enter, ServeSession, ServeLogin, Login, Finish
  <2> QED  BY <1>6, <2>1 DEF TypeOK
<1>7. ASSUME \/ \E d \in Tabs : Logout(d) \/ Answered(d) \/ ServeCall(d) \/ \E operation \in Operations : Call(d, operation)
             \/ \E t \in Tokens : Expire(t)
             \/ UNCHANGED vars
      PROVE  signing'[b] = signing[b]
  BY <1>7 DEF Logout, Answered, ServeCall, Call, Expire, vars
<1> QED  BY <1>1, <1>2, <1>3, <1>4, <1>5, <1>6, <1>7 DEF Next, Signing, SigningStep

\* What a step does to the sessions in storage and in the signals.
SessionStep ==
    \/ stored' \in {stored, NoSession} /\ \A d \in Tabs : shown'[d] \in {shown[d], stored, NoSession}
    \/ \E b \in Tabs :
          /\ signing[b].kind = "restore" \/ Accepted(b)
          /\ stored' \in Session
          /\ signing[b].kind = "restore" => stored'.token = signing[b].cached.token
          /\ Accepted(b) => stored'.token = signing[b].token
          /\ stored'.user = issued[stored'.token]
          /\ \A d \in Tabs : shown'[d] \in {shown[d], stored'}
          /\ signing'[b] = Idle
          /\ UNCHANGED <<issued, signedOut>>

LEMMA Sessions ==
    ASSUME TypeOK, SigningWhole, [Next]_vars
    PROVE  SessionStep
<1>1. ASSUME NEW b \in Tabs, Restore(b)
      PROVE  SessionStep
  <2>1. CASE signing[b].answer = "ok"
    <3> DEFINE next == [token |-> signing[b].cached.token, user |-> issued[signing[b].cached.token]]
    <3>1. stored' = next /\ shown' = [shown EXCEPT ![b] = next] /\ signing' = [signing EXCEPT ![b] = Idle]
      BY <1>1, <2>1 DEF Restore, Finish
    <3>2. signing[b].cached.token \in Tokens /\ issued[signing[b].cached.token] \in Users
      BY <1>1, SigningFields DEF Restore, SigningWhole, Genuine
    <3>3. next \in Session /\ next.token = signing[b].cached.token /\ next.user = issued[next.token]
      BY <3>2, SessionFields
    <3>4. signing[b].kind = "restore" /\ ~Accepted(b) /\ UNCHANGED <<issued, signedOut>>
      BY <1>1 DEF Restore, Accepted
    <3>5. \A d \in Tabs : shown'[d] \in {shown[d], stored'}
      BY <3>1 DEF TypeOK
    <3>6. signing'[b] = Idle
      BY <3>1 DEF TypeOK
    <3> HIDE DEF next
    <3> QED  BY <3>1, <3>3, <3>4, <3>5, <3>6 DEF SessionStep
  <2>2. CASE signing[b].answer # "ok"
    <3>1. stored' = NoSession /\ shown' = [shown EXCEPT ![b] = NoSession]
      BY <1>1, <2>2 DEF Restore
    <3> QED  BY <3>1 DEF SessionStep, TypeOK
  <2> QED  BY <2>1, <2>2
<1>2. ASSUME NEW b \in Tabs, Enter(b)
      PROVE  SessionStep
  <2>1. CASE Accepted(b)
    <3> DEFINE next == [token |-> signing[b].token, user |-> signing[b].user]
    <3>1. stored' = next /\ shown' = [shown EXCEPT ![b] = next] /\ signing' = [signing EXCEPT ![b] = Idle]
      BY <1>2, <2>1 DEF Enter, Finish, Accepted
    <3>2. next \in Session /\ next.token = signing[b].token /\ next.user = issued[next.token]
      BY <2>1, SigningFields, SessionFields DEF SigningWhole, Accepted
    <3>3. signing[b].kind # "restore" /\ UNCHANGED <<issued, signedOut>>
      BY <1>2 DEF Enter
    <3>4. \A d \in Tabs : shown'[d] \in {shown[d], stored'}
      BY <3>1 DEF TypeOK
    <3>5. signing'[b] = Idle
      BY <3>1 DEF TypeOK
    <3> HIDE DEF next
    <3> QED  BY <2>1, <3>1, <3>2, <3>3, <3>4, <3>5 DEF SessionStep
  <2>2. CASE ~Accepted(b)
    <3>1. stored' \in {stored, NoSession} /\ UNCHANGED shown
      BY <1>2, <2>2 DEF Enter, Accepted
    <3> QED  BY <3>1 DEF SessionStep
  <2> QED  BY <2>1, <2>2
<1>3. ASSUME NEW b \in Tabs, Open(b) \/ Logout(b)
      PROVE  SessionStep
  <2>1. /\ stored' \in {stored, NoSession}
        /\ \/ shown' = [shown EXCEPT ![b] = stored]
           \/ shown' = [shown EXCEPT ![b] = NoSession]
    BY <1>3 DEF Open, Logout
  <2> QED  BY <2>1 DEF SessionStep, TypeOK
<1>4. ASSUME NEW b \in Tabs, Answered(b)
      PROVE  SessionStep
  BY <1>4 DEF Answered, SessionStep
<1>5. ASSUME \/ \E b \in Tabs : \/ ServeSession(b) \/ ServeLogin(b) \/ ServeCall(b)
                                \/ \E u \in Users : Login(b, u)
                                \/ \E operation \in Operations : Call(b, operation)
             \/ \E t \in Tokens : Expire(t)
             \/ UNCHANGED vars
      PROVE  UNCHANGED <<stored, shown>>
  BY <1>5 DEF ServeSession, ServeLogin, ServeCall, Login, Call, Expire, vars
<1>6. CASE UNCHANGED <<stored, shown>>
  BY <1>6 DEF SessionStep
<1> QED  BY <1>1, <1>2, <1>3, <1>4, <1>5, <1>6 DEF Next, Signing

\* Signing out is a step of its own.
LEMMA SigningOut ==
    ASSUME TypeOK, [Next]_vars
    PROVE  \/ signedOut' = signedOut
           \/ \E b \in Tabs : /\ Logout(b) /\ UNCHANGED <<issued, signing>> /\ stored' = NoSession
                              /\ \A d \in Tabs : shown'[d] \in {shown[d], NoSession}
<1>1. ASSUME NEW b \in Tabs, Logout(b)
      PROVE  /\ Logout(b) /\ UNCHANGED <<issued, signing>> /\ stored' = NoSession
             /\ \A d \in Tabs : shown'[d] \in {shown[d], NoSession}
  BY <1>1 DEF Logout, TypeOK
<1>2. signedOut' = signedOut \/ \E b \in Tabs : Logout(b)
  BY DEF Next, Signing, Open, Restore, Enter, ServeSession, ServeLogin, Answered, ServeCall, Login, Call,
     Expire, vars
<1> QED  BY <1>1, <1>2

-----------------------------------------------------------------------------
(* The invariants, one by one. *)

LEMMA WholeStep ==
    ASSUME TypeOK, Whole, SigningWhole, [Next]_vars
    PROVE  Whole'
<1>1. ASSUME NEW session \in {stored} \cup {shown[b] : b \in Tabs}, session # NoSession
      PROVE  session.user = issued'[session.token]
  <2>1. session \in Session
    BY <1>1 DEF TypeOK
  <2> QED  BY <1>1, <2>1, GivenStays DEF Whole
<1>2. CASE stored' \in {stored, NoSession} /\ \A d \in Tabs : shown'[d] \in {shown[d], stored, NoSession}
  BY <1>1, <1>2 DEF Whole
<1>3. CASE /\ stored'.user = issued'[stored'.token]
           /\ \A d \in Tabs : shown'[d] \in {shown[d], stored'}
  BY <1>1, <1>3 DEF Whole
<1> QED  BY <1>2, <1>3, Sessions DEF SessionStep

LEMMA SigningWholeStep ==
    ASSUME TypeOK, Whole, SigningWhole, [Next]_vars
    PROVE  SigningWhole'
<1> SUFFICES ASSUME NEW b \in Tabs
             PROVE  /\ signing'[b].kind = "restore" => Genuine(signing[b].cached)'
                    /\ Accepted(b)' => /\ signing'[b].token \in Tokens
                                       /\ issued'[signing'[b].token] = signing'[b].user
  BY DEF SigningWhole
<1>1. signing[b].kind = "restore" => signing[b].cached.user = issued'[signing[b].cached.token]
  BY SigningFields, GivenStays DEF SigningWhole, Genuine
<1>2. Accepted(b) => /\ signing[b].token \in Tokens
                     /\ issued'[signing[b].token] = signing[b].user
  BY SigningFields, SessionFields, Issued DEF SigningWhole, Accepted
<1>3. stored \in Session => stored.user = issued'[stored.token]
  BY SessionFields, GivenStays DEF Whole
<1>4. Idle.kind = "idle"
  BY DEF Idle
<1> QED  BY <1>1, <1>2, <1>3, <1>4, Signings DEF SigningStep, Accepted, Genuine

LEMMA SignedOutStep ==
    ASSUME TypeOK, Whole, SigningWhole, SignedOutStaysOut, SignedOutBefore, OnlyInAnswer, [Next]_vars
    PROVE  SignedOutStaysOut' /\ SignedOutBefore'
<1>1. CASE signedOut' = signedOut
  <2>1. NoSession.token \notin signedOut
    BY SessionFields DEF TypeOK
  <2>2. stored'.token \notin signedOut
    BY <2>1, Sessions DEF SessionStep, SignedOutStaysOut, SignedOutBefore, OnlyInAnswer
  <2>3. \A t \in signedOut : issued'[t] # None
    BY Issued DEF SignedOutBefore, TypeOK
  <2>4. ASSUME NEW b \in Tabs, signing'[b].kind = "restore"
        PROVE  signing'[b].cached.token \notin signedOut
    BY <2>4, Signings DEF SigningStep, SignedOutBefore, SignedOutStaysOut, Idle
  <2> QED  BY <1>1, <2>2, <2>3, <2>4 DEF SignedOutStaysOut, SignedOutBefore
<1>2. ASSUME NEW b \in Tabs, Logout(b), UNCHANGED <<issued, signing>>, stored' = NoSession
      PROVE  SignedOutStaysOut' /\ SignedOutBefore'
  <2> DEFINE out == {t \in {shown[b].token, stored.token} \ {None} : ~BeingRestored(t)}
  <2>1. signedOut' = signedOut \cup out
    BY <1>2 DEF Logout
  <2>2. \A t \in out : t # None /\ ~BeingRestored(t) /\ issued[t] # None
    <3>1. \A session \in {shown[b], stored} : session.token # None => issued[session.token] # None
      BY SessionFields DEF TypeOK, Whole
    <3> QED  BY <3>1
  <2> HIDE DEF out
  <2>3. stored'.token \notin signedOut'
    BY <1>2, <2>1, <2>2, SessionFields DEF TypeOK
  <2>4. \A d \in Tabs : signing[d].kind = "restore" => signing[d].cached.token \notin signedOut'
    BY <2>1, <2>2 DEF BeingRestored, SignedOutBefore
  <2> QED  BY <1>2, <2>1, <2>2, <2>3, <2>4 DEF SignedOutStaysOut, SignedOutBefore
<1> QED  BY <1>1, <1>2, SigningOut

\* Tokens in use have been given to somebody.
LEMMA InUse ==
    ASSUME TypeOK, Whole, SigningWhole
    PROVE  /\ stored.token # None => issued[stored.token] # None
           /\ \A d \in Tabs :
                 /\ shown[d].token # None => issued[shown[d].token] # None
                 /\ signing[d].kind = "restore" => issued[signing[d].cached.token] # None
                 /\ Accepted(d) => signing[d].token \in Tokens /\ issued[signing[d].token] # None
<1>1. \A session \in {stored} \cup {shown[b] : b \in Tabs} :
          session.token # None => issued[session.token] # None
  BY SessionFields DEF TypeOK, Whole
<1>2. \A d \in Tabs :
          /\ signing[d].kind = "restore" => issued[signing[d].cached.token] # None
          /\ Accepted(d) => signing[d].token \in Tokens /\ issued[signing[d].token] # None
  BY SigningFields, SessionFields DEF SigningWhole, Genuine, Accepted
<1> QED  BY <1>1, <1>2

LEMMA OnlyInAnswerStep ==
    ASSUME TypeOK, Whole, SigningWhole, SignedOutBefore, OnlyInAnswer, [Next]_vars
    PROVE  OnlyInAnswer'
<1> SUFFICES ASSUME NEW b \in Tabs, Accepted(b)'
             PROVE  /\ signing'[b].token \notin signedOut' \cup {stored'.token}
                    /\ \A d \in Tabs :
                          /\ shown'[d].token # signing'[b].token
                          /\ signing'[d].kind = "restore" => signing'[d].cached.token # signing'[b].token
                          /\ Accepted(d)' /\ d # b => signing'[d].token # signing'[b].token
  BY DEF OnlyInAnswer
<1> DEFINE t == signing'[b].token
<1>0. NoSession.token = None /\ None \notin Tokens
  BY SessionFields
<1>1. CASE signing'[b] = signing[b]
  <2>1. Accepted(b) /\ t \in Tokens /\ t = signing[b].token /\ issued[t] # None /\ t # None
    BY <1>0, <1>1, InUse DEF Accepted
  <2>2. t \notin signedOut'
    <3>1. CASE signedOut' = signedOut
      BY <2>1, <3>1 DEF OnlyInAnswer
    <3>2. ASSUME NEW d \in Tabs, Logout(d)
          PROVE  t \notin signedOut'
      BY <2>1, <3>2 DEF OnlyInAnswer, Logout
    <3> QED  BY <3>1, <3>2, SigningOut
  <2>3. stored'.token # t /\ \A d \in Tabs : shown'[d].token # t
    <3>1. stored.token # t /\ \A d \in Tabs : shown[d].token # t
      BY <2>1 DEF OnlyInAnswer
    <3>2. CASE stored' \in {stored, NoSession} /\ \A d \in Tabs : shown'[d] \in {shown[d], stored, NoSession}
      BY <1>0, <2>1, <3>1, <3>2
    <3>3. ASSUME NEW d \in Tabs, signing[d].kind = "restore" \/ Accepted(d),
                 signing[d].kind = "restore" => stored'.token = signing[d].cached.token,
                 Accepted(d) => stored'.token = signing[d].token,
                 signing'[d] = Idle,
                 \A e \in Tabs : shown'[e] \in {shown[e], stored'}
          PROVE  stored'.token # t /\ \A e \in Tabs : shown'[e].token # t
      <4>1. d # b
        BY <1>1, <2>1, <3>3 DEF Accepted, Idle
      <4>2. stored'.token # t
        BY <2>1, <3>3, <4>1 DEF OnlyInAnswer
      <4> QED  BY <3>1, <3>3, <4>2
    <3> QED  BY <3>2, <3>3, Sessions DEF SessionStep
  <2>4. ASSUME NEW d \in Tabs, signing'[d].kind = "restore"
        PROVE  signing'[d].cached.token # t
    BY <2>1, <2>4, Signings DEF SigningStep, OnlyInAnswer, Idle
  <2>5. ASSUME NEW d \in Tabs, Accepted(d)', d # b
        PROVE  signing'[d].token # t
    BY <2>1, <2>5, Signings DEF SigningStep, OnlyInAnswer, Accepted, Idle
  <2> QED  BY <2>2, <2>3, <2>4, <2>5
<1>2. CASE /\ \E u \in Tokens : issued[u] = None /\ signing'[b].token = u
           /\ UNCHANGED <<stored, shown, signedOut>>
           /\ \A d \in Tabs : d # b => signing'[d] = signing[d]
  <2>1. t \in Tokens /\ issued[t] = None
    BY <1>2
  <2>2. t \notin signedOut' \cup {stored'.token} /\ \A d \in Tabs : shown'[d].token # t
    BY <1>0, <1>2, <2>1, InUse DEF SignedOutBefore
  <2>3. signing'[b].kind # "restore"
    BY DEF Accepted
  <2>4. ASSUME NEW d \in Tabs, d # b
        PROVE  /\ signing'[d].kind = "restore" => signing'[d].cached.token # t
               /\ Accepted(d)' => signing'[d].token # t
    BY <1>2, <2>1, <2>4, InUse DEF Accepted
  <2> QED  BY <2>2, <2>3, <2>4
<1> QED  BY <1>1, <1>2, Signings DEF SigningStep, Accepted, Idle

LEMMA CallsOfferedStep ==
    ASSUME TypeOK, Whole, CallsOffered, [Next]_vars
    PROVE  CallsOffered'
<1> SUFFICES ASSUME NEW b \in Tabs, calling'[b] # Idle
             PROVE  /\ Genuine(calling[b].by)'
                    /\ HasMinimumRole(calling'[b].by.user, OfferedTo(calling'[b].kind))
                    /\ calling'[b].answer = "forbidden" =>
                          /\ calling'[b].token \in Tokens /\ issued'[calling'[b].token] # None
                          /\ ~HasMinimumRole(issued'[calling'[b].token], Required(calling'[b].kind))
  BY DEF CallsOffered
<1>1. CASE calling'[b] = calling[b]
  <2>1. calling[b] \in Calling /\ calling[b].by \in Session
    BY <1>1 DEF TypeOK, Calling
  <2>2. calling[b].by.user = issued'[calling[b].by.token]
    BY <1>1, <2>1, GivenStays DEF CallsOffered, Genuine
  <2> QED  BY <1>1, <2>2, Issued DEF CallsOffered, Genuine
<1>2. ASSUME NEW operation \in Operations, Call(b, operation)
      PROVE  /\ Genuine(calling[b].by)'
             /\ HasMinimumRole(calling'[b].by.user, OfferedTo(calling'[b].kind))
             /\ calling'[b].answer # "forbidden"
  <2>1. calling'[b] = [kind |-> operation, token |-> stored.token, by |-> shown[b], answer |-> "none"]
    BY <1>2 DEF Call, TypeOK
  <2>2. shown[b].user = issued[shown[b].token] /\ issued' = issued
    BY <1>2 DEF Call, Whole
  <2>3. HasMinimumRole(shown[b].user, OfferedTo(operation))
    BY <1>2 DEF Call
  <2> QED  BY <2>1, <2>2, <2>3 DEF Genuine
<1>3. CASE ServeCall(b)
  <2>1. PICK answer \in {"failed", Decision(calling[b])} : calling' = [calling EXCEPT ![b].answer = answer]
    BY <1>3 DEF ServeCall
  <2>2. calling[b] \in Calling /\ calling[b] # Idle /\ issued' = issued
    BY <1>3 DEF ServeCall, TypeOK
  <2>3. calling'[b] = [calling[b] EXCEPT !.answer = answer]
    BY <2>1 DEF TypeOK
  <2>4. /\ calling'[b].kind = calling[b].kind /\ calling'[b].by = calling[b].by
        /\ calling'[b].token = calling[b].token /\ calling'[b].answer = answer
    BY <2>2, <2>3 DEF Calling
  <2>5. answer = "forbidden" =>
            /\ calling[b].token \in Tokens /\ issued[calling[b].token] # None
            /\ ~HasMinimumRole(issued[calling[b].token], Required(calling[b].kind))
    BY <2>1 DEF Decision, TypeOK
  <2> QED  BY <2>2, <2>4, <2>5 DEF CallsOffered, Genuine
<1>4. ASSUME NEW d \in Tabs, NEW x,
             \/ calling' = [calling EXCEPT ![d] = x] /\ d # b
             \/ calling' = [calling EXCEPT ![d].answer = x] /\ d # b
             \/ calling' = [calling EXCEPT ![d] = Idle]
      PROVE  calling'[b] = calling[b] \/ calling'[b] = Idle
  BY <1>4 DEF TypeOK
<1>5. ASSUME NEW d \in Tabs, Open(d) \/ Answered(d)
      PROVE  calling' = [calling EXCEPT ![d] = Idle]
  BY <1>5 DEF Open, Answered
<1>6. ASSUME NEW d \in Tabs, ServeCall(d)
      PROVE  \E x : calling' = [calling EXCEPT ![d].answer = x]
  BY <1>6 DEF ServeCall
<1>7. ASSUME NEW d \in Tabs, NEW operation \in Operations, Call(d, operation)
      PROVE  \E x : calling' = [calling EXCEPT ![d] = x]
  BY <1>7 DEF Call
<1>8. ASSUME \/ \E d \in Tabs : Signing(d) \/ Logout(d) \/ \E u \in Users : Login(d, u)
             \/ \E t \in Tokens : Expire(t)
             \/ UNCHANGED vars
      PROVE  calling' = calling
  BY <1>8 DEF Signing, Restore, Enter, ServeSession, ServeLogin, Logout, Login, Expire, vars
<1> QED  BY <1>1, <1>2, <1>3, <1>4, <1>5, <1>6, <1>7, <1>8 DEF Next

-----------------------------------------------------------------------------
\* The invariant that carries the properties below.
THEOREM Invariance == Spec => []Inv
<1>1. Init => Inv
  <2> SUFFICES ASSUME Init PROVE Inv
    OBVIOUS
  <2>1. TypeOK
    BY DEF Init, TypeOK
  <2>2. /\ \A b \in Tabs : signing[b] = Idle /\ calling[b] = Idle /\ shown[b] = NoSession
        /\ stored = NoSession /\ signedOut = {}
    BY DEF Init
  <2>3. Idle.kind = "idle"
    BY DEF Idle
  <2> QED  BY <2>1, <2>2, <2>3 DEF Inv, Whole, SigningWhole, SignedOutStaysOut, SignedOutBefore,
              OnlyInAnswer, CallsOffered, Accepted
<1>2. Inv /\ [Next]_vars => Inv'
  BY TypeStep, WholeStep, SigningWholeStep, SignedOutStep, OnlyInAnswerStep, CallsOfferedStep DEF Inv
<1> QED  BY <1>1, <1>2, PTL DEF Spec

\* Every state has the types the module declares.
THEOREM TypeCorrect == Spec => []TypeOK
  BY Invariance, PTL DEF Inv

\* Sessions in storage and in the signals carry the user of their token, whichever answers to
\* restores and logins of however many tabs overlap.
THEOREM SessionsAreWhole == Spec => []Whole
  BY Invariance, PTL DEF Inv

\* A session that was signed out does not come back to storage, unless it was being restored.
THEOREM SignedOutForGood == Spec => []SignedOutStaysOut
  BY Invariance, PTL DEF Inv

\* What the pages offer, for all roles and kinds of requests, is what the routes allow.
THEOREM NothingForbiddenIsOffered == Spec => []OfferedIsAllowed
<1>1. \A operation \in Operations : OfferedTo(operation) = Required(operation)
  BY DEF OfferedTo, Required
<1>2. Inv => OfferedIsAllowed
  <2> SUFFICES ASSUME Inv, NEW b \in Tabs, calling[b] # Idle, calling[b].answer = "forbidden",
                      calling[b].by.token = calling[b].token
               PROVE  FALSE
    BY DEF OfferedIsAllowed
  <2>1. calling[b].kind \in Operations
    BY DEF Inv, TypeOK, Calling
  <2>2. calling[b].by.user = issued[calling[b].token]
    BY DEF Inv, CallsOffered, Genuine
  <2> QED  BY <1>1, <2>1, <2>2 DEF Inv, CallsOffered
<1> QED  BY <1>2, Invariance, PTL
=============================================================================
