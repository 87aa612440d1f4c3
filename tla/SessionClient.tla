--------------------------- MODULE SessionClient ---------------------------
(***************************************************************************)
(* Sessions of the workbench: tabs of a browser share one session in local *)
(* storage, each keeps a copy of it in a signal for its guards and buttons *)
(* and sends the token of the one in storage.  Answers arrive whenever     *)
(* they do; meanwhile other tabs sign in and out, and tokens expire.       *)
(***************************************************************************)
EXTENDS Naturals

CONSTANTS
    Tabs,
    Users,
    RoleOf,         \* RoleOf[u]: the role of user u
    Tokens,         \* bound: tokens that logins may issue
    Operations,     \* what pages ask the backend for
    None

Rank == [viewer |-> 1, operator |-> 2, reviewer |-> 3, admin |-> 4]
Roles == DOMAIN Rank

ASSUME SessionClientAssumption ==
    /\ \A u \in Users : RoleOf[u] \in Roles
    /\ None \notin Tokens \cup Users
    /\ Operations \subseteq {"list", "create", "transition manifest", "transition permit", "audits"}

VARIABLES
    issued,     \* issued[t]: the user in the claims of token t, or None
    valid,      \* tokens that have not expired
    stored,     \* the session in local storage, or NoSession
    shown,      \* shown[b]: the signal of tab b
    loading,    \* loading[b]: tab b shows only that it is busy
    signing,    \* signing[b]: restore or login of tab b that waits for its answer
    calling,    \* calling[b]: another request of tab b
    signedOut   \* tokens signed out while no tab was restoring them; only a property reads it

vars == <<issued, valid, stored, shown, loading, signing, calling, signedOut>>

Session == [token : Tokens, user : Users]
NoSession == [token |-> None, user |-> None]

\* What a request waits for; "unauthorized" and "forbidden" are the answers 401 and 403.
Answers == {"none", "ok", "unauthorized", "forbidden", "failed"}

Idle == [kind |-> "idle"]
Restoring == [kind : {"restore"}, cached : Session, answer : Answers]
LoggingIn == [kind : {"login"}, user : Users, token : Tokens \cup {None}, answer : Answers]
Calling == [kind : Operations, token : Tokens \cup {None}, by : Session, answer : Answers]

Init ==
    /\ issued = [t \in Tokens |-> None]
    /\ valid = {}
    /\ stored = NoSession
    /\ shown = [b \in Tabs |-> NoSession]
    /\ loading = [b \in Tabs |-> FALSE]
    /\ signing = [b \in Tabs |-> Idle]
    /\ calling = [b \in Tabs |-> Idle]
    /\ signedOut = {}

-----------------------------------------------------------------------------
(* Roles: what the routes of the backend require, and what the pages offer. *)

\* RequireMinimumRole of each route: Register of the four handlers, and router.go:53-57 for the audits.
Required(operation) ==
    CASE operation = "list" -> "viewer"
      [] operation \in {"create", "transition manifest"} -> "operator"
      [] operation \in {"transition permit", "audits"} -> "reviewer"

\* Slip: permits are offered as manifests are.
OfferedToOperators(operation) ==
    CASE operation = "list" -> "viewer"
      [] operation \in {"create", "transition manifest", "transition permit"} -> "operator"
      [] operation = "audits" -> "reviewer"

\* transitionRole of the entity configurations, the create button, the guard of the audit page.
OfferedTo(operation) ==
    CASE operation = "list" -> "viewer"
      [] operation \in {"create", "transition manifest"} -> "operator"
      [] operation \in {"transition permit", "audits"} -> "reviewer"

HasMinimumRole(user, role) == Rank[RoleOf[user]] >= Rank[role]

-----------------------------------------------------------------------------
(* A tab. *)

\* The page is loaded: the signal is read from storage, and a session there is to be confirmed.
Open(b) ==
    /\ shown' = [shown EXCEPT ![b] = stored]
    /\ loading' = [loading EXCEPT ![b] = stored # NoSession]
    /\ signing' = [signing EXCEPT ![b] =
           IF stored = NoSession THEN Idle
           ELSE [kind |-> "restore", cached |-> stored, answer |-> "none"]]
    /\ calling' = [calling EXCEPT ![b] = Idle]
    /\ UNCHANGED <<issued, valid, stored, signedOut>>

Finish(b) ==
    /\ signing' = [signing EXCEPT ![b] = Idle]
    /\ loading' = [loading EXCEPT ![b] = FALSE]

\* Slip: the answer is joined to the session that is in storage when it arrives.
RestoreLate(b) ==
    /\ signing[b].kind = "restore" /\ signing[b].answer # "none"
    /\ LET next == IF signing[b].answer = "ok" /\ stored # NoSession
                   THEN [token |-> stored.token, user |-> issued[signing[b].cached.token]]
                   ELSE NoSession IN
       stored' = next /\ shown' = [shown EXCEPT ![b] = next]
    /\ Finish(b)
    /\ UNCHANGED <<issued, valid, calling, signedOut>>

\* Slip: the failure is stored like an answer, without a user.
RestoreUnchecked(b) ==
    /\ signing[b].kind = "restore" /\ signing[b].answer # "none"
    /\ LET next == [token |-> signing[b].cached.token,
                    user |-> IF signing[b].answer = "ok" THEN signing[b].cached.user ELSE None] IN
       stored' = next /\ shown' = [shown EXCEPT ![b] = next]
    /\ Finish(b)
    /\ UNCHANGED <<issued, valid, calling, signedOut>>

\* restore: the answer is joined to the session read before; any failure signs out.
Restore(b) ==
    /\ signing[b].kind = "restore" /\ signing[b].answer # "none"
    /\ LET next == IF signing[b].answer = "ok"
                   THEN [token |-> signing[b].cached.token, user |-> issued[signing[b].cached.token]]
                   ELSE NoSession IN
       stored' = next /\ shown' = [shown EXCEPT ![b] = next]
    /\ Finish(b)
    /\ UNCHANGED <<issued, valid, calling, signedOut>>

\* The login page is open to those who are not signed in.
Login(b, u) ==
    /\ shown[b] = NoSession /\ ~loading[b] /\ signing[b] = Idle
    /\ signing' = [signing EXCEPT ![b] =
           [kind |-> "login", user |-> u, token |-> None, answer |-> "none"]]
    /\ loading' = [loading EXCEPT ![b] = TRUE]
    /\ UNCHANGED <<issued, valid, stored, shown, calling, signedOut>>

\* Slip: a login that fails leaves the page busy.
EnterIfAccepted(b) ==
    /\ signing[b].kind = "login" /\ signing[b].answer = "ok"
    /\ LET next == [token |-> signing[b].token, user |-> signing[b].user] IN
       stored' = next /\ shown' = [shown EXCEPT ![b] = next]
    /\ Finish(b)
    /\ UNCHANGED <<issued, valid, calling, signedOut>>

\* The answer to a login.  A refused one is a 401 like any other and clears the storage.
Enter(b) ==
    /\ signing[b].kind = "login" /\ signing[b].answer # "none"
    /\ LET next == [token |-> signing[b].token, user |-> signing[b].user] IN
       CASE signing[b].answer = "ok" -> stored' = next /\ shown' = [shown EXCEPT ![b] = next]
         [] signing[b].answer = "unauthorized" -> stored' = NoSession /\ UNCHANGED shown
         [] OTHER -> UNCHANGED <<stored, shown>>
    /\ Finish(b)
    /\ UNCHANGED <<issued, valid, calling, signedOut>>

BeingRestored(t) == \E b \in Tabs : signing[b].kind = "restore" /\ signing[b].cached.token = t

\* Slip: the tab forgets the session, the storage keeps it.
LogoutOfTab(b) ==
    /\ shown[b] # NoSession /\ ~loading[b]
    /\ shown' = [shown EXCEPT ![b] = NoSession]
    /\ signedOut' = signedOut \cup {t \in {shown[b].token, stored.token} \ {None} : ~BeingRestored(t)}
    /\ UNCHANGED <<issued, valid, stored, loading, signing, calling>>

\* logout: the session in storage goes, whoever's it is; other tabs keep showing theirs.
Logout(b) ==
    /\ shown[b] # NoSession /\ ~loading[b]
    /\ stored' = NoSession
    /\ shown' = [shown EXCEPT ![b] = NoSession]
    /\ signedOut' = signedOut \cup {t \in {shown[b].token, stored.token} \ {None} : ~BeingRestored(t)}
    /\ UNCHANGED <<issued, valid, loading, signing, calling>>

\* A page asks for data, or a button is pressed; the token is the one in storage.
Call(b, operation) ==
    /\ shown[b] # NoSession /\ ~loading[b] /\ calling[b] = Idle
    /\ HasMinimumRole(shown[b].user, OfferedTo(operation))
    /\ calling' = [calling EXCEPT ![b] =
           [kind |-> operation, token |-> stored.token, by |-> shown[b], answer |-> "none"]]
    /\ UNCHANGED <<issued, valid, stored, shown, loading, signing, signedOut>>

\* The answer to a call.  401 clears the storage, but not the signal.
Answered(b) ==
    /\ calling[b] # Idle /\ calling[b].answer # "none"
    /\ stored' = IF calling[b].answer = "unauthorized" THEN NoSession ELSE stored
    /\ calling' = [calling EXCEPT ![b] = Idle]
    /\ UNCHANGED <<issued, valid, shown, loading, signing, signedOut>>

-----------------------------------------------------------------------------
(* The backend. *)

\* GET /session, for the session that is to be restored.
ServeSession(b) ==
    /\ signing[b].kind = "restore" /\ signing[b].answer = "none"
    /\ \E answer \in {"failed", IF signing[b].cached.token \in valid THEN "ok" ELSE "unauthorized"} :
          signing' = [signing EXCEPT ![b].answer = answer]
    /\ UNCHANGED <<issued, valid, stored, shown, loading, calling, signedOut>>

\* POST /auth/login: a new token, or none.
ServeLogin(b) ==
    /\ signing[b].kind = "login" /\ signing[b].answer = "none"
    /\ \/ \E t \in Tokens :
             /\ issued[t] = None
             /\ issued' = [issued EXCEPT ![t] = signing[b].user]
             /\ valid' = valid \cup {t}
             /\ signing' = [signing EXCEPT ![b].answer = "ok", ![b].token = t]
       \/ \E answer \in {"unauthorized", "failed"} :
             /\ signing' = [signing EXCEPT ![b].answer = answer]
             /\ UNCHANGED <<issued, valid>>
    /\ UNCHANGED <<stored, shown, loading, calling, signedOut>>

\* Authenticate, RequireMinimumRole, and the handler, which may fail.
Decision(call) ==
    IF call.token \notin valid THEN "unauthorized"
    ELSE IF ~HasMinimumRole(issued[call.token], Required(call.kind)) THEN "forbidden"
    ELSE "ok"

ServeCall(b) ==
    /\ calling[b] # Idle /\ calling[b].answer = "none"
    /\ \E answer \in {"failed", Decision(calling[b])} :
          calling' = [calling EXCEPT ![b].answer = answer]
    /\ UNCHANGED <<issued, valid, stored, shown, loading, signing, signedOut>>

Expire(t) ==
    /\ t \in valid
    /\ valid' = valid \ {t}
    /\ UNCHANGED <<issued, stored, shown, loading, signing, calling, signedOut>>

Signing(b) == Restore(b) \/ Enter(b) \/ ServeSession(b) \/ ServeLogin(b)

Next ==
    \/ \E b \in Tabs :
          \/ Open(b) \/ Signing(b) \/ Logout(b) \/ Answered(b) \/ ServeCall(b)
          \/ \E u \in Users : Login(b, u)
          \/ \E operation \in Operations : Call(b, operation)
    \/ \E t \in Tokens : Expire(t)

Spec == Init /\ [][Next]_vars

\* Every request is answered in the end, if only by a failure, and its promise is continued.
FairSpec == Spec /\ \A b \in Tabs : WF_vars(Signing(b))

-----------------------------------------------------------------------------
TypeOK ==
    /\ issued \in [Tokens -> Users \cup {None}]
    /\ valid \subseteq {t \in Tokens : issued[t] # None}
    /\ stored \in Session \cup {NoSession}
    /\ shown \in [Tabs -> Session \cup {NoSession}]
    /\ loading \in [Tabs -> BOOLEAN]
    /\ signing \in [Tabs -> {Idle} \cup Restoring \cup LoggingIn]
    /\ calling \in [Tabs -> {Idle} \cup Calling]
    /\ signedOut \subseteq Tokens

\* A session is of one piece wherever it is kept: name and role are those in the claims of its
\* token, although restore puts it together from two reads, between which others are stored.
Whole ==
    \A session \in {stored} \cup {shown[b] : b \in Tabs} :
        session # NoSession => session.user = issued[session.token]

\* Who signs out has signed out: the session returns to storage only by the restore of another
\* tab that was waiting for its answer at that moment.
SignedOutStaysOut == stored.token \notin signedOut

\* The pages offer what the backend allows: a button is answered by 403 only if another tab has
\* signed in as somebody else.
OfferedIsAllowed ==
    \A b \in Tabs :
        calling[b] # Idle /\ calling[b].answer = "forbidden" => calling[b].by.token # calling[b].token

\* A tab that is busy with a session is busy for a while only, unless it is loaded again and again.
LoadingEnds == \A b \in Tabs : []<><<Open(b)>>_vars \/ (loading[b] ~> ~loading[b])
=============================================================================
