------------------------------ MODULE Sessions ------------------------------
(***************************************************************************)
(* The sessions of one account: sign-in, rotation of refresh tokens with   *)
(* its grace window, logout of one device, rewrites of the account's row,  *)
(* and the erasure of the account.                                         *)
(*                                                                         *)
(* Every endpoint reads, decides and writes in separate calls to DynamoDB; *)
(* rows are put back whole, as they were read.  One action per remote      *)
(* call; any call may raise, and an answer may never reach its device.     *)
(***************************************************************************)
EXTENDS Naturals, FiniteSets

CONSTANTS
    Devices,        \* the devices signed in at the start
    Calls,          \* the requests to the API
    NoToken

\* A token is named after the device or the request that opened it.
Tokens == Devices \cup Calls

ASSUME SessionsAssumption ==
    /\ Devices \cap Calls = {}
    /\ NoToken \notin Tokens

VARIABLES
    user,           \* whether the account's row is in users
    tokens,         \* the rows of auth_tokens
    call,           \* the requests and their local variables
    handed,         \* the tokens that reached a device
    closed,         \* sessions logged out with no rotation beside the logout
    raced,          \* somebody wrote beside the end of an erasure
    gone            \* an erasure was answered with success

sessionVars == <<user, tokens, call, handed, closed, raced, gone>>

-----------------------------------------------------------------------------
(* Data                                                                    *)

\* live: is_active and unused.  rotated, faded: consumed, inside and past the
\* grace window.  revoked: inactive without ever having been used.
TokenStates == {"live", "rotated", "faded", "revoked"}

\* line: the lineage, named after its first token; next: the successor to replay.
TokenRows == [line : Tokens, state : TokenStates, next : Tokens \cup {NoToken}]
NoRow == [state |-> "absent"]
LiveToken(line) == [line |-> line, state |-> "live", next |-> NoToken]
RotatedToken(line, next) == [line |-> line, state |-> "rotated", next |-> next]
RevokedToken(line) == [line |-> line, state |-> "revoked", next |-> NoToken]

\* signIn: by password or by the native id token of a provider; callback: the web flow
\* of a provider, which links the account and opens no session.
Operations == {"refresh", "logout", "signIn", "callback", "update", "erase"}
CallSteps == {"idle", "authenticate", "verify", "find", "replay", "rotate", "create", "consume",
              "list", "revoke", "read", "put", "open", "rows", "events", "listAll",
              "delete", "leave", "done"}

\* on, line, next: the presented token, its lineage and the successor it replays.
\* todo: the tokens still to revoke or delete, as they were listed.
\* alone: no rotation of the session was under way since the listing.
NoCall == [op |-> "refresh", pc |-> "idle", on |-> NoToken, line |-> NoToken,
           next |-> NoToken, todo |-> {}, alone |-> TRUE]

SessionsTypeOK ==
    /\ user \in BOOLEAN
    /\ tokens \in [Tokens -> TokenRows \cup {NoRow}]
    /\ call \in [Calls -> [op : Operations, pc : CallSteps, on : Tokens \cup {NoToken},
                           line : Tokens \cup {NoToken}, next : Tokens \cup {NoToken},
                           todo : SUBSET Tokens, alone : BOOLEAN]]
    /\ handed \subseteq Tokens
    /\ closed \subseteq Tokens
    /\ raced \in BOOLEAN /\ gone \in BOOLEAN

SessionsInit ==
    /\ user = TRUE
    /\ tokens = [t \in Tokens |-> IF t \in Devices THEN LiveToken(t) ELSE NoRow]
    /\ call = [c \in Calls |-> NoCall]
    /\ handed = Devices
    /\ closed = {} /\ raced = FALSE /\ gone = FALSE

At(c, pc) == call[c].pc = pc
To(c, pc) == call' = [call EXCEPT ![c].pc = pc]
Present(t) == tokens[t] # NoRow
LiveOf(line) == {t \in Tokens : Present(t) /\ tokens[t].line = line /\ tokens[t].state = "live"}

\* Requests that will write a token of the session, or a row of the account.
Rotating == {"rotate", "create", "consume"}
Writing == Rotating \cup {"revoke", "put", "open"}
EndsAccount == {"listAll", "delete", "leave"}

\* A request that may write while an erasure is past its listing.
RacesErasure(c) ==
    \/ gone
    \/ \E e \in Calls \ {c} : call[e].pc \in {"delete", "leave"}

\* The answer carries token t; the device may not receive it.
Answered(t) == handed' \in {handed, handed \cup {t}}

-----------------------------------------------------------------------------
(* A request arrives                                                       *)

FirstStep(op) ==
    CASE op = "refresh" -> "find"
      [] op \in {"signIn", "callback"} -> "verify"
      [] OTHER -> "authenticate"

\* A device presents any token it was ever handed; /refresh and the sign-ins
\* carry no access token.
Arrive(c, op, t) ==
    /\ At(c, "idle")
    /\ op \in {"refresh", "logout"} <=> t # NoToken
    /\ t # NoToken => t \in handed
    /\ call' = [call EXCEPT ![c] = [NoCall EXCEPT
                    !.op = op, !.on = t, !.pc = FirstStep(op)]]
    /\ UNCHANGED <<user, tokens, handed, closed, raced, gone>>

\* get_current_user: the access token is as good as the row it names.
Authenticate(c) ==
    /\ At(c, "authenticate")
    /\ To(c, CASE ~user -> "done"
               [] call[c].op = "logout" -> "find"
               [] call[c].op = "update" -> "read"
               [] OTHER -> "rows")
    /\ UNCHANGED <<user, tokens, handed, closed, raced, gone>>

-----------------------------------------------------------------------------
(* Refresh                                                                 *)

\* A rotation begins: no logout of its session, no erasure is alone any more.
Beside(c, line) ==
    [e \in Calls |-> IF e # c /\ call[e].pc = "revoke" /\ call[e].line = line
                     THEN [call[e] EXCEPT !.alone = FALSE] ELSE call[e]]

\* An unknown, spent or revoked token is refused; one consumed moments ago is
\* replayed, which is looked at first.
FindToken(c) ==
    LET t == call[c].on
        row == tokens[t]
    IN
    /\ At(c, "find") /\ call[c].op = "refresh"
    /\ \/ /\ row.state \in {"absent", "faded", "revoked"}
          /\ To(c, "done")
          /\ UNCHANGED raced
       \/ /\ row.state = "rotated"
          /\ call' = [call EXCEPT ![c] = [@ EXCEPT !.pc = "replay", !.next = row.next]]
          /\ UNCHANGED raced
       \/ /\ row.state = "live"
          /\ call' = [Beside(c, row.line) EXCEPT
                         ![c] = [@ EXCEPT !.pc = "rotate", !.line = row.line]]
          /\ raced' = (raced \/ RacesErasure(c))
    /\ UNCHANGED <<user, tokens, handed, closed, gone>>

\* The user of the token is loaded; a replay is then answered as it was stored.
LoadUser(c) ==
    /\ call[c].pc \in {"replay", "rotate"}
    /\ IF user /\ At(c, "rotate") THEN To(c, "create") ELSE To(c, "done")
    /\ IF user /\ At(c, "replay") THEN Answered(call[c].next) ELSE UNCHANGED handed
    /\ UNCHANGED <<user, tokens, closed, raced, gone>>

\* Mutant of CreateSuccessor: the parent is consumed first.
ConsumeFirst(c) ==
    LET consumed == tokens[call[c].on].state = "rotated" IN
    /\ At(c, "create")
    /\ tokens' = IF consumed THEN [tokens EXCEPT ![c] = LiveToken(call[c].line)]
                 ELSE [tokens EXCEPT ![call[c].on] = RotatedToken(call[c].line, c)]
    /\ IF consumed THEN To(c, "consume") ELSE UNCHANGED call
    /\ UNCHANGED <<user, handed, closed, raced, gone>>

\* The successor is written before the parent is consumed ...
CreateSuccessor(c) ==
    /\ At(c, "create")
    /\ tokens' = [tokens EXCEPT ![c] = LiveToken(call[c].line)]
    /\ To(c, "consume")
    /\ UNCHANGED <<user, handed, closed, raced, gone>>

\* ... whose row is put back whole, as it was read.
ConsumeParent(c) ==
    /\ At(c, "consume")
    /\ tokens' = [tokens EXCEPT ![call[c].on] = RotatedToken(call[c].line, c)]
    /\ To(c, "done")
    /\ Answered(c)
    /\ UNCHANGED <<user, closed, raced, gone>>

\* Sixty seconds after its rotation a token is no longer replayed.
GraceCloses(t) ==
    /\ tokens[t].state = "rotated"
    /\ tokens' = [tokens EXCEPT ![t].state = "faded"]
    /\ UNCHANGED <<user, call, handed, closed, raced, gone>>

-----------------------------------------------------------------------------
(* Logout                                                                  *)

\* A token that is not known is no session to close: success without an effect.
FindSession(c) ==
    /\ At(c, "find") /\ call[c].op = "logout"
    /\ IF Present(call[c].on)
       THEN call' = [call EXCEPT
                        ![c] = [@ EXCEPT !.pc = "list", !.line = tokens[call[c].on].line]]
       ELSE To(c, "done")
    /\ UNCHANGED <<user, tokens, handed, closed, raced, gone>>

\* Mutant of ToRevoke: only the token the session was opened with.
ToRevokeFirst(line) == LiveOf(line) \cap {line}

\* revoke_refresh_token_lineage lists the session's tokens that are active ...
ToRevoke(line) == LiveOf(line)

RotatedBeside(c, line) ==
    \E e \in Calls \ {c} : call[e].pc \in Rotating /\ call[e].line = line

ListSession(c) ==
    LET line == call[c].line IN
    /\ At(c, "list")
    /\ call' = [call EXCEPT ![c] = [@ EXCEPT !.pc = "revoke", !.todo = ToRevoke(line),
                                             !.alone = ~RotatedBeside(c, line)]]
    /\ raced' = (raced \/ RacesErasure(c))
    /\ UNCHANGED <<user, tokens, handed, closed, gone>>

\* ... and puts each back as it was listed, but inactive.
RevokeToken(c) ==
    /\ At(c, "revoke")
    /\ \E t \in call[c].todo :
          /\ tokens' = [tokens EXCEPT ![t] = RevokedToken(call[c].line)]
          /\ call' = [call EXCEPT ![c].todo = @ \ {t}]
    /\ UNCHANGED <<user, handed, closed, raced, gone>>

LoggedOut(c) ==
    /\ At(c, "revoke") /\ call[c].todo = {}
    /\ To(c, "done")
    /\ closed' = IF call[c].alone THEN closed \cup {call[c].line} ELSE closed
    /\ UNCHANGED <<user, tokens, handed, raced, gone>>

-----------------------------------------------------------------------------
(* Sign-in and rewrites of the account's row                               *)

\* The provider vouches for the identity behind a code or an id token, or it does
\* not; a state that the browser does not hold, wrong claims and another e-mail
\* address, whose account is not this one, end here too.
VerifyIdentity(c) ==
    /\ At(c, "verify")
    /\ To(c, "read") \/ To(c, "done")
    /\ UNCHANGED <<user, tokens, handed, closed, raced, gone>>

\* Without a row for the address, a password is refused and a provider's identity
\* signs up: the new account has an id of its own and is not this one either.
NotFound(c) ==
    /\ At(c, "read") /\ ~user
    /\ To(c, "done")
    /\ UNCHANGED <<user, tokens, handed, closed, raced, gone>>

\* What follows is a write, which an erasure past its listing does not see.
GoesToWrite(c, pc) == To(c, pc) /\ raced' = (raced \/ RacesErasure(c))

\* update_current_user: a preference that moved has the row put back.
ReadPreferences(c) ==
    /\ At(c, "read") /\ user /\ call[c].op = "update"
    /\ (To(c, "done") /\ UNCHANGED raced) \/ GoesToWrite(c, "put")
    /\ UNCHANGED <<user, tokens, handed, closed, gone>>

\* _link_or_create_user: a provider that was not linked yet has it put back.
LinkUser(c) ==
    /\ At(c, "read") /\ user /\ call[c].op \in {"signIn", "callback"}
    /\ \/ GoesToWrite(c, "put")
       \/ call[c].op = "signIn" /\ GoesToWrite(c, "open")
       \/ call[c].op = "callback" /\ To(c, "done") /\ UNCHANGED raced
    /\ UNCHANGED <<user, tokens, handed, closed, gone>>

PutUser(c) ==
    /\ At(c, "put")
    /\ user' = TRUE
    /\ To(c, IF call[c].op = "signIn" THEN "open" ELSE "done")
    /\ UNCHANGED <<tokens, handed, closed, raced, gone>>

\* A sign-in opens a session of its own.
OpenSession(c) ==
    /\ At(c, "open")
    /\ tokens' = [tokens EXCEPT ![c] = LiveToken(c)]
    /\ To(c, "done")
    /\ Answered(c)
    /\ UNCHANGED <<user, closed, raced, gone>>

-----------------------------------------------------------------------------
(* Erasure: identity goes last, sessions before the row                    *)

\* Steps over other tables; a composition says what they delete.
EraseRows(c) ==
    /\ At(c, "rows")
    /\ To(c, "events")
    /\ UNCHANGED <<user, tokens, handed, closed, raced, gone>>

\* Mutant of EraseEvents: the identity goes before the sessions.
EraseIdentity(c) ==
    /\ At(c, "events")
    /\ user' = FALSE
    /\ To(c, "listAll")
    /\ UNCHANGED <<tokens, handed, closed, raced, gone>>

EraseEvents(c) ==
    /\ At(c, "events")
    /\ To(c, "listAll")
    /\ UNCHANGED <<user, tokens, handed, closed, raced, gone>>

WrittenBeside(c) == \E e \in Calls \ {c} : call[e].pc \in Writing

ListTokens(c) ==
    /\ At(c, "listAll")
    /\ call' = [call EXCEPT
                   ![c] = [@ EXCEPT !.pc = "delete", !.todo = {t \in Tokens : Present(t)}]]
    /\ raced' = (raced \/ WrittenBeside(c))
    /\ UNCHANGED <<user, tokens, handed, closed, gone>>

DeleteToken(c) ==
    /\ At(c, "delete")
    /\ \E t \in call[c].todo :
          /\ tokens' = [tokens EXCEPT ![t] = NoRow]
          /\ call' = [call EXCEPT
                ![c] = [call[c] EXCEPT !.todo = @ \ {t},
                                       !.pc = IF call[c].todo = {t} THEN "leave" ELSE @]]
    /\ UNCHANGED <<user, handed, closed, raced, gone>>

NothingToDelete(c) ==
    /\ At(c, "delete") /\ call[c].todo = {}
    /\ To(c, "leave")
    /\ UNCHANGED <<user, tokens, handed, closed, raced, gone>>

DeleteUser(c) ==
    /\ At(c, "leave")
    /\ user' = FALSE
    /\ gone' = TRUE
    /\ To(c, "done")
    /\ UNCHANGED <<tokens, handed, closed, raced>>

-----------------------------------------------------------------------------
(* A remote call raises: the request ends with a 500                       *)
Raises(c) ==
    /\ call[c].pc \notin {"idle", "done"}
    /\ To(c, "done")
    /\ UNCHANGED <<user, tokens, handed, closed, raced, gone>>

CallStep(c) ==
    \/ \E op \in Operations, t \in Tokens \cup {NoToken} : Arrive(c, op, t)
    \/ Authenticate(c)
    \/ FindToken(c) \/ LoadUser(c) \/ CreateSuccessor(c) \/ ConsumeParent(c)
    \/ FindSession(c) \/ ListSession(c) \/ RevokeToken(c) \/ LoggedOut(c)
    \/ VerifyIdentity(c) \/ NotFound(c) \/ ReadPreferences(c) \/ LinkUser(c) \/ PutUser(c) \/ OpenSession(c)
    \/ ListTokens(c) \/ DeleteToken(c) \/ NothingToDelete(c) \/ DeleteUser(c)
    \/ Raises(c)
=============================================================================
