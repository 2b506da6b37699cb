--------------------------- MODULE Account_proofs ---------------------------
(***************************************************************************)
(* What holds of the sessions, the submissions and the subscriptions of an *)
(* account, for every set of devices, requests, files, keys, stores and    *)
(* plans.  A logout ends its session, an erasure leaves nothing, and no    *)
(* rotation loses a session; what was accepted is whole, and every save is *)
(* paid for once; the rows of a subscription whose events came in turn say *)
(* what its store says, and buying lowers nothing.  Each of the three has  *)
(* an inductive invariant of its own: the steps of the one are stutters of *)
(* the others, but for the erasure, which takes all.                       *)
(***************************************************************************)
EXTENDS Account, FiniteSetTheorems, SequenceTheorems, WellFoundedInduction, TLAPS

-----------------------------------------------------------------------------
(* The sessions: the inductive invariant                                   *)

\* A token is born when its row can have been written, and known when its row
\* is the answer, the lineage or the successor of somebody else's.
Born(t) == t \in Devices \/ call[t].pc \in {"consume", "done"}
Known(t) == t \in Devices \/ call[t].pc = "done"

\* Which operation may be at which step.
OperationFits(op, pc) ==
    /\ pc \in {"replay", "rotate", "create", "consume"} => op = "refresh"
    /\ pc \in {"list", "revoke"} => op = "logout"
    /\ pc \in {"rows", "events", "listAll", "delete", "leave"} => op = "erase"
    /\ pc = "authenticate" => op \in {"logout", "update", "erase"}
    /\ pc = "verify" => op \in {"signIn", "callback"}
    /\ pc \in {"read", "put"} => op \in {"update", "signIn", "callback"}
    /\ pc = "open" => op = "signIn"
    /\ pc = "find" => op \in {"refresh", "logout"}

\* What a request holds at its step: nothing before it has found its token, then
\* a lineage, a successor and tokens that exist.
RequestFits(c) ==
    LET k == call[c] IN
    /\ OperationFits(k.op, k.pc)
    /\ k.pc \in {"idle", "authenticate", "find"} => k.line = NoToken
    /\ k.pc \in Rotating \cup {"find", "replay", "list"} => k.on \in handed
    /\ k.pc = "authenticate" /\ k.op = "logout" => k.on \in handed
    /\ k.pc \in Rotating \cup {"list", "revoke"} => k.line \in Tokens
    /\ k.pc = "replay" => k.next \in Tokens /\ Known(k.next)
    /\ k.line \in Tokens => Known(k.line)
    /\ \A t \in k.todo : Born(t)

CallFits == \A c \in Calls : RequestFits(c)

\* The rows come from requests that were far enough.
RowsFit ==
    /\ \A t \in Tokens : Present(t) =>
          /\ Born(t) /\ Known(tokens[t].line)
          /\ tokens[t].state \in {"rotated", "faded"} =>
                tokens[t].next \in Tokens /\ Known(tokens[t].next)
    /\ \A t \in handed : Known(t)
    /\ \A t \in closed : Known(t)

Shaped == SessionsTypeOK /\ CallFits /\ RowsFit

\* A closed session has no live token and nobody who could write one; a logout
\* that nobody rotates beside has listed whatever is live.
LogoutIsFinal ==
    /\ \A line \in closed :
          /\ LiveOf(line) = {}
          /\ \A c \in Calls : call[c].pc \in Rotating => call[c].line # line
    /\ \A c \in Calls : At(c, "revoke") /\ call[c].alone =>
          /\ LiveOf(call[c].line) \subseteq call[c].todo
          /\ ~RotatedBeside(c, call[c].line)

\* Unless somebody wrote beside it, an erasure past its listing is the only
\* writer, and has listed whatever there is.
ErasureIsFinal ==
    /\ ~user => gone
    /\ ~raced =>
          /\ \A e \in Calls : call[e].pc \in {"delete", "leave"} =>
                \A c \in Calls \ {e} : call[c].pc \notin Writing
          /\ \A e \in Calls : At(e, "delete") =>
                \A t \in Tokens : Present(t) => t \in call[e].todo
          /\ \A e \in Calls : At(e, "leave") => \A t \in Tokens : ~Present(t)
          /\ gone => /\ ~user
                     /\ \A t \in Tokens : ~Present(t)
                     /\ \A c \in Calls : call[c].pc \notin Writing

\* A logout that found the session.
Closing(line) == \E c \in Calls : call[c].op = "logout" /\ call[c].line = line

\* What a device of the session holds: a live token, or one whose live successor
\* did not arrive.
Tip(t, line) ==
    /\ t \in handed /\ Present(t) /\ tokens[t].line = line
    /\ \/ tokens[t].state = "live"
       \/ /\ tokens[t].state \in {"rotated", "faded"}
          /\ tokens[t].next \notin handed
          /\ tokens[tokens[t].next].state = "live"

\* Lineages do not mix: successors, parents and listed tokens are of one lineage.
LinesAgree ==
    /\ \A t \in Tokens :
          Present(t) /\ tokens[t].state \in {"rotated", "faded"} =>
             Present(tokens[t].next) /\ tokens[tokens[t].next].line = tokens[t].line
    /\ \A c \in Calls :
          /\ call[c].pc \in Rotating =>
                Present(call[c].on) /\ tokens[call[c].on].line = call[c].line
          /\ At(c, "consume") => /\ Present(c) /\ tokens[c].line = call[c].line
                                 /\ tokens[c].state = "live" \/ Closing(call[c].line)
          /\ At(c, "revoke") => \A t \in call[c].todo :
                Present(t) /\ tokens[t].line = call[c].line

SessionsHaveTips ==
    ~Erasing => /\ LinesAgree
                /\ \A d \in Devices : Closing(d) \/ \E t \in Tokens : Tip(t, d)

IInv == Shaped /\ LogoutIsFinal /\ ErasureIsFinal /\ SessionsHaveTips

-----------------------------------------------------------------------------
(* The steps of the sessions                                               *)

\* What a request, or an erasure in the steps the account says more about, does
\* to the sessions.
RequestMoves(c) == CallStep(c) \/ EraseRows(c) \/ EraseEvents(c)

TokenTypes == tokens \in [Tokens -> TokenRows \cup {NoRow}]
CallRows == [op : Operations, pc : CallSteps, on : Tokens \cup {NoToken},
             line : Tokens \cup {NoToken}, next : Tokens \cup {NoToken},
             todo : SUBSET Tokens, alone : BOOLEAN]
CallTypes == call \in [Calls -> CallRows]
SetTypes ==
    /\ user \in BOOLEAN /\ raced \in BOOLEAN /\ gone \in BOOLEAN
    /\ handed \subseteq Tokens /\ closed \subseteq Tokens

\* Other requests stay where they are; a rotation may find a logout of its session.
OthersStay(c) ==
    \A e \in Calls \ {c} :
        /\ call'[e].pc = call[e].pc /\ call'[e].op = call[e].op /\ call'[e].on = call[e].on
        /\ call'[e].line = call[e].line /\ call'[e].next = call[e].next
        /\ call'[e].todo = call[e].todo
        /\ call'[e].alone => call[e].alone

\* What a refresh finds decides its step: spent tokens end it, a consumed one is
\* replayed and a live one rotated, which logouts of the session are told.
LEMMA TokenIsFound ==
    ASSUME NEW c \in Calls, CallTypes, FindToken(c)
    PROVE  LET found == tokens[call[c].on] IN
           /\ call'[c].op = call[c].op /\ call'[c].on = call[c].on
           /\ call'[c].todo = call[c].todo
           /\ \/ /\ found.state \in {"absent", "faded", "revoked"}
                 /\ call'[c].pc = "done" /\ call'[c].line = call[c].line /\ raced' = raced
              \/ /\ found.state = "rotated"
                 /\ call'[c].pc = "replay" /\ call'[c].line = call[c].line
                 /\ call'[c].next = found.next /\ raced' = raced
              \/ /\ found.state = "live"
                 /\ call'[c].pc = "rotate" /\ call'[c].line = found.line
                 /\ raced' = (raced \/ RacesErasure(c))
                 /\ \A e \in Calls \ {c} : call'[e] = Beside(c, found.line)[e]
<1>. DEFINE found == tokens[call[c].on]
<1>1. CASE found.state = "live"
  <2>1. /\ call' = [Beside(c, found.line) EXCEPT
                       ![c] = [@ EXCEPT !.pc = "rotate", !.line = found.line]]
        /\ raced' = (raced \/ RacesErasure(c))
    BY <1>1 DEF FindToken
  <2>2. /\ Beside(c, found.line)[c] = call[c] /\ DOMAIN Beside(c, found.line) = Calls
        /\ call[c] \in CallRows
    BY DEF Beside, CallTypes
  <2>3. /\ call'[c] = [call[c] EXCEPT !.pc = "rotate", !.line = found.line]
        /\ \A e \in Calls \ {c} : call'[e] = Beside(c, found.line)[e]
    BY <2>1, <2>2
  <2>. QED
    BY <1>1, <2>1, <2>2, <2>3 DEF CallRows
<1>2. CASE found.state = "rotated"
  <2>. DEFINE k == [call[c] EXCEPT !.pc = "replay", !.next = found.next]
  <2>1. call' = [call EXCEPT ![c] = k] /\ raced' = raced
    BY <1>2 DEF FindToken
  <2>2. /\ k.op = call[c].op /\ k.on = call[c].on /\ k.todo = call[c].todo
        /\ k.pc = "replay" /\ k.line = call[c].line /\ k.next = found.next
    BY DEF CallTypes, CallRows
  <2>. HIDE DEF k
  <2>. QED
    BY <1>2, <2>1, <2>2 DEF CallTypes
<1>3. CASE found.state \notin {"live", "rotated"}
  <2>1. /\ found.state \in {"absent", "faded", "revoked"} /\ raced' = raced
        /\ call' = [call EXCEPT ![c].pc = "done"] /\ call[c] \in CallRows
    BY <1>3 DEF FindToken, To, CallTypes
  <2>2. call'[c] = [call[c] EXCEPT !.pc = "done"]
    BY <2>1 DEF CallTypes
  <2>. QED
    BY <2>1, <2>2 DEF CallRows
<1>. QED
  BY <1>1, <1>2, <1>3

\* What find_session leaves a request with.
LEMMA SessionIsFound ==
    ASSUME NEW c \in Calls, CallTypes, FindSession(c)
    PROVE  /\ call'[c].op = call[c].op /\ call'[c].on = call[c].on
           /\ call'[c].todo = call[c].todo
           /\ \A e \in Calls \ {c} : call'[e] = call[e]
           /\ \/ call'[c].pc = "done" /\ call'[c].line = call[c].line
              \/ /\ call'[c].pc = "list" /\ call'[c].line = tokens[call[c].on].line
                 /\ Present(call[c].on)
           /\ call[c].pc = "find" /\ call[c].op = "logout"
           /\ UNCHANGED <<user, tokens, handed, closed, raced, gone>>
           /\ (Present(call[c].on) => tokens[call[c].on].line \in Tokens) => CallTypes'
<1>1. call[c] \in CallRows /\ call \in [Calls -> CallRows]
  BY DEF CallTypes
<1>4. /\ call[c].pc = "find" /\ call[c].op = "logout"
      /\ UNCHANGED <<user, tokens, handed, closed, raced, gone>>
  BY DEF FindSession, At
<1>2. CASE Present(call[c].on)
  <2>. DEFINE k == [call[c] EXCEPT !.pc = "list", !.line = tokens[call[c].on].line]
  <2>1. call' = [call EXCEPT ![c] = k]
    BY <1>2 DEF FindSession
  <2>2. /\ k.op = call[c].op /\ k.on = call[c].on /\ k.todo = call[c].todo
        /\ k.pc = "list" /\ k.line = tokens[call[c].on].line
        /\ tokens[call[c].on].line \in Tokens => k \in CallRows
    BY <1>1 DEF CallRows, CallSteps
  <2>. HIDE DEF k
  <2>. QED
    BY <1>1, <1>2, <1>4, <2>1, <2>2 DEF CallTypes
<1>3. CASE ~Present(call[c].on)
  <2>. DEFINE k == [call[c] EXCEPT !.pc = "done"]
  <2>1. call' = [call EXCEPT ![c] = k]
    BY <1>3, Zenon DEF FindSession, To
  <2>2. /\ k.op = call[c].op /\ k.on = call[c].on /\ k.todo = call[c].todo
        /\ k.pc = "done" /\ k.line = call[c].line /\ k \in CallRows
    BY <1>1 DEF CallRows, CallSteps
  <2>. HIDE DEF k
  <2>. QED
    BY <1>1, <1>3, <1>4, <2>1, <2>2 DEF CallTypes
<1>. QED
  BY <1>2, <1>3

\* A request's step keeps the types of the rows ...
LEMMA RequestsKeepTokenTypes ==
    ASSUME NEW c \in Calls, TokenTypes, CallTypes, CallFits, RowsFit, RequestMoves(c)
    PROVE  TokenTypes'
<1>. USE SessionsAssumption DEF TokenTypes, CallTypes, CallRows, CallFits, RequestFits, At,
         Present, Tokens, TokenRows, NoRow, TokenStates, Rotating, LiveToken, RotatedToken,
         RevokedToken
<1>1. ASSUME NEW op \in Operations, NEW t \in Tokens \cup {NoToken}, Arrive(c, op, t)
      PROVE  TokenTypes'
  BY <1>1 DEF Arrive, NoCall, FirstStep
<1>2. CASE Authenticate(c)
  BY <1>2 DEF Authenticate
<1>3. CASE FindToken(c)
  BY <1>3 DEF FindToken, Beside
<1>4. CASE LoadUser(c)
  BY <1>4 DEF LoadUser
<1>5. CASE CreateSuccessor(c)
  BY <1>5 DEF CreateSuccessor
<1>6. CASE ConsumeParent(c)
  BY <1>6 DEF ConsumeParent
<1>7. CASE FindSession(c)
  BY <1>7 DEF FindSession
<1>8. CASE ListSession(c)
  BY <1>8 DEF ListSession, ToRevoke, LiveOf
<1>9. CASE RevokeToken(c)
  BY <1>9 DEF RevokeToken
<1>10. CASE LoggedOut(c)
  BY <1>10 DEF LoggedOut
<1>11. CASE VerifyIdentity(c) \/ NotFound(c)
  BY <1>11 DEF VerifyIdentity, NotFound
<1>12. CASE ReadPreferences(c)
  BY <1>12 DEF ReadPreferences, GoesToWrite
<1>13. CASE LinkUser(c)
  BY <1>13 DEF LinkUser, GoesToWrite
<1>14. CASE PutUser(c)
  BY <1>14 DEF PutUser
<1>15. CASE OpenSession(c)
  BY <1>15 DEF OpenSession
<1>16. CASE ListTokens(c)
  BY <1>16 DEF ListTokens
<1>17. CASE DeleteToken(c)
  BY <1>17 DEF DeleteToken
<1>18. CASE NothingToDelete(c)
  BY <1>18 DEF NothingToDelete
<1>19. CASE DeleteUser(c)
  BY <1>19 DEF DeleteUser
<1>20. CASE Raises(c)
  BY <1>20 DEF Raises
<1>21. CASE EraseRows(c) \/ EraseEvents(c)
  BY <1>21 DEF EraseRows, EraseEvents
<1>. QED
  BY <1>1, <1>2, <1>3, <1>4, <1>5, <1>6, <1>7, <1>8, <1>9, <1>10, <1>11, <1>12, <1>13,
     <1>14, <1>15, <1>16, <1>17, <1>18, <1>19, <1>20, <1>21 DEF RequestMoves, CallStep

\* A request that goes on with other variables is still a request.
LEMMA RowUpdates ==
    ASSUME NEW k \in CallRows, NEW pc \in CallSteps, NEW t \in Tokens \cup {NoToken},
           NEW todo \in SUBSET Tokens, NEW alone \in BOOLEAN
    PROVE  /\ [k EXCEPT !.pc = pc, !.line = t] \in CallRows
           /\ [k EXCEPT !.pc = pc, !.next = t] \in CallRows
           /\ [k EXCEPT !.pc = pc, !.todo = todo] \in CallRows
           /\ [k EXCEPT !.todo = todo, !.pc = pc] \in CallRows
           /\ [k EXCEPT !.pc = pc, !.todo = todo, !.alone = alone] \in CallRows
           /\ [k EXCEPT !.alone = alone] \in CallRows
<1>1. /\ [k EXCEPT !.pc = pc, !.line = t] \in CallRows
      /\ [k EXCEPT !.pc = pc, !.next = t] \in CallRows
  BY DEF CallRows
<1>2. /\ [k EXCEPT !.pc = pc, !.todo = todo] \in CallRows
      /\ [k EXCEPT !.todo = todo, !.pc = pc] \in CallRows
  BY DEF CallRows
<1>3. /\ [k EXCEPT !.pc = pc, !.todo = todo, !.alone = alone] \in CallRows
  BY DEF CallRows
<1>4. [k EXCEPT !.alone = alone] \in CallRows
  BY DEF CallRows
<1>. QED
  BY <1>1, <1>2, <1>3, <1>4

\* One request whose variables are replaced as a whole.
LEMMA OneMoves ==
    ASSUME NEW c \in Calls, NEW k \in CallRows, CallTypes, call' = [call EXCEPT ![c] = k]
    PROVE  CallTypes' /\ OthersStay(c)
  BY DEF CallTypes, OthersStay

\* ... and of the requests, and moves no other request.
LEMMA RequestsKeepCallTypes ==
    ASSUME NEW c \in Calls, SetTypes, TokenTypes, CallTypes, CallFits, RowsFit, RequestMoves(c)
    PROVE  CallTypes' /\ OthersStay(c)
<1>. USE SessionsAssumption DEF TokenTypes, CallTypes, CallRows, CallFits, RowsFit,
         OthersStay, RequestFits, At, To, Present, Tokens, TokenRows, NoRow, TokenStates,
         Operations, CallSteps, Rotating
<1>1. ASSUME NEW op \in Operations, NEW t \in Tokens \cup {NoToken}, Arrive(c, op, t)
      PROVE  CallTypes' /\ OthersStay(c)
  <2>. DEFINE k == [NoCall EXCEPT !.op = op, !.on = t, !.pc = FirstStep(op)]
  <2>1. k \in CallRows
    BY DEF NoCall, FirstStep
  <2>. QED
    BY <1>1, <2>1, OneMoves DEF Arrive
<1>2. CASE Authenticate(c)
  BY <1>2 DEF Authenticate
<1>3. CASE FindToken(c)
  <2>. DEFINE line == tokens[call[c].on].line
             k == [call[c] EXCEPT !.pc = "rotate", !.line = line]
             beside == [e \in Calls |-> IF e # c /\ call[e].pc = "revoke" /\ call[e].line = line
                           THEN [call[e] EXCEPT !.alone = FALSE] ELSE call[e]]
             n == [call[c] EXCEPT !.pc = "replay", !.next = tokens[call[c].on].next]
  <2>1. CASE call' = [call EXCEPT ![c].pc = "done"]
    BY <2>1
  <2>2. CASE /\ tokens[call[c].on].state = "rotated"
             /\ call' = [call EXCEPT
                            ![c] = [@ EXCEPT !.pc = "replay", !.next = tokens[call[c].on].next]]
    <3>1. tokens[call[c].on].next \in Tokens \cup {NoToken} /\ "replay" \in CallSteps
      BY <1>3, <2>2 DEF FindToken, SetTypes
    <3>0. n \in CallRows
      <4>. HIDE DEF CallRows
      <4>. QED
        BY <3>1, RowUpdates
    <3>2. call' = [call EXCEPT ![c] = n]
      BY <2>2
    <3>. QED
      BY <3>0, <3>2, OneMoves
  <2>3. CASE /\ tokens[call[c].on].state = "live"
             /\ call' = [beside EXCEPT ![c] = [@ EXCEPT !.pc = "rotate", !.line = line]]
    <3>1. k \in CallRows
      <4>1. call[c].on \in Tokens
        BY <1>3 DEF FindToken, SetTypes
      <4>2. tokens[call[c].on].state = "live"
        BY <2>3
      <4>3. line \in Tokens \cup {NoToken}
        BY <4>1, <4>2
      <4>4. "rotate" \in CallSteps /\ call[c] \in CallRows
        OBVIOUS
      <4>. HIDE DEF line, CallRows
      <4>. QED
        BY <4>3, <4>4, RowUpdates
    <3>2. beside \in [Calls -> CallRows] /\ beside[c] = call[c]
      <4>. HIDE DEF CallRows
      <4>. QED
        BY RowUpdates, ZenonT(60)
    <3>3. call' = [beside EXCEPT ![c] = k]
      BY <2>3, <3>2
    <3>4. CallTypes'
      BY <3>1, <3>2, <3>3
    <3>5. \A e \in Calls \ {c} : call'[e] = beside[e]
      BY <3>2, <3>3
    <3>. QED
      BY <3>4, <3>5
  <2>. QED
    BY <1>3, <2>1, <2>2, <2>3 DEF FindToken, Beside
<1>4. CASE LoadUser(c)
  BY <1>4 DEF LoadUser
<1>5. CASE CreateSuccessor(c)
  BY <1>5 DEF CreateSuccessor
<1>6. CASE ConsumeParent(c)
  BY <1>6 DEF ConsumeParent
<1>7. CASE FindSession(c)
  <2>1. call[c].on \in Tokens
    BY <1>7 DEF FindSession, SetTypes
  <2>2. Present(call[c].on) => tokens[call[c].on].line \in Tokens
    BY <2>1
  <2>. HIDE DEF CallRows, Tokens, CallTypes, OthersStay, Present
  <2>. QED
    BY <1>7, <2>2, SessionIsFound DEF OthersStay
<1>8. CASE ListSession(c)
  <2>. DEFINE k == [call[c] EXCEPT !.pc = "revoke", !.todo = ToRevoke(call[c].line),
                                    !.alone = ~RotatedBeside(c, call[c].line)]
  <2>1. k \in CallRows
    <3>1. /\ "revoke" \in CallSteps /\ ToRevoke(call[c].line) \in SUBSET Tokens
          /\ (~RotatedBeside(c, call[c].line)) \in BOOLEAN
      BY DEF ToRevoke, LiveOf
    <3>. HIDE DEF CallRows
    <3>. QED
      BY <3>1, RowUpdates, ZenonT(60)
  <2>2. call' = [call EXCEPT ![c] = k]
    BY <1>8 DEF ListSession
  <2>. QED
    BY <2>1, <2>2, OneMoves, ZenonT(60)
<1>9. CASE RevokeToken(c)
  BY <1>9 DEF RevokeToken
<1>10. CASE LoggedOut(c)
  BY <1>10 DEF LoggedOut
<1>11. CASE VerifyIdentity(c) \/ NotFound(c)
  BY <1>11 DEF VerifyIdentity, NotFound
<1>12. CASE ReadPreferences(c)
  BY <1>12 DEF ReadPreferences, GoesToWrite
<1>13. CASE LinkUser(c)
  BY <1>13 DEF LinkUser, GoesToWrite
<1>14. CASE PutUser(c)
  BY <1>14 DEF PutUser
<1>15. CASE OpenSession(c)
  BY <1>15 DEF OpenSession
<1>16. CASE ListTokens(c)
  <2>. DEFINE k == [call[c] EXCEPT !.pc = "delete", !.todo = {t \in Tokens : Present(t)}]
  <2>1. k \in CallRows
    <3>1. "delete" \in CallSteps
      OBVIOUS
    <3>. HIDE DEF CallRows
    <3>. QED
      BY <3>1, RowUpdates
  <2>2. call' = [call EXCEPT ![c] = k]
    BY <1>16 DEF ListTokens
  <2>. QED
    BY <2>1, <2>2, OneMoves
<1>17. CASE DeleteToken(c)
  <2>1. PICK t \in call[c].todo :
           call' = [call EXCEPT
              ![c] = [call[c] EXCEPT !.todo = @ \ {t},
                                     !.pc = IF call[c].todo = {t} THEN "leave" ELSE @]]
    BY <1>17 DEF DeleteToken
  <2>. DEFINE rest == call[c].todo \ {t}
             pc == IF call[c].todo = {t} THEN "leave" ELSE call[c].pc
             k == [call[c] EXCEPT !.todo = rest, !.pc = pc]
  <2>2. k \in CallRows
    <3>1. pc \in CallSteps /\ rest \in SUBSET Tokens
      OBVIOUS
    <3>. HIDE DEF CallRows, pc, rest
    <3>. QED
      BY <3>1, RowUpdates, ZenonT(60)
  <2>3. call' = [call EXCEPT ![c] = k]
    BY <2>1
  <2>. QED
    BY <2>2, <2>3, OneMoves
<1>18. CASE NothingToDelete(c)
  BY <1>18 DEF NothingToDelete
<1>19. CASE DeleteUser(c)
  BY <1>19 DEF DeleteUser
<1>20. CASE Raises(c)
  BY <1>20 DEF Raises
<1>21. CASE EraseRows(c) \/ EraseEvents(c)
  BY <1>21 DEF EraseRows, EraseEvents
<1>. QED
  BY <1>1, <1>2, <1>3, <1>4, <1>5, <1>6, <1>7, <1>8, <1>9, <1>10, <1>11, <1>12, <1>13,
     <1>14, <1>15, <1>16, <1>17, <1>18, <1>19, <1>20, <1>21 DEF RequestMoves, CallStep

\* A request that ended does not go on, and a rotation ends with its parent.
LEMMA RequestsProgress ==
    ASSUME NEW c \in Calls, CallTypes, RequestMoves(c)
    PROVE  call[c].pc # "done" /\ (call[c].pc = "consume" => call'[c].pc = "done")
<1>. USE SessionsAssumption DEF CallTypes, CallRows, At, To, CallSteps
<1>1. ASSUME NEW op \in Operations, NEW t \in Tokens \cup {NoToken}, Arrive(c, op, t)
      PROVE  call[c].pc # "done" /\ (call[c].pc = "consume" => call'[c].pc = "done")
  BY <1>1 DEF Arrive, NoCall, FirstStep
<1>2. CASE Authenticate(c)
  BY <1>2 DEF Authenticate
<1>3. CASE FindToken(c)
  BY <1>3 DEF FindToken, Beside
<1>4. CASE LoadUser(c)
  BY <1>4 DEF LoadUser
<1>5. CASE CreateSuccessor(c)
  BY <1>5 DEF CreateSuccessor
<1>6. CASE ConsumeParent(c)
  BY <1>6 DEF ConsumeParent
<1>7. CASE FindSession(c)
  BY <1>7 DEF FindSession
<1>8. CASE ListSession(c)
  BY <1>8 DEF ListSession, ToRevoke, LiveOf
<1>9. CASE RevokeToken(c)
  BY <1>9 DEF RevokeToken
<1>10. CASE LoggedOut(c)
  BY <1>10 DEF LoggedOut
<1>11. CASE VerifyIdentity(c) \/ NotFound(c)
  BY <1>11 DEF VerifyIdentity, NotFound
<1>12. CASE ReadPreferences(c)
  BY <1>12 DEF ReadPreferences, GoesToWrite
<1>13. CASE LinkUser(c)
  BY <1>13 DEF LinkUser, GoesToWrite
<1>14. CASE PutUser(c)
  BY <1>14 DEF PutUser
<1>15. CASE OpenSession(c)
  BY <1>15 DEF OpenSession
<1>16. CASE ListTokens(c)
  BY <1>16 DEF ListTokens
<1>17. CASE DeleteToken(c)
  BY <1>17 DEF DeleteToken
<1>18. CASE NothingToDelete(c)
  BY <1>18 DEF NothingToDelete
<1>19. CASE DeleteUser(c)
  BY <1>19 DEF DeleteUser
<1>20. CASE Raises(c)
  BY <1>20 DEF Raises
<1>21. CASE EraseRows(c) \/ EraseEvents(c)
  BY <1>21 DEF EraseRows, EraseEvents
<1>. QED
  BY <1>1, <1>2, <1>3, <1>4, <1>5, <1>6, <1>7, <1>8, <1>9, <1>10, <1>11, <1>12, <1>13,
     <1>14, <1>15, <1>16, <1>17, <1>18, <1>19, <1>20, <1>21 DEF RequestMoves, CallStep

\* So what is born or known stays so ...
LEMMA KnownStays ==
    ASSUME NEW c \in Calls, SetTypes, TokenTypes, CallTypes, CallFits, RowsFit, RequestMoves(c),
           NEW t \in Tokens
    PROVE  (Known(t) => Known(t)') /\ (Born(t) => Born(t)')
  BY RequestsProgress, RequestsKeepCallTypes, SessionsAssumption DEF Known, Born,
     OthersStay, Tokens

\* ... and a device keeps what it was handed.
LEMMA HandedGrows ==
    ASSUME NEW c \in Calls, CallTypes, RequestMoves(c)
    PROVE  handed \subseteq handed'
<1>. USE DEF Answered
<1>1. ASSUME NEW op \in Operations, NEW t \in Tokens \cup {NoToken}, Arrive(c, op, t)
      PROVE  handed \subseteq handed'
  BY <1>1 DEF Arrive, NoCall, FirstStep
<1>2. CASE Authenticate(c)
  BY <1>2 DEF Authenticate
<1>3. CASE FindToken(c)
  BY <1>3 DEF FindToken, Beside
<1>4. CASE LoadUser(c)
  BY <1>4 DEF LoadUser
<1>5. CASE CreateSuccessor(c)
  BY <1>5 DEF CreateSuccessor
<1>6. CASE ConsumeParent(c)
  BY <1>6 DEF ConsumeParent
<1>7. CASE FindSession(c)
  BY <1>7, SessionIsFound DEF CallTypes, CallRows
<1>8. CASE ListSession(c)
  BY <1>8 DEF ListSession, ToRevoke, LiveOf
<1>9. CASE RevokeToken(c)
  BY <1>9 DEF RevokeToken
<1>10. CASE LoggedOut(c)
  BY <1>10 DEF LoggedOut
<1>11. CASE VerifyIdentity(c) \/ NotFound(c)
  BY <1>11 DEF VerifyIdentity, NotFound
<1>12. CASE ReadPreferences(c)
  BY <1>12 DEF ReadPreferences, GoesToWrite
<1>13. CASE LinkUser(c)
  BY <1>13 DEF LinkUser, GoesToWrite
<1>14. CASE PutUser(c)
  BY <1>14 DEF PutUser
<1>15. CASE OpenSession(c)
  BY <1>15 DEF OpenSession
<1>16. CASE ListTokens(c)
  BY <1>16 DEF ListTokens
<1>17. CASE DeleteToken(c)
  BY <1>17 DEF DeleteToken
<1>18. CASE NothingToDelete(c)
  BY <1>18 DEF NothingToDelete
<1>19. CASE DeleteUser(c)
  BY <1>19 DEF DeleteUser
<1>20. CASE Raises(c)
  BY <1>20 DEF Raises
<1>21. CASE EraseRows(c) \/ EraseEvents(c)
  BY <1>21 DEF EraseRows, EraseEvents
<1>. QED
  BY <1>1, <1>2, <1>3, <1>4, <1>5, <1>6, <1>7, <1>8, <1>9, <1>10, <1>11, <1>12, <1>13,
     <1>14, <1>15, <1>16, <1>17, <1>18, <1>19, <1>20, <1>21 DEF RequestMoves, CallStep

\* The sets of the sessions keep their types.
LEMMA RequestsKeepSets ==
    ASSUME NEW c \in Calls, SetTypes, CallTypes, CallFits, RequestMoves(c)
    PROVE  SetTypes'
<1>. USE SessionsAssumption DEF SetTypes, CallTypes, CallRows, CallFits, RequestFits, At,
         Tokens, Rotating, Answered
<1>1. ASSUME NEW op \in Operations, NEW t \in Tokens \cup {NoToken}, Arrive(c, op, t)
      PROVE  SetTypes'
  BY <1>1 DEF Arrive, NoCall, FirstStep
<1>2. CASE Authenticate(c)
  BY <1>2 DEF Authenticate
<1>3. CASE FindToken(c)
  BY <1>3 DEF FindToken, Beside
<1>4. CASE LoadUser(c)
  BY <1>4 DEF LoadUser
<1>5. CASE CreateSuccessor(c)
  BY <1>5 DEF CreateSuccessor
<1>6. CASE ConsumeParent(c)
  BY <1>6 DEF ConsumeParent
<1>7. CASE FindSession(c)
  BY <1>7, SessionIsFound DEF CallTypes, CallRows
<1>8. CASE ListSession(c)
  BY <1>8 DEF ListSession, ToRevoke, LiveOf
<1>9. CASE RevokeToken(c)
  BY <1>9 DEF RevokeToken
<1>10. CASE LoggedOut(c)
  BY <1>10 DEF LoggedOut
<1>11. CASE VerifyIdentity(c) \/ NotFound(c)
  BY <1>11 DEF VerifyIdentity, NotFound
<1>12. CASE ReadPreferences(c)
  BY <1>12 DEF ReadPreferences, GoesToWrite
<1>13. CASE LinkUser(c)
  BY <1>13 DEF LinkUser, GoesToWrite
<1>14. CASE PutUser(c)
  BY <1>14 DEF PutUser
<1>15. CASE OpenSession(c)
  BY <1>15 DEF OpenSession
<1>16. CASE ListTokens(c)
  BY <1>16 DEF ListTokens
<1>17. CASE DeleteToken(c)
  BY <1>17 DEF DeleteToken
<1>18. CASE NothingToDelete(c)
  BY <1>18 DEF NothingToDelete
<1>19. CASE DeleteUser(c)
  BY <1>19 DEF DeleteUser
<1>20. CASE Raises(c)
  BY <1>20 DEF Raises
<1>21. CASE EraseRows(c) \/ EraseEvents(c)
  BY <1>21 DEF EraseRows, EraseEvents
<1>. QED
  BY <1>1, <1>2, <1>3, <1>4, <1>5, <1>6, <1>7, <1>8, <1>9, <1>10, <1>11, <1>12, <1>13,
     <1>14, <1>15, <1>16, <1>17, <1>18, <1>19, <1>20, <1>21 DEF RequestMoves, CallStep

\* What a request holds fits the step it comes to.
LEMMA RequestsKeepCalls ==
    ASSUME NEW c \in Calls, SetTypes, TokenTypes, CallTypes, CallFits, RowsFit, RequestMoves(c)
    PROVE  RequestFits(c)'
<1>. USE SessionsAssumption DEF SetTypes, TokenTypes, CallTypes, CallRows, CallFits,
         RequestFits, OperationFits, RowsFit, Born, Known, At, To, Present, Tokens,
         TokenRows, Rotating, NoRow
<1>1. ASSUME NEW op \in Operations, NEW t \in Tokens \cup {NoToken}, Arrive(c, op, t)
      PROVE  RequestFits(c)'
  <2>1. /\ call'[c].op = op /\ call'[c].on = t /\ call'[c].pc = FirstStep(op)
        /\ call'[c].line = NoToken /\ call'[c].todo = {}
    BY <1>1 DEF Arrive, NoCall
  <2>2. op \in {"refresh", "logout"} => t \in handed'
    BY <1>1 DEF Arrive
  <2>3. /\ op = "refresh" => FirstStep(op) = "find"
        /\ op \in {"signIn", "callback"} => FirstStep(op) = "verify"
        /\ op \in {"logout", "update", "erase"} => FirstStep(op) = "authenticate"
        /\ op \in {"refresh", "signIn", "callback", "logout", "update", "erase"}
    BY DEF FirstStep, Operations
  <2>. QED
    BY <2>1, <2>2, <2>3
<1>2. CASE Authenticate(c)
  <2>1. /\ call'[c].op = call[c].op /\ call'[c].line = call[c].line
        /\ call'[c].on = call[c].on /\ call'[c].todo = call[c].todo
        /\ call'[c].pc \in {"done", "find", "read", "rows"}
        /\ call'[c].pc = "find" => call[c].op = "logout"
        /\ call'[c].pc = "read" => call[c].op = "update"
        /\ call'[c].pc = "rows" => call[c].op \notin {"logout", "update"}
    BY <1>2 DEF Authenticate
  <2>. QED
    BY <1>2, <2>1 DEF Authenticate
<1>3. CASE FindToken(c)
  <2>. DEFINE found == tokens[call[c].on]
  <2>1. /\ call'[c].op = call[c].op /\ call'[c].on = call[c].on
        /\ call'[c].todo = call[c].todo
        /\ \/ call'[c].pc = "done" /\ call'[c].line = call[c].line
           \/ /\ call'[c].pc = "replay" /\ call'[c].line = call[c].line
              /\ call'[c].next = found.next /\ found.state = "rotated"
           \/ call'[c].pc = "rotate" /\ call'[c].line = found.line /\ found.state = "live"
    BY <1>3, TokenIsFound DEF CallTypes, CallRows
  <2>2. call[c].op = "refresh" /\ call[c].on \in handed' /\ call[c].on \in Tokens \cup {NoToken}
        /\ call[c].line = NoToken
    BY <1>3 DEF FindToken
  <2>3. call[c].on \in Tokens
    BY <1>3 DEF FindToken
  <2>4. found.state \in {"rotated", "live"} => Present(call[c].on)
    BY <2>3
  <2>5. \A t \in Tokens : (Known(t) => Known(t)') /\ (Born(t) => Born(t)')
    BY KnownStays
  <2>. HIDE DEF Known, Born
  <2>. QED
    BY <2>1, <2>2, <2>3, <2>4, <2>5
<1>4. CASE LoadUser(c)
  BY <1>4 DEF LoadUser
<1>5. CASE CreateSuccessor(c)
  BY <1>5 DEF CreateSuccessor
<1>6. CASE ConsumeParent(c)
  BY <1>6 DEF ConsumeParent
<1>7. CASE FindSession(c)
  <2>1. /\ call'[c].op = call[c].op /\ call'[c].on = call[c].on
        /\ call'[c].todo = call[c].todo
        /\ \/ call'[c].pc = "done" /\ call'[c].line = call[c].line
           \/ /\ call'[c].pc = "list" /\ call'[c].line = tokens[call[c].on].line
              /\ Present(call[c].on)
    BY <1>7, SessionIsFound DEF CallTypes, CallRows
  <2>2. call[c].op = "logout" /\ call[c].on \in handed' /\ call[c].on \in Tokens
        /\ call[c].line = NoToken
    BY <1>7 DEF FindSession, SetTypes
  <2>5. \A t \in Tokens : (Known(t) => Known(t)') /\ (Born(t) => Born(t)')
    BY KnownStays
  <2>. HIDE DEF Known, Born
  <2>. QED
    BY <2>1, <2>2, <2>5
<1>8. CASE ListSession(c)
  <2>1. /\ call'[c].op = call[c].op /\ call'[c].on = call[c].on
        /\ call'[c].line = call[c].line /\ call'[c].pc = "revoke"
        /\ \A t \in call'[c].todo : t \in Tokens /\ Present(t)
    <3>1. call' = [call EXCEPT
                      ![c] = [@ EXCEPT !.pc = "revoke", !.todo = ToRevoke(call[c].line),
                                       !.alone = ~RotatedBeside(c, call[c].line)]]
      BY <1>8 DEF ListSession
    <3>2. \A t \in ToRevoke(call[c].line) : t \in Tokens /\ Present(t)
      BY DEF ToRevoke, LiveOf
    <3>. QED
      BY <3>1, <3>2
  <2>2. call[c].op = "logout" /\ call[c].line \in Tokens
    BY <1>8 DEF ListSession
  <2>5. \A t \in Tokens : (Known(t) => Known(t)') /\ (Born(t) => Born(t)')
    BY KnownStays
  <2>. HIDE DEF Known, Born
  <2>. QED
    BY <2>1, <2>2, <2>5
<1>9. CASE RevokeToken(c)
  BY <1>9 DEF RevokeToken
<1>10. CASE LoggedOut(c)
  BY <1>10 DEF LoggedOut
<1>11. CASE VerifyIdentity(c) \/ NotFound(c)
  BY <1>11 DEF VerifyIdentity, NotFound
<1>12. CASE ReadPreferences(c)
  BY <1>12 DEF ReadPreferences, GoesToWrite
<1>13. CASE LinkUser(c)
  BY <1>13 DEF LinkUser, GoesToWrite
<1>14. CASE PutUser(c)
  BY <1>14 DEF PutUser
<1>15. CASE OpenSession(c)
  BY <1>15 DEF OpenSession
<1>16. CASE ListTokens(c)
  BY <1>16 DEF ListTokens
<1>17. CASE DeleteToken(c)
  BY <1>17 DEF DeleteToken
<1>18. CASE NothingToDelete(c)
  BY <1>18 DEF NothingToDelete
<1>19. CASE DeleteUser(c)
  BY <1>19 DEF DeleteUser
<1>20. CASE Raises(c)
  BY <1>20 DEF Raises
<1>21. CASE EraseRows(c) \/ EraseEvents(c)
  BY <1>21 DEF EraseRows, EraseEvents
<1>. QED
  BY <1>1, <1>2, <1>3, <1>4, <1>5, <1>6, <1>7, <1>8, <1>9, <1>10, <1>11, <1>12, <1>13,
     <1>14, <1>15, <1>16, <1>17, <1>18, <1>19, <1>20, <1>21 DEF RequestMoves, CallStep

\* The rows come from requests that were far enough.
LEMMA RequestsKeepRows ==
    ASSUME NEW c \in Calls, SetTypes, TokenTypes, CallTypes, CallFits, RowsFit, RequestMoves(c)
    PROVE  RowsFit'
<1>k. \A t \in Tokens : (Known(t) => Known(t)') /\ (Born(t) => Born(t)')
  BY KnownStays
<1>p. /\ call'[c].pc = "done" => Known(c)'
      /\ call'[c].pc \in {"consume", "done"} => Born(c)'
      /\ \A t \in Tokens : Known(t)' => Born(t)'
  BY DEF Known, Born
<1>. USE <1>k, SessionsAssumption DEF SetTypes, TokenTypes, CallFits, RequestFits, RowsFit,
         At, Present, TokenRows, Rotating, NoRow, LiveToken, RotatedToken, RevokedToken,
         Answered
<1>1. ASSUME NEW op \in Operations, NEW t \in Tokens \cup {NoToken}, Arrive(c, op, t)
      PROVE  RowsFit'
  BY <1>1 DEF Arrive, NoCall, FirstStep
<1>2. CASE Authenticate(c)
  BY <1>2 DEF Authenticate
<1>3. CASE FindToken(c)
  BY <1>3 DEF FindToken
<1>4. CASE LoadUser(c)
  BY <1>4 DEF LoadUser
<1>5. CASE CreateSuccessor(c)
  BY <1>5, <1>p, RequestsKeepCallTypes DEF CreateSuccessor, To, Tokens, CallTypes, CallRows
<1>6. CASE ConsumeParent(c)
  BY <1>6, <1>p DEF ConsumeParent, To, Tokens, CallTypes, CallRows
<1>7. CASE FindSession(c)
  BY <1>7, SessionIsFound DEF CallTypes, CallRows
<1>8. CASE ListSession(c)
  BY <1>8 DEF ListSession
<1>9. CASE RevokeToken(c)
  BY <1>9 DEF RevokeToken
<1>10. CASE LoggedOut(c)
  BY <1>10 DEF LoggedOut
<1>11. CASE VerifyIdentity(c) \/ NotFound(c)
  BY <1>11 DEF VerifyIdentity, NotFound
<1>12. CASE ReadPreferences(c)
  BY <1>12 DEF ReadPreferences
<1>13. CASE LinkUser(c)
  BY <1>13 DEF LinkUser
<1>14. CASE PutUser(c)
  BY <1>14 DEF PutUser
<1>15. CASE OpenSession(c)
  BY <1>15, <1>p DEF OpenSession, To, Tokens, CallTypes, CallRows
<1>16. CASE ListTokens(c)
  BY <1>16 DEF ListTokens
<1>17. CASE DeleteToken(c)
  BY <1>17 DEF DeleteToken
<1>18. CASE NothingToDelete(c)
  BY <1>18 DEF NothingToDelete
<1>19. CASE DeleteUser(c)
  BY <1>19 DEF DeleteUser
<1>20. CASE Raises(c)
  BY <1>20 DEF Raises
<1>21. CASE EraseRows(c) \/ EraseEvents(c)
  BY <1>21 DEF EraseRows, EraseEvents
<1>. QED
  BY <1>1, <1>2, <1>3, <1>4, <1>5, <1>6, <1>7, <1>8, <1>9, <1>10, <1>11, <1>12, <1>13,
     <1>14, <1>15, <1>16, <1>17, <1>18, <1>19, <1>20, <1>21 DEF RequestMoves, CallStep

\* A request's step keeps the shape of the sessions.
LEMMA RequestsKeepShape ==
    ASSUME NEW c \in Calls, Shaped, RequestMoves(c)
    PROVE  Shaped'
<1>1. TokenTypes /\ CallTypes /\ CallFits /\ RowsFit /\ SetTypes
  BY DEF SetTypes, Shaped, SessionsTypeOK, TokenTypes, CallTypes, CallRows
<1>2. TokenTypes' /\ CallTypes' /\ RowsFit' /\ RequestFits(c)' /\ OthersStay(c)
  BY <1>1, RequestsKeepTokenTypes, RequestsKeepCallTypes, RequestsKeepCalls, RequestsKeepRows
<1>3. ASSUME NEW e \in Calls \ {c}
      PROVE  RequestFits(e)'
  <2>1. \A t \in Tokens : (Known(t) => Known(t)') /\ (Born(t) => Born(t)')
    BY <1>1, KnownStays
  <2>2. handed \subseteq handed'
    BY <1>1, HandedGrows
  <2>3. RequestFits(e) /\ call[e] \in CallRows
    BY <1>1 DEF CallFits, CallTypes
  <2>. QED
    BY <1>2, <2>1, <2>2, <2>3 DEF RequestFits, OthersStay, CallRows
<1>4. CallFits'
  BY <1>2, <1>3 DEF CallFits
<1>5. SetTypes'
  BY <1>1, RequestsKeepSets
<1>. QED
  BY <1>2, <1>4, <1>5 DEF SetTypes, Shaped, SessionsTypeOK, TokenTypes, CallTypes, CallRows

\* The grace window of a token may close at any time.
LEMMA GraceKeepsShape ==
    ASSUME NEW t \in Tokens, Shaped, GraceCloses(t)
    PROVE  Shaped'
<1>1. tokens' \in [Tokens -> TokenRows \cup {NoRow}]
  BY DEF GraceCloses, Shaped, SessionsTypeOK, TokenRows, NoRow, TokenStates
<1>2. CallFits'
  BY DEF GraceCloses, Shaped, CallFits, RequestFits, OperationFits, Born, Known
<1>3. RowsFit'
  BY SessionsAssumption DEF GraceCloses, Shaped, SessionsTypeOK, RowsFit, Born, Known, Present,
     TokenRows, NoRow, TokenStates
<1>. QED
  BY <1>1, <1>2, <1>3 DEF GraceCloses, Shaped, SessionsTypeOK

-----------------------------------------------------------------------------
(* Logout                                                                  *)

\* Only a rotation and a sign-in write a live token, each one of its own.
LEMMA NewLiveTokens ==
    ASSUME NEW c \in Calls, Shaped, RequestMoves(c)
    PROVE  \A x \in Tokens : (Present(x) /\ tokens[x].state = "live")' =>
              \/ Present(x) /\ tokens[x].state = "live" /\ tokens'[x].line = tokens[x].line
              \/ At(c, "create") /\ x = c /\ tokens'[x].line = call[c].line
              \/ At(c, "open") /\ x = c /\ tokens'[x].line = c
<1>. USE SessionsAssumption DEF Shaped, SessionsTypeOK, Present, At, Tokens, TokenRows,
         NoRow, LiveToken, RotatedToken, RevokedToken
<1>1. ASSUME NEW op \in Operations, NEW t \in Tokens \cup {NoToken}, Arrive(c, op, t)
      PROVE  \A x \in Tokens : (Present(x) /\ tokens[x].state = "live")' =>
              \/ Present(x) /\ tokens[x].state = "live" /\ tokens'[x].line = tokens[x].line
              \/ At(c, "create") /\ x = c /\ tokens'[x].line = call[c].line
              \/ At(c, "open") /\ x = c /\ tokens'[x].line = c
  BY <1>1 DEF Arrive, NoCall, FirstStep
<1>2. CASE Authenticate(c)
  BY <1>2 DEF Authenticate
<1>3. CASE FindToken(c)
  BY <1>3 DEF FindToken, Beside
<1>4. CASE LoadUser(c)
  BY <1>4 DEF LoadUser
<1>5. CASE CreateSuccessor(c)
  BY <1>5 DEF CreateSuccessor
<1>6. CASE ConsumeParent(c)
  BY <1>6 DEF ConsumeParent
<1>7. CASE FindSession(c)
  BY <1>7, SessionIsFound DEF CallTypes, CallRows
<1>8. CASE ListSession(c)
  BY <1>8 DEF ListSession
<1>9. CASE RevokeToken(c)
  BY <1>9 DEF RevokeToken
<1>10. CASE LoggedOut(c)
  BY <1>10 DEF LoggedOut
<1>11. CASE VerifyIdentity(c) \/ NotFound(c)
  BY <1>11 DEF VerifyIdentity, NotFound
<1>12. CASE ReadPreferences(c)
  BY <1>12 DEF ReadPreferences, GoesToWrite
<1>13. CASE LinkUser(c)
  BY <1>13 DEF LinkUser, GoesToWrite
<1>14. CASE PutUser(c)
  BY <1>14 DEF PutUser
<1>15. CASE OpenSession(c)
  BY <1>15 DEF OpenSession
<1>16. CASE ListTokens(c)
  BY <1>16 DEF ListTokens
<1>17. CASE DeleteToken(c)
  BY <1>17 DEF DeleteToken
<1>18. CASE NothingToDelete(c)
  BY <1>18 DEF NothingToDelete
<1>19. CASE DeleteUser(c)
  BY <1>19 DEF DeleteUser
<1>20. CASE Raises(c)
  BY <1>20 DEF Raises
<1>21. CASE EraseRows(c) \/ EraseEvents(c)
  BY <1>21 DEF EraseRows, EraseEvents
<1>. QED
  BY <1>1, <1>2, <1>3, <1>4, <1>5, <1>6, <1>7, <1>8, <1>9, <1>10, <1>11, <1>12, <1>13,
     <1>14, <1>15, <1>16, <1>17, <1>18, <1>19, <1>20, <1>21 DEF RequestMoves, CallStep

\* A rotation begins with a live token of its session, and no logout is alone then.
LEMMA NewRotations ==
    ASSUME NEW c \in Calls, Shaped, RequestMoves(c)
    PROVE  (call'[c].pc \in Rotating =>
              \/ call[c].pc \in Rotating /\ call'[c].line = call[c].line
              \/ /\ LiveOf(call'[c].line) # {}
                 /\ \A e \in Calls \ {c} : At(e, "revoke") /\ call[e].line = call'[c].line =>
                       ~call'[e].alone)
<1>. USE SessionsAssumption DEF Shaped, SessionsTypeOK, CallFits, RequestFits, LiveOf,
         Rotating, Present, At, To, Tokens, TokenRows, NoRow
<1>1. ASSUME NEW op \in Operations, NEW t \in Tokens \cup {NoToken}, Arrive(c, op, t)
      PROVE  (call'[c].pc \in Rotating =>
              \/ call[c].pc \in Rotating /\ call'[c].line = call[c].line
              \/ /\ LiveOf(call'[c].line) # {}
                 /\ \A e \in Calls \ {c} : At(e, "revoke") /\ call[e].line = call'[c].line =>
                       ~call'[e].alone)
  BY <1>1 DEF Arrive, NoCall, FirstStep
<1>2. CASE Authenticate(c)
  BY <1>2 DEF Authenticate
<1>3. CASE FindToken(c)
  <2>. DEFINE found == tokens[call[c].on]
  <2>1. CASE found.state = "live" /\ call[c].on \in Tokens
    <3>2. \A e \in Calls \ {c} : At(e, "revoke") /\ call[e].line = found.line =>
                ~Beside(c, found.line)[e].alone
      BY DEF Beside
    <3>3. /\ call'[c].line = found.line
          /\ \A e \in Calls \ {c} : call'[e] = Beside(c, found.line)[e]
      BY <1>3, <2>1, TokenIsFound DEF CallTypes, CallRows
    <3>4. call[c].on \in LiveOf(found.line)
      BY <2>1
    <3>. QED
      BY <3>2, <3>3, <3>4
  <2>2. CASE found.state # "live"
    <3>1. call'[c].pc \in {"done", "replay"}
      BY <1>3, <2>2, TokenIsFound DEF CallTypes, CallRows
    <3>. QED
      BY <3>1
  <2>. QED
    BY <1>3, <2>1, <2>2 DEF FindToken
<1>4. CASE LoadUser(c)
  BY <1>4 DEF LoadUser
<1>5. CASE CreateSuccessor(c)
  BY <1>5 DEF CreateSuccessor
<1>6. CASE ConsumeParent(c)
  BY <1>6 DEF ConsumeParent
<1>7. CASE FindSession(c)
  BY <1>7, SessionIsFound DEF CallTypes, CallRows
<1>8. CASE ListSession(c)
  BY <1>8 DEF ListSession
<1>9. CASE RevokeToken(c)
  BY <1>9 DEF RevokeToken
<1>10. CASE LoggedOut(c)
  BY <1>10 DEF LoggedOut
<1>11. CASE VerifyIdentity(c) \/ NotFound(c)
  BY <1>11 DEF VerifyIdentity, NotFound
<1>12. CASE ReadPreferences(c)
  BY <1>12 DEF ReadPreferences, GoesToWrite
<1>13. CASE LinkUser(c)
  BY <1>13 DEF LinkUser, GoesToWrite
<1>14. CASE PutUser(c)
  BY <1>14 DEF PutUser
<1>15. CASE OpenSession(c)
  BY <1>15 DEF OpenSession
<1>16. CASE ListTokens(c)
  BY <1>16 DEF ListTokens
<1>17. CASE DeleteToken(c)
  BY <1>17 DEF DeleteToken
<1>18. CASE NothingToDelete(c)
  BY <1>18 DEF NothingToDelete
<1>19. CASE DeleteUser(c)
  BY <1>19 DEF DeleteUser
<1>20. CASE Raises(c)
  BY <1>20 DEF Raises
<1>21. CASE EraseRows(c) \/ EraseEvents(c)
  BY <1>21 DEF EraseRows, EraseEvents
<1>. QED
  BY <1>1, <1>2, <1>3, <1>4, <1>5, <1>6, <1>7, <1>8, <1>9, <1>10, <1>11, <1>12, <1>13,
     <1>14, <1>15, <1>16, <1>17, <1>18, <1>19, <1>20, <1>21 DEF RequestMoves, CallStep

\* A logout lists, revokes one by one, and is then done.
LEMMA LogoutSteps ==
    ASSUME NEW c \in Calls, Shaped, RequestMoves(c)
    PROVE  (At(c, "revoke")' => ListSession(c) \/ RevokeToken(c)) /\ (closed' = closed \/ LoggedOut(c))
<1>. USE SessionsAssumption DEF Shaped, SessionsTypeOK, At, To
<1>1. ASSUME NEW op \in Operations, NEW t \in Tokens \cup {NoToken}, Arrive(c, op, t)
      PROVE  (At(c, "revoke")' => ListSession(c) \/ RevokeToken(c)) /\ (closed' = closed \/ LoggedOut(c))
  BY <1>1 DEF Arrive, NoCall, FirstStep
<1>2. CASE Authenticate(c)
  BY <1>2 DEF Authenticate
<1>3. CASE FindToken(c)
  <2>1. CASE tokens[call[c].on].state = "live"
    <3>. DEFINE line == tokens[call[c].on].line
    <3>1. call' = [Beside(c, line) EXCEPT
                      ![c] = [@ EXCEPT !.pc = "rotate", !.line = line]]
      BY <1>3, <2>1 DEF FindToken
    <3>2. Beside(c, line)[c] = call[c] /\ DOMAIN Beside(c, line) = Calls
      BY DEF Beside
    <3>3. call'[c].pc = "rotate"
      BY <3>1, <3>2
    <3>. QED
      BY <1>3, <3>3 DEF FindToken
  <2>2. CASE tokens[call[c].on].state # "live"
    <3>1. call'[c].pc \in {"done", "replay"}
      BY <1>3, <2>2, TokenIsFound DEF CallTypes, CallRows
    <3>. QED
      BY <1>3, <3>1 DEF FindToken
  <2>. QED
    BY <2>1, <2>2
<1>4. CASE LoadUser(c)
  BY <1>4 DEF LoadUser
<1>5. CASE CreateSuccessor(c)
  BY <1>5 DEF CreateSuccessor
<1>6. CASE ConsumeParent(c)
  BY <1>6 DEF ConsumeParent
<1>7. CASE FindSession(c)
  BY <1>7, SessionIsFound DEF CallTypes, CallRows
<1>8. CASE ListSession(c)
  BY <1>8 DEF ListSession
<1>9. CASE RevokeToken(c)
  BY <1>9 DEF RevokeToken
<1>10. CASE LoggedOut(c)
  BY <1>10 DEF LoggedOut
<1>11. CASE VerifyIdentity(c) \/ NotFound(c)
  BY <1>11 DEF VerifyIdentity, NotFound
<1>12. CASE ReadPreferences(c)
  BY <1>12 DEF ReadPreferences, GoesToWrite
<1>13. CASE LinkUser(c)
  BY <1>13 DEF LinkUser, GoesToWrite
<1>14. CASE PutUser(c)
  BY <1>14 DEF PutUser
<1>15. CASE OpenSession(c)
  BY <1>15 DEF OpenSession
<1>16. CASE ListTokens(c)
  BY <1>16 DEF ListTokens
<1>17. CASE DeleteToken(c)
  BY <1>17 DEF DeleteToken
<1>18. CASE NothingToDelete(c)
  BY <1>18 DEF NothingToDelete
<1>19. CASE DeleteUser(c)
  BY <1>19 DEF DeleteUser
<1>20. CASE Raises(c)
  BY <1>20 DEF Raises
<1>21. CASE EraseRows(c) \/ EraseEvents(c)
  BY <1>21 DEF EraseRows, EraseEvents
<1>. QED
  BY <1>1, <1>2, <1>3, <1>4, <1>5, <1>6, <1>7, <1>8, <1>9, <1>10, <1>11, <1>12, <1>13,
     <1>14, <1>15, <1>16, <1>17, <1>18, <1>19, <1>20, <1>21 DEF RequestMoves, CallStep

\* A closed session stays closed, and a logout that is alone has listed what is live.
LEMMA RequestsKeepLogouts ==
    ASSUME NEW c \in Calls, Shaped, LogoutIsFinal, RequestMoves(c)
    PROVE  LogoutIsFinal'
<1>1. TokenTypes /\ CallTypes /\ CallFits /\ RowsFit /\ SetTypes
  BY DEF SetTypes, Shaped, SessionsTypeOK, TokenTypes, CallTypes, CallRows
<1>2. CallTypes' /\ OthersStay(c)
  BY <1>1, RequestsKeepCallTypes
<1>3. \A line \in Tokens : Known(line) /\ line \in Calls => call[line].pc = "done"
  BY SessionsAssumption DEF Known
<1>4. ASSUME NEW line \in Tokens, Known(line), LiveOf(line) = {},
             \A e \in Calls : call[e].pc \in Rotating => call[e].line # line
      PROVE  /\ LiveOf(line)' = {}
             /\ \A e \in Calls : call'[e].pc \in Rotating => call'[e].line # line
  <2>1. LiveOf(line)' = {}
    BY <1>3, <1>4, NewLiveTokens DEF LiveOf, At, Rotating
  <2>2. call'[c].pc \in Rotating => call'[c].line # line
    BY <1>4, NewRotations
  <2>. QED
    BY <1>4, <2>1, <2>2, <1>2 DEF OthersStay
<1>5. ASSUME NEW e \in Calls \ {c}, At(e, "revoke")', call'[e].alone
      PROVE  /\ LiveOf(call[e].line)' \subseteq call'[e].todo
             /\ ~RotatedBeside(e, call[e].line)'
             /\ call'[e].line = call[e].line
  <2>. DEFINE line == call[e].line
  <2>1. /\ At(e, "revoke") /\ call[e].alone /\ call'[e].line = line /\ call'[e].todo = call[e].todo
    BY <1>2, <1>5 DEF OthersStay, At
  <2>2. /\ LiveOf(line) \subseteq call[e].todo
        /\ \A x \in Calls \ {e} : call[x].pc \in Rotating => call[x].line # line
        /\ line \in Tokens /\ Known(line)
    BY <1>1, <2>1 DEF LogoutIsFinal, RotatedBeside, CallFits, RequestFits, At
  <2>3. LiveOf(line)' \subseteq call'[e].todo
    BY <1>3, <2>1, <2>2, NewLiveTokens DEF LiveOf, At, Rotating
  <2>4. call'[c].pc \in Rotating => call'[c].line # line
    BY <1>5, <2>1, <2>2, NewRotations
  <2>5. \A x \in Calls \ {c} : call'[x].pc = call[x].pc /\ call'[x].line = call[x].line
    BY <1>2 DEF OthersStay
  <2>. QED
    BY <2>1, <2>2, <2>3, <2>4, <2>5 DEF RotatedBeside
<1>6. ASSUME At(c, "revoke")', call'[c].alone
      PROVE  /\ LiveOf(call[c].line)' \subseteq call'[c].todo
             /\ ~RotatedBeside(c, call[c].line)'
  <2>1. CASE ListSession(c)
    <3>1. tokens' = tokens
      BY <2>1 DEF ListSession
    <3>2. call' = [call EXCEPT
                      ![c] = [@ EXCEPT !.pc = "revoke", !.todo = ToRevoke(call[c].line),
                                       !.alone = ~RotatedBeside(c, call[c].line)]]
      BY <2>1 DEF ListSession
    <3>3. /\ call'[c].line = call[c].line /\ call'[c].todo = LiveOf(call[c].line)
          /\ ~RotatedBeside(c, call[c].line)
      BY <1>1, <1>6, <3>2 DEF CallTypes, CallRows, ToRevoke
    <3>4. LiveOf(call[c].line)' = LiveOf(call[c].line)
      BY <3>1, <3>3 DEF LiveOf, Present
    <3>. QED
      BY <1>2, <3>3, <3>4 DEF RotatedBeside, OthersStay
  <2>2. CASE RevokeToken(c)
    <3>1. PICK t \in call[c].todo :
             /\ tokens' = [tokens EXCEPT ![t] = RevokedToken(call[c].line)]
             /\ call' = [call EXCEPT ![c].todo = @ \ {t}]
      BY <2>2 DEF RevokeToken
    <3>2. /\ call'[c].line = call[c].line /\ call'[c].todo = call[c].todo \ {t}
          /\ call'[c].alone = call[c].alone /\ At(c, "revoke")
      BY <1>1, <2>2, <3>1 DEF CallTypes, CallRows, RevokeToken
    <3>3. LiveOf(call[c].line)' \subseteq LiveOf(call[c].line) \ {t}
      BY <1>1, <3>1, <3>2 DEF TokenTypes, LiveOf, Present, RevokedToken
    <3>. QED
      BY <1>2, <1>6, <3>2, <3>3 DEF LogoutIsFinal, RotatedBeside, OthersStay
  <2>3. ListSession(c) \/ RevokeToken(c)
    BY <1>6, LogoutSteps
  <2>. QED
    BY <2>1, <2>2, <2>3
<1>7. ASSUME NEW line \in closed', line \notin closed
      PROVE  /\ LiveOf(line) = {}
             /\ \A e \in Calls : call[e].pc \in Rotating => call[e].line # line
             /\ line \in Tokens /\ Known(line)
  <2>1. LoggedOut(c)
    BY <1>7, LogoutSteps
  <2>2. line = call[c].line /\ call[c].alone /\ call[c].todo = {} /\ At(c, "revoke")
    BY <1>7, <2>1 DEF LoggedOut
  <2>3. line \in Tokens /\ Known(line)
    BY <1>1, <2>2 DEF CallFits, RequestFits, At
  <2>4. call[c].pc \notin Rotating
    BY <2>2 DEF At, Rotating
  <2>. QED
    BY <2>2, <2>3, <2>4 DEF LogoutIsFinal, RotatedBeside
<1>8. ASSUME NEW line \in closed'
      PROVE  /\ LiveOf(line)' = {}
             /\ \A e \in Calls : call'[e].pc \in Rotating => call'[e].line # line
  <2>1. line \in Tokens /\ Known(line)
    BY <1>1, <1>7 DEF RowsFit, SetTypes
  <2>. QED
    BY <1>4, <1>7, <2>1 DEF LogoutIsFinal
<1>. QED
  BY <1>5, <1>6, <1>8 DEF LogoutIsFinal

\* The grace window closes on no live token.
LEMMA GraceKeepsLogouts ==
    ASSUME NEW t \in Tokens, Shaped, LogoutIsFinal, GraceCloses(t)
    PROVE  LogoutIsFinal'
<1>1. \A line : LiveOf(line)' \subseteq LiveOf(line)
  BY DEF GraceCloses, Shaped, SessionsTypeOK, LiveOf, Present, TokenRows, NoRow
<1>. QED
  BY <1>1 DEF GraceCloses, LogoutIsFinal, RotatedBeside, At

-----------------------------------------------------------------------------
(* Erasure                                                                 *)

\* Whoever comes to a write beside the end of an erasure is noticed, and so is an
\* erasure that comes to its end beside a write.
LEMMA NewWriters ==
    ASSUME NEW c \in Calls, Shaped, RequestMoves(c)
    PROVE  /\ raced => raced'
           /\ call'[c].pc \in Writing =>
                 call[c].pc \in Writing \/ raced' \/ ~RacesErasure(c)
           /\ (call'[c].pc = "delete" => call[c].pc = "delete" \/ raced' \/ ~WrittenBeside(c))
           /\ (call'[c].pc = "leave" => call[c].pc = "delete")
<1>. USE SessionsAssumption DEF Shaped, SessionsTypeOK, CallFits, RequestFits, Writing,
         Rotating, Present, At, To
<1>1. ASSUME NEW op \in Operations, NEW t \in Tokens \cup {NoToken}, Arrive(c, op, t)
      PROVE  /\ raced => raced'
             /\ call'[c].pc \in Writing =>
                   call[c].pc \in Writing \/ raced' \/ ~RacesErasure(c)
           /\ (call'[c].pc = "delete" => call[c].pc = "delete" \/ raced' \/ ~WrittenBeside(c))
           /\ (call'[c].pc = "leave" => call[c].pc = "delete")
  BY <1>1 DEF Arrive, NoCall, FirstStep
<1>2. CASE Authenticate(c)
  BY <1>2 DEF Authenticate
<1>3. CASE FindToken(c)
  <2>1. CASE tokens[call[c].on].state = "live"
    <3>. DEFINE line == tokens[call[c].on].line
    <3>1. /\ call' = [Beside(c, line) EXCEPT
                         ![c] = [@ EXCEPT !.pc = "rotate", !.line = line]]
          /\ raced' = (raced \/ RacesErasure(c))
      BY <1>3, <2>1 DEF FindToken
    <3>2. Beside(c, line)[c] = call[c] /\ DOMAIN Beside(c, line) = Calls
      BY DEF Beside
    <3>3. call'[c].pc = "rotate"
      BY <3>1, <3>2
    <3>. QED
      BY <3>1, <3>3
  <2>2. CASE tokens[call[c].on].state # "live"
    <3>1. call'[c].pc \in {"done", "replay"} /\ raced' = raced
      BY <1>3, <2>2, TokenIsFound DEF CallTypes, CallRows
    <3>. QED
      BY <3>1
  <2>. QED
    BY <2>1, <2>2
<1>4. CASE LoadUser(c)
  BY <1>4 DEF LoadUser
<1>5. CASE CreateSuccessor(c)
  BY <1>5 DEF CreateSuccessor
<1>6. CASE ConsumeParent(c)
  BY <1>6 DEF ConsumeParent
<1>7. CASE FindSession(c)
  BY <1>7, SessionIsFound DEF CallTypes, CallRows
<1>8. CASE ListSession(c)
  <2>1. call'[c].pc = "revoke" /\ raced' = (raced \/ RacesErasure(c))
    BY <1>8 DEF ListSession
  <2>. QED
    BY <2>1
<1>9. CASE RevokeToken(c)
  BY <1>9 DEF RevokeToken
<1>10. CASE LoggedOut(c)
  BY <1>10 DEF LoggedOut
<1>11. CASE VerifyIdentity(c) \/ NotFound(c)
  BY <1>11 DEF VerifyIdentity, NotFound
<1>12. CASE ReadPreferences(c)
  <2>1. \/ call'[c].pc = "done" /\ raced' = raced
        \/ call'[c].pc = "put" /\ raced' = (raced \/ RacesErasure(c))
    BY <1>12 DEF ReadPreferences, GoesToWrite
  <2>. QED
    BY <2>1
<1>13. CASE LinkUser(c)
  <2>1. \/ call'[c].pc = "done" /\ raced' = raced
        \/ call'[c].pc \in {"put", "open"} /\ raced' = (raced \/ RacesErasure(c))
    BY <1>13 DEF LinkUser, GoesToWrite
  <2>. QED
    BY <2>1
<1>14. CASE PutUser(c)
  BY <1>14 DEF PutUser
<1>15. CASE OpenSession(c)
  BY <1>15 DEF OpenSession
<1>16. CASE ListTokens(c)
  BY <1>16 DEF ListTokens
<1>17. CASE DeleteToken(c)
  BY <1>17 DEF DeleteToken
<1>18. CASE NothingToDelete(c)
  BY <1>18 DEF NothingToDelete
<1>19. CASE DeleteUser(c)
  BY <1>19 DEF DeleteUser
<1>20. CASE Raises(c)
  BY <1>20 DEF Raises
<1>21. CASE EraseRows(c) \/ EraseEvents(c)
  BY <1>21 DEF EraseRows, EraseEvents
<1>. QED
  BY <1>1, <1>2, <1>3, <1>4, <1>5, <1>6, <1>7, <1>8, <1>9, <1>10, <1>11, <1>12, <1>13,
     <1>14, <1>15, <1>16, <1>17, <1>18, <1>19, <1>20, <1>21 DEF RequestMoves, CallStep

\* Only a write puts a row, of a token or of the account.
LEMMA NewRows ==
    ASSUME NEW c \in Calls, Shaped, RequestMoves(c)
    PROVE  (user' => user \/ call[c].pc \in Writing) /\ (gone => gone')
           /\ (gone' # gone => At(c, "leave") /\ call'[c].pc = "done" /\ ~user')
           /\ (~user' => ~user \/ gone')
           /\ \A x \in Tokens : Present(x)' => Present(x) \/ call[c].pc \in Writing
<1>. USE SessionsAssumption DEF Shaped, SessionsTypeOK, Writing, Rotating, Present, At,
         Tokens, TokenRows, NoRow, LiveToken, RotatedToken, RevokedToken
<1>1. ASSUME NEW op \in Operations, NEW t \in Tokens \cup {NoToken}, Arrive(c, op, t)
      PROVE  (user' => user \/ call[c].pc \in Writing) /\ (gone => gone')
           /\ (gone' # gone => At(c, "leave") /\ call'[c].pc = "done" /\ ~user')
           /\ (~user' => ~user \/ gone')
           /\ \A x \in Tokens : Present(x)' => Present(x) \/ call[c].pc \in Writing
  BY <1>1 DEF Arrive, NoCall, FirstStep
<1>2. CASE Authenticate(c)
  BY <1>2 DEF Authenticate
<1>3. CASE FindToken(c)
  BY <1>3 DEF FindToken, Beside
<1>4. CASE LoadUser(c)
  BY <1>4 DEF LoadUser
<1>5. CASE CreateSuccessor(c)
  BY <1>5 DEF CreateSuccessor
<1>6. CASE ConsumeParent(c)
  BY <1>6 DEF ConsumeParent
<1>7. CASE FindSession(c)
  BY <1>7, SessionIsFound DEF CallTypes, CallRows
<1>8. CASE ListSession(c)
  BY <1>8 DEF ListSession
<1>9. CASE RevokeToken(c)
  BY <1>9 DEF RevokeToken
<1>10. CASE LoggedOut(c)
  BY <1>10 DEF LoggedOut
<1>11. CASE VerifyIdentity(c) \/ NotFound(c)
  BY <1>11 DEF VerifyIdentity, NotFound
<1>12. CASE ReadPreferences(c)
  BY <1>12 DEF ReadPreferences, GoesToWrite
<1>13. CASE LinkUser(c)
  BY <1>13 DEF LinkUser, GoesToWrite
<1>14. CASE PutUser(c)
  BY <1>14 DEF PutUser
<1>15. CASE OpenSession(c)
  BY <1>15 DEF OpenSession
<1>16. CASE ListTokens(c)
  BY <1>16 DEF ListTokens
<1>17. CASE DeleteToken(c)
  BY <1>17 DEF DeleteToken
<1>18. CASE NothingToDelete(c)
  BY <1>18 DEF NothingToDelete
<1>19. CASE DeleteUser(c)
  <2>1. call'[c].pc = "done"
    BY <1>19 DEF DeleteUser, To
  <2>. QED
    BY <1>19, <2>1 DEF DeleteUser
<1>20. CASE Raises(c)
  BY <1>20 DEF Raises
<1>21. CASE EraseRows(c) \/ EraseEvents(c)
  BY <1>21 DEF EraseRows, EraseEvents
<1>. QED
  BY <1>1, <1>2, <1>3, <1>4, <1>5, <1>6, <1>7, <1>8, <1>9, <1>10, <1>11, <1>12, <1>13,
     <1>14, <1>15, <1>16, <1>17, <1>18, <1>19, <1>20, <1>21 DEF RequestMoves, CallStep

\* An erasure lists the tokens, deletes one by one, and leaves after the last.
LEMMA ErasureSteps ==
    ASSUME NEW c \in Calls, Shaped, RequestMoves(c)
    PROVE  /\ At(c, "delete")' => ListTokens(c) \/ DeleteToken(c)
           /\ At(c, "leave")' => DeleteToken(c) \/ NothingToDelete(c)
<1>. USE SessionsAssumption DEF Shaped, SessionsTypeOK, At, To
<1>1. ASSUME NEW op \in Operations, NEW t \in Tokens \cup {NoToken}, Arrive(c, op, t)
      PROVE  /\ At(c, "delete")' => ListTokens(c) \/ DeleteToken(c)
             /\ At(c, "leave")' => DeleteToken(c) \/ NothingToDelete(c)
  BY <1>1 DEF Arrive, NoCall, FirstStep
<1>2. CASE Authenticate(c)
  BY <1>2 DEF Authenticate
<1>3. CASE FindToken(c)
  <2>1. CASE tokens[call[c].on].state = "live"
    <3>. DEFINE line == tokens[call[c].on].line
    <3>1. call' = [Beside(c, line) EXCEPT
                      ![c] = [@ EXCEPT !.pc = "rotate", !.line = line]]
      BY <1>3, <2>1 DEF FindToken
    <3>2. Beside(c, line)[c] = call[c] /\ DOMAIN Beside(c, line) = Calls
      BY DEF Beside
    <3>3. call'[c].pc = "rotate"
      BY <3>1, <3>2
    <3>. QED
      BY <3>3
  <2>2. CASE tokens[call[c].on].state # "live"
    BY <1>3, <2>2, TokenIsFound DEF CallTypes, CallRows
  <2>. QED
    BY <2>1, <2>2
<1>4. CASE LoadUser(c)
  BY <1>4 DEF LoadUser
<1>5. CASE CreateSuccessor(c)
  BY <1>5 DEF CreateSuccessor
<1>6. CASE ConsumeParent(c)
  BY <1>6 DEF ConsumeParent
<1>7. CASE FindSession(c)
  BY <1>7, SessionIsFound DEF CallTypes, CallRows
<1>8. CASE ListSession(c)
  BY <1>8 DEF ListSession
<1>9. CASE RevokeToken(c)
  BY <1>9 DEF RevokeToken
<1>10. CASE LoggedOut(c)
  BY <1>10 DEF LoggedOut
<1>11. CASE VerifyIdentity(c) \/ NotFound(c)
  BY <1>11 DEF VerifyIdentity, NotFound
<1>12. CASE ReadPreferences(c)
  BY <1>12 DEF ReadPreferences, GoesToWrite
<1>13. CASE LinkUser(c)
  BY <1>13 DEF LinkUser, GoesToWrite
<1>14. CASE PutUser(c)
  BY <1>14 DEF PutUser
<1>15. CASE OpenSession(c)
  BY <1>15 DEF OpenSession
<1>16. CASE ListTokens(c)
  BY <1>16 DEF ListTokens
<1>17. CASE DeleteToken(c)
  BY <1>17 DEF DeleteToken
<1>18. CASE NothingToDelete(c)
  BY <1>18 DEF NothingToDelete
<1>19. CASE DeleteUser(c)
  BY <1>19 DEF DeleteUser
<1>20. CASE Raises(c)
  BY <1>20 DEF Raises
<1>21. CASE EraseRows(c) \/ EraseEvents(c)
  BY <1>21 DEF EraseRows, EraseEvents
<1>. QED
  BY <1>1, <1>2, <1>3, <1>4, <1>5, <1>6, <1>7, <1>8, <1>9, <1>10, <1>11, <1>12, <1>13,
     <1>14, <1>15, <1>16, <1>17, <1>18, <1>19, <1>20, <1>21 DEF RequestMoves, CallStep

\* Nobody writes beside the end of an erasure, which has listed whatever there is.
LEMMA RequestsKeepErasure ==
    ASSUME NEW c \in Calls, Shaped, ErasureIsFinal, RequestMoves(c)
    PROVE  ErasureIsFinal'
<1>1. TokenTypes /\ CallTypes /\ CallFits /\ RowsFit /\ SetTypes
  BY DEF SetTypes, Shaped, SessionsTypeOK, TokenTypes, CallTypes, CallRows
<1>2. CallTypes' /\ OthersStay(c) /\ Shaped'
  BY <1>1, RequestsKeepCallTypes, RequestsKeepShape
<1>3. ~user' => gone'
  BY NewRows DEF ErasureIsFinal
<1>r. ~raced' => ~raced
  BY NewWriters
<1>4. ASSUME ~raced', NEW e \in Calls, call'[e].pc \in {"delete", "leave"}, NEW x \in Calls \ {e}
      PROVE  call'[x].pc \notin Writing
  <2>r. ~raced
    BY <1>r, <1>4
  <2>1. CASE e = c
    <3>1. call[c].pc \in {"delete", "leave"} \/ ~WrittenBeside(c)
      BY <1>4, <2>1, NewWriters
    <3>. QED
      BY <1>2, <2>r, <1>4, <2>1, <3>1 DEF OthersStay, ErasureIsFinal, WrittenBeside
  <2>2. CASE e # c
    <3>1. call[e].pc \in {"delete", "leave"}
      BY <1>2, <1>4, <2>2 DEF OthersStay
    <3>2. call[x].pc \notin Writing
      BY <2>r, <1>4, <3>1 DEF ErasureIsFinal
    <3>3. x = c => RacesErasure(c)
      BY <2>2, <3>1 DEF RacesErasure
    <3>. QED
      BY <1>2, <1>4, <3>2, <3>3, NewWriters DEF OthersStay
  <2>. QED
    BY <2>1, <2>2
<1>5. ASSUME ~raced', NEW e \in Calls, At(e, "delete")', NEW t \in Tokens, Present(t)'
      PROVE  t \in call'[e].todo
  <2>r. ~raced
    BY <1>r, <1>5
  <2>1. CASE e = c
    <3>1. CASE ListTokens(c)
      BY <1>1, <1>5, <2>1, <3>1 DEF ListTokens, Present, CallTypes, CallRows
    <3>2. CASE DeleteToken(c)
      <4>1. PICK x \in call[c].todo :
               /\ tokens' = [tokens EXCEPT ![x] = NoRow]
               /\ call'[c].todo = call[c].todo \ {x}
        BY <1>1, <3>2 DEF DeleteToken, CallTypes, CallRows
      <4>2. t # x /\ Present(t)
        BY <1>1, <1>5, <4>1 DEF Present, TokenTypes
      <4>3. t \in call[c].todo
        BY <2>r, <3>2, <4>2 DEF ErasureIsFinal, DeleteToken
      <4>. QED
        BY <2>1, <4>1, <4>2, <4>3
    <3>. QED
      BY <1>5, <2>1, <3>1, <3>2, ErasureSteps
  <2>2. CASE e # c
    <3>1. At(e, "delete") /\ call'[e].todo = call[e].todo
      BY <1>2, <1>5, <2>2 DEF OthersStay, At
    <3>2. call[c].pc \notin Writing
      BY <2>r, <2>2, <3>1 DEF ErasureIsFinal, At
    <3>3. Present(t)
      BY <1>5, <3>2, NewRows
    <3>. QED
      BY <2>r, <3>1, <3>3 DEF ErasureIsFinal
  <2>. QED
    BY <2>1, <2>2
<1>6. ASSUME ~raced', NEW e \in Calls, At(e, "leave")', NEW t \in Tokens
      PROVE  ~Present(t)'
  <2>r. ~raced
    BY <1>r, <1>6
  <2>1. CASE e = c
    <3>1. CASE DeleteToken(c)
      <4>1. PICK x \in call[c].todo :
               /\ tokens' = [tokens EXCEPT ![x] = NoRow]
               /\ call'[c].pc = IF call[c].todo = {x} THEN "leave" ELSE call[c].pc
        BY <1>1, <3>1, ZenonT(60) DEF DeleteToken, CallTypes, CallRows
      <4>2. call[c].todo = {x}
        BY <1>6, <2>1, <3>1, <4>1 DEF At, DeleteToken
      <4>. QED
        BY <1>1, <2>r, <3>1, <4>1, <4>2 DEF ErasureIsFinal, DeleteToken, Present, TokenTypes
    <3>2. CASE NothingToDelete(c)
      BY <2>r, <3>2 DEF ErasureIsFinal, NothingToDelete, Present
    <3>. QED
      BY <1>6, <2>1, <3>1, <3>2, ErasureSteps
  <2>2. CASE e # c
    <3>1. At(e, "leave")
      BY <1>2, <1>6, <2>2 DEF OthersStay, At
    <3>2. call[c].pc \notin Writing
      BY <2>r, <2>2, <3>1 DEF ErasureIsFinal, At
    <3>. QED
      BY <2>r, <3>1, <3>2, NewRows DEF ErasureIsFinal
  <2>. QED
    BY <2>1, <2>2
<1>7. ASSUME ~raced', gone'
      PROVE  /\ ~user'
             /\ \A t \in Tokens : ~Present(t)'
             /\ \A x \in Calls : call'[x].pc \notin Writing
  <2>r. ~raced
    BY <1>r, <1>7
  <2>1. CASE gone
    <3>1. /\ ~user /\ \A x \in Calls : call[x].pc \notin Writing
          /\ \A t \in Tokens : ~Present(t)
      BY <2>r, <2>1 DEF ErasureIsFinal
    <3>2. call'[c].pc \notin Writing
      BY <1>7, <2>1, <3>1, NewWriters DEF RacesErasure
    <3>. QED
      BY <1>2, <3>1, <3>2, NewRows DEF OthersStay
  <2>2. CASE ~gone
    <3>1. At(c, "leave") /\ call'[c].pc = "done" /\ ~user'
      BY <1>7, <2>2, NewRows
    <3>2. call[c].pc \notin Writing /\ call'[c].pc \notin Writing
      BY <3>1 DEF At, Writing, Rotating
    <3>3. \A x \in Calls \ {c} : call[x].pc \notin Writing
      BY <2>r, <3>1 DEF ErasureIsFinal, At
    <3>4. \A t \in Tokens : ~Present(t)
      BY <2>r, <3>1 DEF ErasureIsFinal
    <3>. QED
      BY <1>2, <3>1, <3>2, <3>3, <3>4, NewRows DEF OthersStay
  <2>. QED
    BY <2>1, <2>2
<1>. QED
  BY <1>3, <1>4, <1>5, <1>6, <1>7 DEF ErasureIsFinal, At

\* The grace window closes on a token that is there.
LEMMA GraceKeepsErasure ==
    ASSUME NEW t \in Tokens, Shaped, ErasureIsFinal, GraceCloses(t)
    PROVE  ErasureIsFinal'
<1>1. \A x \in Tokens : Present(x)' => Present(x)
  BY DEF GraceCloses, Shaped, SessionsTypeOK, Present, TokenRows, NoRow
<1>. QED
  BY <1>1 DEF GraceCloses, ErasureIsFinal, At

-----------------------------------------------------------------------------
(* Rotation                                                                *)

\* A request keeps its operation, and its session once it has found it.
LEMMA RequestsGoOn ==
    ASSUME NEW c \in Calls, Shaped, RequestMoves(c)
    PROVE  (call[c].pc # "idle" => call'[c].op = call[c].op) /\ call'[c].pc # "idle"
           /\ (call[c].line # NoToken => call'[c].line = call[c].line)
<1>. USE SessionsAssumption DEF Shaped, SessionsTypeOK, CallFits, RequestFits,
         OperationFits, Rotating, At, To
<1>1. ASSUME NEW op \in Operations, NEW t \in Tokens \cup {NoToken}, Arrive(c, op, t)
      PROVE  (call[c].pc # "idle" => call'[c].op = call[c].op) /\ call'[c].pc # "idle"
           /\ (call[c].line # NoToken => call'[c].line = call[c].line)
  BY <1>1 DEF Arrive, NoCall, FirstStep
<1>2. CASE Authenticate(c)
  BY <1>2 DEF Authenticate
<1>3. CASE FindToken(c)
  <2>1. CASE tokens[call[c].on].state = "live"
    <3>. DEFINE line == tokens[call[c].on].line
    <3>1. call' = [Beside(c, line) EXCEPT
                      ![c] = [@ EXCEPT !.pc = "rotate", !.line = line]]
      BY <1>3, <2>1 DEF FindToken
    <3>2. Beside(c, line)[c] = call[c] /\ DOMAIN Beside(c, line) = Calls
      BY DEF Beside
    <3>3. /\ call'[c].pc = "rotate" /\ call'[c].line = line
          /\ call'[c].on = call[c].on /\ call'[c].op = call[c].op
      BY <3>1, <3>2
    <3>. QED
      BY <1>3, <2>1, <3>3 DEF FindToken
  <2>2. CASE tokens[call[c].on].state # "live"
    BY <1>3, <2>2, TokenIsFound DEF CallTypes, CallRows
  <2>. QED
    BY <2>1, <2>2
<1>4. CASE LoadUser(c)
  BY <1>4 DEF LoadUser
<1>5. CASE CreateSuccessor(c)
  BY <1>5 DEF CreateSuccessor
<1>6. CASE ConsumeParent(c)
  BY <1>6 DEF ConsumeParent
<1>7. CASE FindSession(c)
  BY <1>7, SessionIsFound DEF CallTypes, CallRows
<1>8. CASE ListSession(c)
  BY <1>8 DEF ListSession
<1>9. CASE RevokeToken(c)
  BY <1>9 DEF RevokeToken
<1>10. CASE LoggedOut(c)
  BY <1>10 DEF LoggedOut
<1>11. CASE VerifyIdentity(c) \/ NotFound(c)
  BY <1>11 DEF VerifyIdentity, NotFound
<1>12. CASE ReadPreferences(c)
  BY <1>12 DEF ReadPreferences, GoesToWrite
<1>13. CASE LinkUser(c)
  BY <1>13 DEF LinkUser, GoesToWrite
<1>14. CASE PutUser(c)
  BY <1>14 DEF PutUser
<1>15. CASE OpenSession(c)
  BY <1>15 DEF OpenSession
<1>16. CASE ListTokens(c)
  BY <1>16 DEF ListTokens
<1>17. CASE DeleteToken(c)
  BY <1>17 DEF DeleteToken
<1>18. CASE NothingToDelete(c)
  BY <1>18 DEF NothingToDelete
<1>19. CASE DeleteUser(c)
  BY <1>19 DEF DeleteUser
<1>20. CASE Raises(c)
  BY <1>20 DEF Raises
<1>21. CASE EraseRows(c) \/ EraseEvents(c)
  BY <1>21 DEF EraseRows, EraseEvents
<1>. QED
  BY <1>1, <1>2, <1>3, <1>4, <1>5, <1>6, <1>7, <1>8, <1>9, <1>10, <1>11, <1>12, <1>13,
     <1>14, <1>15, <1>16, <1>17, <1>18, <1>19, <1>20, <1>21 DEF RequestMoves, CallStep

\* A rotation follows the token it was asked with, and writes its successor first.
LEMMA RotationSteps ==
    ASSUME NEW c \in Calls, Shaped, RequestMoves(c)
    PROVE  (At(c, "consume")' => CreateSuccessor(c))
           /\ (call'[c].pc \in Rotating =>
                 \/ /\ call[c].pc \in Rotating
                    /\ call'[c].on = call[c].on /\ call'[c].line = call[c].line
                 \/ /\ tokens' = tokens /\ call'[c].on \in Tokens /\ Present(call'[c].on)
                    /\ tokens[call'[c].on].line = call'[c].line)
<1>. USE SessionsAssumption DEF Shaped, SessionsTypeOK, CallFits, RequestFits, Rotating,
         Present, At, To, NoRow, TokenRows
<1>1. ASSUME NEW op \in Operations, NEW t \in Tokens \cup {NoToken}, Arrive(c, op, t)
      PROVE  (At(c, "consume")' => CreateSuccessor(c))
           /\ (call'[c].pc \in Rotating =>
                 \/ /\ call[c].pc \in Rotating
                    /\ call'[c].on = call[c].on /\ call'[c].line = call[c].line
                 \/ /\ tokens' = tokens /\ call'[c].on \in Tokens /\ Present(call'[c].on)
                    /\ tokens[call'[c].on].line = call'[c].line)
  BY <1>1 DEF Arrive, NoCall, FirstStep
<1>2. CASE Authenticate(c)
  BY <1>2 DEF Authenticate
<1>3. CASE FindToken(c)
  <2>1. CASE tokens[call[c].on].state = "live"
    <3>1. /\ call'[c].pc = "rotate" /\ call'[c].line = tokens[call[c].on].line
          /\ call'[c].on = call[c].on /\ call'[c].op = call[c].op
      BY <1>3, <2>1, TokenIsFound DEF CallTypes, CallRows
    <3>2. call[c].on \in Tokens /\ tokens' = tokens
      BY <1>3, <2>1 DEF FindToken
    <3>. QED
      BY <1>3, <2>1, <3>1, <3>2
  <2>2. CASE tokens[call[c].on].state # "live"
    <3>1. call'[c].pc \in {"done", "replay"}
      BY <1>3, <2>2, TokenIsFound DEF CallTypes, CallRows
    <3>. QED
      BY <3>1
  <2>. QED
    BY <2>1, <2>2
<1>4. CASE LoadUser(c)
  BY <1>4 DEF LoadUser
<1>5. CASE CreateSuccessor(c)
  BY <1>5 DEF CreateSuccessor
<1>6. CASE ConsumeParent(c)
  BY <1>6 DEF ConsumeParent
<1>7. CASE FindSession(c)
  BY <1>7, SessionIsFound DEF CallTypes, CallRows
<1>8. CASE ListSession(c)
  BY <1>8 DEF ListSession
<1>9. CASE RevokeToken(c)
  BY <1>9 DEF RevokeToken
<1>10. CASE LoggedOut(c)
  BY <1>10 DEF LoggedOut
<1>11. CASE VerifyIdentity(c) \/ NotFound(c)
  BY <1>11 DEF VerifyIdentity, NotFound
<1>12. CASE ReadPreferences(c)
  BY <1>12 DEF ReadPreferences, GoesToWrite
<1>13. CASE LinkUser(c)
  BY <1>13 DEF LinkUser, GoesToWrite
<1>14. CASE PutUser(c)
  BY <1>14 DEF PutUser
<1>15. CASE OpenSession(c)
  BY <1>15 DEF OpenSession
<1>16. CASE ListTokens(c)
  BY <1>16 DEF ListTokens
<1>17. CASE DeleteToken(c)
  BY <1>17 DEF DeleteToken
<1>18. CASE NothingToDelete(c)
  BY <1>18 DEF NothingToDelete
<1>19. CASE DeleteUser(c)
  BY <1>19 DEF DeleteUser
<1>20. CASE Raises(c)
  BY <1>20 DEF Raises
<1>21. CASE EraseRows(c) \/ EraseEvents(c)
  BY <1>21 DEF EraseRows, EraseEvents
<1>. QED
  BY <1>1, <1>2, <1>3, <1>4, <1>5, <1>6, <1>7, <1>8, <1>9, <1>10, <1>11, <1>12, <1>13,
     <1>14, <1>15, <1>16, <1>17, <1>18, <1>19, <1>20, <1>21 DEF RequestMoves, CallStep

\* Few steps write a token.
LEMMA TokensWritten ==
    ASSUME NEW c \in Calls, RequestMoves(c)
    PROVE  \/ tokens' = tokens \/ CreateSuccessor(c) \/ ConsumeParent(c)
           \/ RevokeToken(c) \/ OpenSession(c) \/ DeleteToken(c)
<1>1. ASSUME NEW op \in Operations, NEW t \in Tokens \cup {NoToken}, Arrive(c, op, t)
      PROVE  \/ tokens' = tokens \/ CreateSuccessor(c) \/ ConsumeParent(c)
             \/ RevokeToken(c) \/ OpenSession(c) \/ DeleteToken(c)
  BY <1>1 DEF Arrive
<1>2. CASE Authenticate(c)
  BY <1>2 DEF Authenticate
<1>3. CASE FindToken(c)
  BY <1>3 DEF FindToken
<1>4. CASE LoadUser(c)
  BY <1>4 DEF LoadUser
<1>5. CASE CreateSuccessor(c)
  BY <1>5 DEF CreateSuccessor
<1>6. CASE ConsumeParent(c)
  BY <1>6 DEF ConsumeParent
<1>7. CASE FindSession(c)
  BY <1>7 DEF FindSession
<1>8. CASE ListSession(c)
  BY <1>8 DEF ListSession
<1>9. CASE RevokeToken(c)
  BY <1>9 DEF RevokeToken
<1>10. CASE LoggedOut(c)
  BY <1>10 DEF LoggedOut
<1>11. CASE VerifyIdentity(c) \/ NotFound(c)
  BY <1>11 DEF VerifyIdentity, NotFound
<1>12. CASE ReadPreferences(c)
  BY <1>12 DEF ReadPreferences
<1>13. CASE LinkUser(c)
  BY <1>13 DEF LinkUser
<1>14. CASE PutUser(c)
  BY <1>14 DEF PutUser
<1>15. CASE OpenSession(c)
  BY <1>15 DEF OpenSession
<1>16. CASE ListTokens(c)
  BY <1>16 DEF ListTokens
<1>17. CASE DeleteToken(c)
  BY <1>17 DEF DeleteToken
<1>18. CASE NothingToDelete(c)
  BY <1>18 DEF NothingToDelete
<1>19. CASE DeleteUser(c)
  BY <1>19 DEF DeleteUser
<1>20. CASE Raises(c)
  BY <1>20 DEF Raises
<1>21. CASE EraseRows(c) \/ EraseEvents(c)
  BY <1>21 DEF EraseRows, EraseEvents
<1>. QED
  BY <1>1, <1>2, <1>3, <1>4, <1>5, <1>6, <1>7, <1>8, <1>9, <1>10, <1>11, <1>12, <1>13,
     <1>14, <1>15, <1>16, <1>17, <1>18, <1>19, <1>20, <1>21 DEF RequestMoves, CallStep

\* While nobody is erased no token is lost: it stays as it is, is consumed for the
\* successor of the request, or is revoked by a logout of its session.
Fate(c, t) ==
    /\ tokens'[t] # NoRow /\ tokens'[t].line = tokens[t].line
    /\ \/ tokens'[t] = tokens[t]
       \/ /\ At(c, "consume") /\ t = call[c].on
          /\ tokens'[t].state = "rotated" /\ tokens'[t].next = c
       \/ Closing(tokens[t].line) /\ tokens'[t].state = "revoked"

LEMMA TokenFates ==
    ASSUME NEW c \in Calls, Shaped, LinesAgree, ~Erasing, RequestMoves(c),
           NEW t \in Tokens
    PROVE  /\ Present(t) => Fate(c, t)
           /\ tokens'[t] # NoRow => Present(t) \/ (t = c /\ tokens'[t].state = "live")
<1>1. c \in Tokens /\ tokens \in [Tokens -> TokenRows \cup {NoRow}] /\ RequestFits(c)
  BY DEF Tokens, Shaped, SessionsTypeOK, CallFits
<1>2. call[c].pc \in {"create", "open"} => ~Present(c)
  BY <1>1, SessionsAssumption DEF Shaped, RowsFit, Born
<1>3. CASE tokens' = tokens
  BY <1>3 DEF Fate, Present
<1>4. CASE CreateSuccessor(c)
  <2>1. ~Present(c) /\ tokens' = [tokens EXCEPT ![c] = LiveToken(call[c].line)]
    BY <1>2, <1>4 DEF CreateSuccessor, At
  <2>. QED
    BY <1>1, <2>1 DEF Fate, Present, LiveToken, NoRow
<1>5. CASE ConsumeParent(c)
  <2>1. /\ Present(call[c].on) /\ tokens[call[c].on].line = call[c].line
        /\ At(c, "consume") /\ call[c].on \in Tokens
    BY <1>1, <1>5 DEF ConsumeParent, At, LinesAgree, Rotating, RequestFits, Shaped,
       SessionsTypeOK
  <2>. QED
    BY <1>1, <1>5, <2>1 DEF ConsumeParent, Fate, Present, RotatedToken, NoRow
<1>6. CASE RevokeToken(c)
  <2>1. PICK x \in call[c].todo : tokens' = [tokens EXCEPT ![x] = RevokedToken(call[c].line)]
    BY <1>6 DEF RevokeToken
  <2>2. Present(x) /\ tokens[x].line = call[c].line
    BY <1>6, <2>1 DEF RevokeToken, LinesAgree
  <2>3. Closing(call[c].line)
    BY <1>1, <1>6 DEF RevokeToken, RequestFits, OperationFits, Closing, At
  <2>. QED
    BY <1>1, <2>1, <2>2, <2>3 DEF Fate, Present, RevokedToken, NoRow
<1>7. CASE OpenSession(c)
  <2>1. ~Present(c) /\ tokens' = [tokens EXCEPT ![c] = LiveToken(c)]
    BY <1>2, <1>7 DEF OpenSession, At
  <2>. QED
    BY <1>1, <2>1 DEF Fate, Present, LiveToken, NoRow
<1>8. ~DeleteToken(c)
  BY <1>1 DEF DeleteToken, At, RequestFits, OperationFits, Erasing
<1>. QED
  BY <1>3, <1>4, <1>5, <1>6, <1>7, <1>8, TokensWritten

\* Rotations, logouts and parents stay within their lineage.
LEMMA LineagesStay ==
    ASSUME NEW c \in Calls, Shaped, LinesAgree, ~Erasing, RequestMoves(c)
    PROVE  LinesAgree' /\ \A d \in Tokens : Closing(d) => Closing(d)'
<1>1. TokenTypes /\ CallTypes /\ CallFits /\ RowsFit /\ SetTypes /\ c \in Tokens
  BY DEF SetTypes, Shaped, SessionsTypeOK, TokenTypes, CallTypes, CallRows, Tokens
<1>2. CallTypes' /\ OthersStay(c) /\ TokenTypes' /\ Shaped'
  BY <1>1, RequestsKeepCallTypes, RequestsKeepShape DEF Shaped, SessionsTypeOK, TokenTypes
<1>3. ASSUME NEW d \in Tokens, Closing(d)
      PROVE  Closing(d)'
  <2>1. PICK e \in Calls : call[e].op = "logout" /\ call[e].line = d
    BY <1>3 DEF Closing
  <2>2. call[e].pc # "idle" /\ call[e].line # NoToken
    BY <1>1, <2>1, SessionsAssumption DEF CallFits, RequestFits
  <2>3. call'[e].op = "logout" /\ call'[e].line = d
    BY <1>2, <2>1, <2>2, RequestsGoOn DEF OthersStay
  <2>. QED
    BY <2>3 DEF Closing
<1>4. \A t \in Tokens : (Present(t) => Fate(c, t))
                      /\ (tokens'[t] # NoRow => Present(t) \/ (t = c /\ tokens'[t].state = "live"))
  BY TokenFates
<1>5. \A t \in Tokens : Present(t) => tokens'[t] # NoRow /\ tokens'[t].line = tokens[t].line
  BY <1>4 DEF Fate
<1>6. ASSUME NEW t \in Tokens, tokens'[t] # NoRow, tokens'[t].state \in {"rotated", "faded"}
      PROVE  /\ tokens'[tokens'[t].next] # NoRow
             /\ tokens'[tokens'[t].next].line = tokens'[t].line
  <2>1. Present(t) /\ Fate(c, t)
    BY <1>4, <1>6
  <2>2. CASE tokens'[t] = tokens[t]
    <3>1. /\ Present(tokens[t].next) /\ tokens[tokens[t].next].line = tokens[t].line
          /\ tokens[t].next \in Tokens
      BY <1>1, <1>6, <2>1, <2>2 DEF LinesAgree, RowsFit
    <3>. QED
      BY <1>5, <2>2, <3>1
  <2>3. CASE At(c, "consume") /\ t = call[c].on /\ tokens'[t].next = c
    <3>1. Present(c) /\ tokens[c].line = call[c].line /\ tokens[t].line = call[c].line
      BY <2>3 DEF LinesAgree, At, Rotating
    <3>. QED
      BY <1>1, <1>5, <2>1, <2>3, <3>1
  <2>. QED
    BY <1>6, <2>1, <2>2, <2>3 DEF Fate
<1>7. ASSUME NEW e \in Calls, call'[e].pc \in Rotating
      PROVE  tokens'[call'[e].on] # NoRow /\ tokens'[call'[e].on].line = call'[e].line
  <2>1. CASE /\ call[e].pc \in Rotating
             /\ call'[e].on = call[e].on /\ call'[e].line = call[e].line
    <3>1. call[e].on \in Tokens
      BY <1>1, <2>1 DEF CallFits, RequestFits, SetTypes
    <3>2. Present(call[e].on) /\ tokens[call[e].on].line = call[e].line
      BY <2>1 DEF LinesAgree
    <3>. QED
      BY <1>5, <2>1, <3>1, <3>2
  <2>2. CASE /\ tokens' = tokens /\ call'[e].on \in Tokens /\ Present(call'[e].on)
             /\ tokens[call'[e].on].line = call'[e].line
    BY <2>2 DEF Present
  <2>. QED
    BY <1>2, <1>7, <2>1, <2>2, RotationSteps DEF OthersStay
<1>8. ASSUME NEW e \in Calls, At(e, "consume")'
      PROVE  /\ tokens'[e] # NoRow /\ tokens'[e].line = call'[e].line
             /\ tokens'[e].state = "live" \/ Closing(call[e].line)'
  <2>1. CASE e = c
    <3>1. CreateSuccessor(c)
      BY <1>8, <2>1, RotationSteps
    <3>. QED
      BY <1>1, <2>1, <3>1 DEF CreateSuccessor, To, CallTypes, CallRows, TokenTypes,
         LiveToken, NoRow
  <2>2. CASE e # c
    <3>1. /\ At(e, "consume") /\ call'[e].line = call[e].line /\ e \in Tokens
      BY <1>2, <1>8, <2>2 DEF OthersStay, At, Tokens
    <3>2. /\ Present(e) /\ tokens[e].line = call[e].line
          /\ tokens[e].state = "live" \/ Closing(call[e].line)
      BY <3>1 DEF LinesAgree
    <3>3. call[e].line \in Tokens
      BY <1>1, <3>1 DEF CallFits, RequestFits, At, Rotating
    <3>4. CASE Closing(call[e].line)
      <4>1. PICK x \in Calls : call'[x].op = "logout" /\ call'[x].line = call[e].line
        BY <1>3, <3>3, <3>4 DEF Closing
      <4>2. Closing(call[e].line)'
        BY <3>1, <4>1 DEF Closing
      <4>. QED
        BY <1>5, <3>1, <3>2, <4>2
    <3>5. CASE tokens[e].state = "live" /\ ~Closing(call[e].line)
      <4>1. At(c, "consume") => call[c].on # e
        BY <1>1, <3>1, SessionsAssumption DEF CallFits, RequestFits, RowsFit, Known, At,
           Rotating
      <4>2. tokens'[e] = tokens[e]
        BY <1>4, <3>1, <3>2, <3>5, <4>1 DEF Fate
      <4>. QED
        BY <3>1, <3>2, <3>5, <4>2 DEF Present
    <3>. QED
      BY <3>2, <3>4, <3>5
  <2>. QED
    BY <2>1, <2>2
<1>9. ASSUME NEW e \in Calls, At(e, "revoke")', NEW t \in call'[e].todo
      PROVE  tokens'[t] # NoRow /\ tokens'[t].line = call'[e].line
  <2>1. CASE e = c
    <3>1. CASE ListSession(c)
      <4>1. t \in LiveOf(call[c].line) /\ call'[c].line = call[c].line
        BY <1>1, <1>9, <2>1, <3>1 DEF ListSession, ToRevoke, CallTypes, CallRows
      <4>. QED
        BY <1>5, <2>1, <4>1 DEF LiveOf
    <3>2. CASE RevokeToken(c)
      <4>1. t \in call[c].todo /\ call'[c].line = call[c].line /\ At(c, "revoke")
        BY <1>1, <1>9, <2>1, <3>2 DEF RevokeToken, CallTypes, CallRows
      <4>2. Present(t) /\ tokens[t].line = call[c].line /\ t \in Tokens
        BY <1>1, <4>1 DEF LinesAgree, CallTypes, CallRows
      <4>. QED
        BY <1>5, <2>1, <4>1, <4>2
    <3>. QED
      BY <1>9, <2>1, <3>1, <3>2, LogoutSteps
  <2>2. CASE e # c
    <3>1. At(e, "revoke") /\ t \in call[e].todo /\ call'[e].line = call[e].line /\ t \in Tokens
      BY <1>1, <1>2, <1>9, <2>2 DEF OthersStay, At, CallTypes, CallRows
    <3>2. Present(t) /\ tokens[t].line = call[e].line
      BY <3>1 DEF LinesAgree
    <3>. QED
      BY <1>5, <3>1, <3>2
  <2>. QED
    BY <2>1, <2>2
<1>10. LinesAgree'
  BY <1>6, <1>7, <1>8, <1>9 DEF LinesAgree, Present, At
<1>. QED
  BY <1>3, <1>10

\* While nobody is erased every session that nobody closes keeps its tip.
LEMMA RequestsKeepTips ==
    ASSUME NEW c \in Calls, Shaped, SessionsHaveTips, RequestMoves(c)
    PROVE  SessionsHaveTips'
<1>1. TokenTypes /\ CallTypes /\ CallFits /\ RowsFit /\ SetTypes /\ c \in Tokens
  BY DEF SetTypes, Shaped, SessionsTypeOK, TokenTypes, CallTypes, CallRows, Tokens
<1>2. CallTypes' /\ OthersStay(c) /\ TokenTypes'
  BY <1>1, RequestsKeepCallTypes, RequestsKeepTokenTypes
<1>3. Erasing => Erasing'
  BY <1>2, RequestsGoOn DEF Erasing, OthersStay
<1>. SUFFICES ASSUME ~Erasing, ~Erasing'
              PROVE  SessionsHaveTips'
  BY <1>3 DEF SessionsHaveTips
<1>4. LinesAgree /\ \A d \in Devices : Closing(d) \/ \E t \in Tokens : Tip(t, d)
  BY DEF SessionsHaveTips
<1>5. LinesAgree' /\ \A d \in Tokens : Closing(d) => Closing(d)'
  BY <1>4, LineagesStay
<1>6. \A t \in Tokens : Present(t) => Fate(c, t)
  BY <1>4, TokenFates
<1>7. handed \subseteq handed'
  BY <1>1, HandedGrows
<1>8. At(c, "consume") =>
         /\ c \notin handed /\ call[c].on \in handed
         /\ Present(c) /\ tokens[c].line = call[c].line
         /\ tokens[call[c].on].line = call[c].line
         /\ tokens[c].state = "live" \/ Closing(call[c].line)
  BY <1>1, <1>4, SessionsAssumption
     DEF LinesAgree, CallFits, RequestFits, RowsFit, Known, At, Rotating
<1>9. ASSUME NEW d \in Devices, ~Closing(d), NEW t \in Tokens, Present(t),
             tokens[t].line = d, tokens[t].state = "live", t \notin handed
      PROVE  tokens'[t] = tokens[t]
  BY <1>6, <1>8, <1>9 DEF Fate
<1>10. ASSUME NEW d \in Devices, ~Closing(d), NEW t \in Tokens, Tip(t, d)
       PROVE  \E x \in Tokens : Tip(x, d)'
  <2>1. /\ t \in handed' /\ tokens'[t] # NoRow /\ tokens'[t].line = d /\ Fate(c, t)
        /\ Present(t) /\ t \in handed /\ tokens[t].line = d
    BY <1>6, <1>7, <1>10 DEF Tip, Fate
  <2>2. CASE tokens'[t] = tokens[t]
    <3>1. CASE tokens[t].state = "live"
      BY <2>1, <2>2, <3>1 DEF Tip, Present
    <3>2. CASE tokens[t].state # "live"
      <4>1. PICK n \in Tokens : /\ tokens[t].state \in {"rotated", "faded"}
                               /\ n = tokens[t].next /\ n \notin handed
                               /\ tokens[n].state = "live"
        BY <1>1, <1>10, <3>2 DEF Tip, RowsFit
      <4>2. Present(n) /\ tokens[n].line = d
        BY <1>4, <2>1, <4>1 DEF LinesAgree
      <4>3. tokens'[n] = tokens[n]
        BY <1>9, <1>10, <4>1, <4>2
      <4>4. CASE n \in handed'
        <5>1. Tip(n, d)'
          BY <4>1, <4>2, <4>3, <4>4 DEF Tip, Present
        <5>. QED
          BY <4>2, <5>1
      <4>5. CASE n \notin handed'
        BY <2>1, <2>2, <4>1, <4>3, <4>5 DEF Tip, Present
      <4>. QED
        BY <4>4, <4>5
    <3>. QED
      BY <3>1, <3>2
  <2>3. CASE /\ At(c, "consume") /\ t = call[c].on
             /\ tokens'[t].state = "rotated" /\ tokens'[t].next = c
    <3>1. Present(c) /\ tokens[c].line = d /\ tokens[c].state = "live"
      BY <1>8, <1>10, <2>1, <2>3
    <3>2. tokens'[c] = tokens[c]
      BY <1>1, <1>8, <1>9, <1>10, <2>3, <3>1
    <3>3. CASE c \in handed'
      <4>1. Tip(c, d)'
        BY <3>1, <3>2, <3>3 DEF Tip, Present
      <4>. QED
        BY <1>1, <4>1
    <3>4. CASE c \notin handed'
      BY <2>1, <2>3, <3>1, <3>2, <3>4 DEF Tip, Present
    <3>. QED
      BY <3>3, <3>4
  <2>. QED
    BY <1>10, <2>1, <2>2, <2>3 DEF Fate
<1>. QED
  BY <1>4, <1>5, <1>10 DEF SessionsHaveTips, Tokens

\* A token whose grace window closes stays the tip it was.
LEMMA GraceKeepsTips ==
    ASSUME NEW g \in Tokens, Shaped, SessionsHaveTips, GraceCloses(g)
    PROVE  SessionsHaveTips'
<1>1. \A t \in Tokens :
         /\ tokens'[t] # NoRow <=> Present(t)
         /\ Present(t) => /\ tokens'[t].line = tokens[t].line /\ tokens'[t].next = tokens[t].next
                          /\ tokens'[t].state = "live" <=> tokens[t].state = "live"
                          /\ tokens'[t].state \in {"rotated", "faded"}
                                <=> tokens[t].state \in {"rotated", "faded"}
  BY DEF GraceCloses, Shaped, SessionsTypeOK, Present, TokenRows, NoRow
<1>2. call' = call /\ handed' = handed
  BY DEF GraceCloses
<1>3. \A d \in Tokens : Closing(d) <=> Closing(d)'
  BY <1>2 DEF Closing
<1>4. Erasing <=> Erasing'
  BY <1>2 DEF Erasing
<1>5. ASSUME LinesAgree
      PROVE  LinesAgree'
  <2>1. /\ \A t \in Tokens : Present(t) /\ tokens[t].state \in {"rotated", "faded"} =>
              tokens[t].next \in Tokens
        /\ \A c \in Calls : /\ call[c].pc \in Rotating => call[c].on \in Tokens
                          /\ call[c].line \in Tokens \cup {NoToken}
                          /\ call[c].todo \subseteq Tokens /\ c \in Tokens
    BY DEF Shaped, SessionsTypeOK, CallFits, RequestFits, RowsFit, Tokens
  <2>2. \A t \in Tokens : Present(t) /\ tokens'[t].state \in {"rotated", "faded"} =>
           /\ tokens'[tokens'[t].next] # NoRow
           /\ tokens'[tokens'[t].next].line = tokens'[t].line
    BY <1>1, <1>5, <2>1 DEF LinesAgree
  <2>3. \A c \in Calls :
          /\ call[c].pc \in Rotating =>
                tokens'[call[c].on] # NoRow /\ tokens'[call[c].on].line = call[c].line
          /\ At(c, "revoke") => \A t \in call[c].todo :
                tokens'[t] # NoRow /\ tokens'[t].line = call[c].line
    BY <1>1, <1>5, <2>1 DEF LinesAgree
  <2>4. \A c \in Calls : At(c, "consume") =>
           /\ tokens'[c] # NoRow /\ tokens'[c].line = call[c].line
           /\ tokens'[c].state = "live" \/ Closing(call[c].line)
    BY <1>1, <1>5, <2>1 DEF LinesAgree
  <2>5. \A c \in Calls : Closing(call[c].line) <=> Closing(call[c].line)'
    BY <1>2 DEF Closing
  <2>. QED
    BY <1>1, <1>2, <2>2, <2>3, <2>4, <2>5 DEF LinesAgree, Present, At
<1>6. ASSUME NEW d \in Devices, NEW t \in Tokens, LinesAgree, Tip(t, d)
      PROVE  Tip(t, d)'
  <2>1. tokens[t].state \in {"rotated", "faded"} =>
           tokens[t].next \in Tokens /\ Present(tokens[t].next)
    BY <1>6 DEF Shaped, RowsFit, LinesAgree, Tip
  <2>. QED
    BY <1>1, <1>2, <1>6, <2>1 DEF Tip, Present
<1>. QED
  BY <1>3, <1>4, <1>5, <1>6 DEF SessionsHaveTips, Tokens

-----------------------------------------------------------------------------
(* The invariant of the account                                            *)

\* The devices' sessions are open at the start.
LEMMA Initially == Init => IInv
<1>. SUFFICES ASSUME SessionsInit
              PROVE  IInv
  BY DEF Init
<1>. USE SessionsAssumption DEF SessionsInit, NoCall, LiveToken, NoRow, Present, At, Tokens
<1>1. SessionsTypeOK
  BY DEF SessionsTypeOK, TokenRows, TokenStates, Operations, CallSteps
<1>2. CallFits /\ RowsFit
  BY DEF CallFits, RequestFits, OperationFits, RowsFit, Born, Known, Rotating
<1>3. LogoutIsFinal /\ ErasureIsFinal
  BY DEF LogoutIsFinal, ErasureIsFinal
<1>4. LinesAgree
  BY DEF LinesAgree, Rotating
<1>5. \A d \in Devices : Tip(d, d)
  BY DEF Tip
<1>. QED
  BY <1>1, <1>2, <1>3, <1>4, <1>5 DEF IInv, Shaped, SessionsHaveTips

\* Subscriptions and submissions leave the sessions alone; everything else the
\* account does is a step of a request or the end of a grace window.
LEMMA SessionSteps ==
    ASSUME [Next]_vars
    PROVE  \/ \E c \in Calls : RequestMoves(c)
           \/ \E t \in Tokens : GraceCloses(t)
           \/ UNCHANGED sessionVars
  BY DEF Next, Sessional, Erases, RequestMoves, vars

LEMMA EveryStepKeeps == IInv /\ [Next]_vars => IInv'
<1>. SUFFICES ASSUME IInv, [Next]_vars
              PROVE  IInv'
  OBVIOUS
<1>. USE DEF IInv
<1>1. ASSUME NEW c \in Calls, RequestMoves(c)
      PROVE  IInv'
  BY <1>1, RequestsKeepShape, RequestsKeepLogouts, RequestsKeepErasure, RequestsKeepTips
<1>2. ASSUME NEW t \in Tokens, GraceCloses(t)
      PROVE  IInv'
  BY <1>2, GraceKeepsShape, GraceKeepsLogouts, GraceKeepsErasure, GraceKeepsTips
<1>3. CASE UNCHANGED sessionVars
  BY <1>3 DEF sessionVars, Shaped, SessionsTypeOK, CallFits, RequestFits, RowsFit, Born, Known,
     Present, LogoutIsFinal, LiveOf, RotatedBeside, At, ErasureIsFinal, SessionsHaveTips,
     Erasing, LinesAgree, Closing, Tip
<1>. QED
  BY <1>1, <1>2, <1>3, SessionSteps

\* The invariant holds of every behaviour of Spec.
THEOREM Invariance == Spec => []IInv
  BY Initially, EveryStepKeeps, PTL DEF Spec

-----------------------------------------------------------------------------
(* The properties                                                          *)

\* The sessions are well formed.
THEOREM SessionTypes == Spec => []SessionsTypeOK
<1>1. IInv => SessionsTypeOK
  BY DEF IInv, Shaped
<1>. QED
  BY <1>1, Invariance, PTL

\* Whatever races it, a logout that was answered has ended its session, unless a
\* rotation of the session was under way beside it.
THEOREM LogoutsEndSessions == Spec => []LogoutEndsSession
<1>1. IInv => LogoutEndsSession
  BY DEF IInv, LogoutIsFinal, LogoutEndsSession
<1>. QED
  BY <1>1, Invariance, PTL

\* An account that was erased with nobody writing beside the end is gone with all
\* its sessions, and no session outlives the account's row.
THEOREM ErasuresLeaveNothing == Spec => []ErasedIsGone
<1>1. IInv => ErasedIsGone
  BY DEF IInv, ErasureIsFinal, ErasedIsGone
<1>. QED
  BY <1>1, Invariance, PTL

\* No device loses its session to a rotation that is late, raises or is not heard of.
THEOREM SessionsAreKept == Spec => []SessionIsKept
<1>1. IInv => SessionIsKept
  <2>. SUFFICES ASSUME IInv, NEW d \in Devices, ~Erasing, ~Closing(d)
                PROVE  \/ \E t \in Tokens : tokens[t].state = "faded" /\ tokens[t].next \notin handed
                       \/ \E t \in handed : Present(t) /\ tokens[t].line = d /\ Usable(t)
    BY DEF SessionIsKept, Closing
  <2>1. PICK t \in Tokens : Tip(t, d)
    BY DEF IInv, SessionsHaveTips
  <2>. QED
    BY <2>1 DEF Tip, Usable
<1>. QED
  BY <1>1, Invariance, PTL

-----------------------------------------------------------------------------
(* The submissions: the inductive invariant                                *)

\* The calls that come in one order on every route, and where.
Rank == [x \in {"check", "row", "ledger", "reserve", "job", "content", "held", "gate", "debit",
                "send"} |->
            CASE x = "check" -> 1 [] x = "row" -> 2 [] x = "ledger" -> 3 [] x = "reserve" -> 4
              [] x = "job" -> 5 [] x = "content" -> 6 [] x = "held" -> 7 [] x = "gate" -> 8
              [] x = "debit" -> 9 [] OTHER -> 10]
Chain == DOMAIN Rank

StepsOf(f) ==
    CASE Kind[f] = "link" -> {"check", "submit", "count"}
      [] Kind[f] = "audio" ->
            {"check", "row", "job", "copy", "discard", "held", "debit", "count", "send"}
      [] Kind[f] = "shared" ->
            {"check", "copy", "discard", "row", "ledger", "reserve", "job", "held", "gate",
             "debit", "send"}
      [] OTHER -> {"check", "row", "job", "copy", "discard", "send", "count"}

\* No call comes twice, the chain in its order, and the copy before the ledger is asked.
Ordered(s) ==
    \A i, j \in 1..Len(s) : i < j =>
        /\ s[i] # s[j]
        /\ s[i] \in Chain /\ s[j] \in Chain => Rank[s[i]] < Rank[s[j]]
        /\ ~(s[i] \in {"ledger", "reserve"} /\ s[j] = "copy")

Left(r) == ToSet(req[r].todo)
OnRoute(r) == IF Duplicate(r) THEN {"content", "held", "debit"} ELSE StepsOf(File(r))

\* What is left of a request is the end of its route.
RouteFits(r) ==
    /\ Ordered(req[r].todo)
    /\ Left(r) \subseteq OnRoute(r)
    /\ \A x \in Left(r) \cap Chain, y \in OnRoute(r) \cap Chain :
          Rank[x] < Rank[y] => y \in Left(r)

RequestTypes(r) ==
    /\ req[r] \in [file : Files \cup {NoFile}, key : Keys \cup {NoKey}, todo : Seq(Steps),
                   end : {"none", "refused", "broken"}, told : Nat, free : BOOLEAN,
                   known : Work \cup {Other, NoJob}, tells : BOOLEAN]
    /\ job[r] \in JobStates
    /\ row[r] \in RowStates

Sent == {"queued", "settled", "done"}

\* A request that has not come has left nothing, and one under way has not ended.
BegunFits(r) ==
    /\ ~Begun(r) => req[r] = Idle /\ job[r] = "none" /\ row[r] = "none" /\ ItemsOf(r) = {}
                    /\ Charges(r) = {} /\ r \notin owing
    /\ UnderWay(r) => Begun(r) /\ req[r].end = "none"
    /\ Duplicate(r) => KindOf(r) = "shared"

\* What is no longer left has had its effect.
EffectsFit(r) ==
    /\ "count" \in Left(r) => ItemsOf(r) = {}
    /\ "row" \in Left(r) => row[r] = "none"
    /\ job[r] \in Sent => Left(r) \cap Chain = {} /\ ~Duplicate(r)
    /\ Begun(r) /\ req[r].end = "none" =>
          /\ row[r] = "none" => "row" \in Left(r) \/ "submit" \in Left(r)
          /\ KindOf(r) # "link" => "copy" \in Left(r) \/ Home(r) \in stored
          /\ KindOf(r) # "link" /\ ~Duplicate(r) =>
                "send" \in Left(r) \/ job[r] \notin {"none", "pending"}
          /\ KindOf(r) # "shared" /\ File(r) \notin odd =>
                "count" \in Left(r) \/ \E c \in ItemsOf(r) : ItemsOf(r) = {c}

EntriesFit == \A f \in Shared : entry[f] = Absent \/ entry[f].job \in Work \cup {Other}
CountsFit == \A c \in counts : c.token = "item" => c.items = 1

Of(r, token) == {d \in debits : d.work = r /\ d.token = token}
One(writes, minutes) ==
    IF minutes = 0 THEN writes = {} ELSE \E d \in writes : writes = {d} /\ d.minutes = minutes

\* Whether a save owes is decided when its row is written; nobody changes it before it asks.
OwingFits(r) ==
    /\ "held" \in Left(r) => ~req[r].free
    /\ "row" \in Left(r) => r \notin owing
    /\ "held" \in Left(r) /\ "row" \notin Left(r) => (r \in owing <=> ~Holds(r))
    /\ "held" \notin Left(r) /\ req[r].end = "none" => (r \in owing <=> ~req[r].free)

\* The writes of a save are what its gate and its settlement were to charge.
ChargesFit(r) ==
    /\ \A d \in Charges(r) : d.token \in {"gate", "settle"}
    /\ "debit" \in Left(r) => Of(r, "gate") = {}
    /\ "debit" \notin Left(r) /\ req[r].end = "none" =>
          req[r].told = DebitDue(r) /\ One(Of(r, "gate"), DebitDue(r))
    /\ job[r] \notin Sent => Of(r, "settle") = {}
    /\ job[r] = "queued" => Of(r, "settle") = {} \/ One(Of(r, "settle"), BillDue(r))
    /\ job[r] \in {"settled", "done"} => One(Of(r, "settle"), BillDue(r))

\* A request that ended left nothing behind, or its file is odd.
EndFits(r) ==
    /\ UnderWay(r) => row[r] # "deleted"
    /\ req[r].end # "none" =>
          /\ row[r] = "none" /\ r \notin owing /\ Of(r, "gate") = {}
          /\ job[r] \notin Sent
    /\ job[r] = "failed" => req[r].end # "none"

PaidFits(r) == File(r) \in Metered \ odd => OwingFits(r) /\ ChargesFit(r) /\ EndFits(r)

RequestInv(r) ==
    /\ RequestTypes(r) /\ BegunFits(r) /\ EffectsFit(r) /\ PaidFits(r)
    /\ Begun(r) => RouteFits(r)

-----------------------------------------------------------------------------
(* Routes                                                                  *)

\* The chain and its order, call by call.
LEMMA RankOf ==
    /\ Chain = {"check", "row", "ledger", "reserve", "job", "content", "held", "gate", "debit",
                "send"}
    /\ Rank["check"] = 1 /\ Rank["row"] = 2 /\ Rank["ledger"] = 3 /\ Rank["reserve"] = 4
    /\ Rank["job"] = 5 /\ Rank["content"] = 6 /\ Rank["held"] = 7 /\ Rank["gate"] = 8
    /\ Rank["debit"] = 9 /\ Rank["send"] = 10
  BY DEF Chain, Rank

\* What is left of a route after its first call.
LEMMA TailFacts ==
    ASSUME NEW s \in Seq(Steps), s # <<>>
    PROVE  /\ Tail(s) \in Seq(Steps) /\ Len(Tail(s)) = Len(s) - 1 /\ Len(s) \in Nat \ {0}
           /\ Head(s) = s[1] /\ \A i \in 1..Len(s) - 1 : Tail(s)[i] = s[i + 1]
  OBVIOUS

\* The calls of a route are its first and those of its tail.
LEMMA TailElements ==
    ASSUME NEW s \in Seq(Steps), s # <<>>
    PROVE  /\ Head(s) \in ToSet(s)
           /\ ToSet(s) = {Head(s)} \cup ToSet(Tail(s))
<1>. DEFINE n == Len(s)
            t == Tail(s)
<1>1. n \in Nat \ {0} /\ Len(t) = n - 1 /\ t \in Seq(Steps) /\ Head(s) = s[1]
      /\ \A i \in 1..n - 1 : t[i] = s[i + 1]
  BY TailFacts
<1>2. DOMAIN s = 1..n /\ DOMAIN t = 1..n - 1
  BY <1>1
<1>3. ToSet(s) = {s[i] : i \in 1..n} /\ ToSet(t) = {t[i] : i \in 1..n - 1}
  BY <1>2 DEF ToSet
<1>. HIDE DEF n, t
<1>4. s[1] \in ToSet(s)
  BY <1>1, <1>3
<1>5. ASSUME NEW x \in ToSet(t) PROVE x \in ToSet(s)
  <2>1. PICK i \in 1..n - 1 : x = t[i]
    BY <1>3
  <2>2. i + 1 \in 1..n /\ x = s[i + 1]
    BY <1>1, <2>1
  <2>. QED
    BY <2>2, <1>3
<1>6. ASSUME NEW x \in ToSet(s), x # s[1] PROVE x \in ToSet(t)
  <2>1. PICK i \in 1..n : x = s[i]
    BY <1>3
  <2>2. i - 1 \in 1..n - 1 /\ t[i - 1] = s[(i - 1) + 1] /\ (i - 1) + 1 = i
    BY <1>1, <1>6, <2>1
  <2>. QED
    BY <2>1, <2>2, <1>3
<1>. QED
  BY <1>1, <1>4, <1>5, <1>6 DEF t

\* The tail of an ordered route is ordered, and behind the call that came first.
LEMMA TailOrdered ==
    ASSUME NEW s \in Seq(Steps), s # <<>>, Ordered(s)
    PROVE  /\ Ordered(Tail(s))
           /\ Head(s) \notin ToSet(Tail(s))
           /\ \A y \in ToSet(Tail(s)) \cap Chain : Head(s) \in Chain => Rank[Head(s)] < Rank[y]
           /\ Head(s) \in {"ledger", "reserve"} => "copy" \notin ToSet(Tail(s))
<1>. DEFINE n == Len(s)
            t == Tail(s)
<1>1. n \in Nat \ {0} /\ Len(t) = n - 1 /\ t \in Seq(Steps) /\ Head(s) = s[1]
      /\ \A i \in 1..n - 1 : t[i] = s[i + 1]
  BY TailFacts
<1>2. DOMAIN t = 1..n - 1
  BY <1>1
<1>3. ToSet(t) = {t[i] : i \in 1..n - 1}
  BY <1>2 DEF ToSet
<1>o. \A i, j \in 1..n : i < j =>
        /\ s[i] # s[j]
        /\ s[i] \in Chain /\ s[j] \in Chain => Rank[s[i]] < Rank[s[j]]
        /\ ~(s[i] \in {"ledger", "reserve"} /\ s[j] = "copy")
  BY DEF Ordered
<1>. HIDE DEF n, t
<1>4. ASSUME NEW i \in 1..n - 1, NEW j \in 1..n - 1, i < j
      PROVE  /\ t[i] # t[j]
             /\ t[i] \in Chain /\ t[j] \in Chain => Rank[t[i]] < Rank[t[j]]
             /\ ~(t[i] \in {"ledger", "reserve"} /\ t[j] = "copy")
  <2>1. i + 1 \in 1..n /\ j + 1 \in 1..n /\ i + 1 < j + 1 /\ t[i] = s[i + 1] /\ t[j] = s[j + 1]
    BY <1>1, <1>4
  <2>. QED
    BY <2>1, <1>o
<1>5. Ordered(t)
  BY <1>1, <1>4 DEF Ordered
<1>6. ASSUME NEW y \in ToSet(t)
      PROVE  /\ s[1] # y
             /\ s[1] \in Chain /\ y \in Chain => Rank[s[1]] < Rank[y]
             /\ ~(s[1] \in {"ledger", "reserve"} /\ y = "copy")
  <2>1. PICK i \in 1..n - 1 : y = t[i]
    BY <1>3
  <2>2. 1 \in 1..n /\ i + 1 \in 1..n /\ 1 < i + 1 /\ y = s[i + 1]
    BY <1>1, <2>1
  <2>. QED
    BY <2>2, <1>o
<1>. QED
  BY <1>1, <1>5, <1>6 DEF t

\* Nothing is left of an empty route.
LEMMA EmptyRoute == Ordered(<<>>) /\ ToSet(<<>>) = {} /\ <<>> \in Seq(Steps)
  BY DEF Ordered, ToSet

\* The routes of Intake are ordered, and their calls are those of StepsOf.
LEMMA Routes ==
    ASSUME NEW f \in Files
    PROVE  /\ Route(f) \in Seq(Steps) /\ Route(f) # <<>> /\ Ordered(Route(f))
           /\ ToSet(Route(f)) = StepsOf(f)
<1>1. FileRoute \in Seq(Steps) /\ FileRoute # <<>> /\ Ordered(FileRoute)
      /\ ToSet(FileRoute) = {"check", "row", "job", "copy", "discard", "send", "count"}
  BY DEF FileRoute, Steps, Ordered, Chain, Rank, ToSet
<1>2. AudioRoute \in Seq(Steps) /\ AudioRoute # <<>> /\ Ordered(AudioRoute)
      /\ ToSet(AudioRoute) = {"check", "row", "job", "copy", "discard", "held", "debit", "count", "send"}
  BY DEF AudioRoute, Steps, Ordered, Chain, Rank, ToSet
<1>3. ShareRoute \in Seq(Steps) /\ ShareRoute # <<>> /\ Ordered(ShareRoute)
      /\ ToSet(ShareRoute) = {"check", "copy", "discard", "row", "ledger", "reserve", "job", "held", "gate",
             "debit", "send"}
  BY DEF ShareRoute, Steps, Ordered, Chain, Rank, ToSet
<1>4. LinkRoute \in Seq(Steps) /\ LinkRoute # <<>> /\ Ordered(LinkRoute)
      /\ ToSet(LinkRoute) = {"check", "submit", "count"}
  BY DEF LinkRoute, Steps, Ordered, Chain, Rank, ToSet
<1>. QED
  BY <1>1, <1>2, <1>3, <1>4, IntakeAssumption DEF Route, StepsOf, FileKinds

\* So is the route of a duplicate.
LEMMA ShortRoute ==
    /\ DuplicateRoute \in Seq(Steps) /\ DuplicateRoute # <<>> /\ Ordered(DuplicateRoute)
    /\ ToSet(DuplicateRoute) = {"content", "held", "debit"}
  BY DEF DuplicateRoute, Steps, Ordered, Chain, Rank, ToSet

-----------------------------------------------------------------------------
(* What a step does to its request                                         *)

\* A request makes its next call and goes on.
Popped(r, x) ==
    /\ UnderWay(r) /\ x = Head(req[r].todo)
    /\ req'[r].todo = Tail(req[r].todo)
    /\ req'[r].file = req[r].file /\ req'[r].end = req[r].end /\ req'[r].known = req[r].known

\* What the calls that are still left say about the kind of the file and of each other.
LEMMA ChainOf ==
    ASSUME NEW r \in Work, Begun(r), RequestTypes(r), BegunFits(r), RouteFits(r)
    PROVE  /\ "held" \in Left(r) => "debit" \in Left(r)
           /\ "content" \in Left(r) => "debit" \in Left(r)
           /\ "job" \in Left(r) => "send" \in Left(r)
           /\ "ledger" \in Left(r) \/ "reserve" \in Left(r) => "held" \in Left(r) /\ KindOf(r) = "shared"
           /\ "gate" \in Left(r) => KindOf(r) = "shared" /\ ~Duplicate(r)
           /\ "count" \in Left(r) => KindOf(r) # "shared"
           /\ "submit" \in Left(r) => KindOf(r) = "link"
           /\ "send" \in Left(r) => ~Duplicate(r)
           /\ File(r) \in Metered =>
                /\ "check" \in Left(r) => "row" \in Left(r)
                /\ "row" \in Left(r) => {"held", "debit", "send"} \subseteq Left(r)
<1>1. File(r) \in Files /\ KindOf(r) = Kind[File(r)] /\ Kind[File(r)] \in FileKinds
      /\ (File(r) \in Metered <=> KindOf(r) \in {"audio", "shared"})
  BY IntakeAssumption DEF Begun, RequestTypes, File, KindOf, Metered
<1>2. /\ Left(r) \subseteq OnRoute(r)
      /\ \A x \in Left(r) \cap Chain, y \in OnRoute(r) \cap Chain :
          Rank[x] < Rank[y] => y \in Left(r)
  BY DEF RouteFits
<1>3. CASE Duplicate(r)
  <2>1. OnRoute(r) = {"content", "held", "debit"} /\ KindOf(r) = "shared"
    BY <1>3 DEF OnRoute, BegunFits
  <2>2. "held" \in Left(r) \/ "content" \in Left(r) => "debit" \in Left(r)
    BY <1>2, <2>1, RankOf
  <2>. QED
    BY <1>2, <2>1, <2>2
<1>4. CASE ~Duplicate(r)
  <2>1. OnRoute(r) = StepsOf(File(r))
    BY <1>4 DEF OnRoute
  <2>2. CASE KindOf(r) = "link"
    <3>1. OnRoute(r) = {"check", "submit", "count"}
      BY <1>1, <2>1, <2>2 DEF StepsOf
    <3>. QED
      BY <1>1, <1>2, <1>4, <2>2, <3>1
  <2>3. CASE KindOf(r) = "audio"
    <3>1. OnRoute(r) = {"check", "row", "job", "copy", "discard", "held", "debit", "count", "send"}
      BY <1>1, <2>1, <2>3 DEF StepsOf
    <3>2. /\ "held" \in Left(r) => "debit" \in Left(r)
          /\ "job" \in Left(r) => "send" \in Left(r)
          /\ "check" \in Left(r) => "row" \in Left(r)
          /\ "row" \in Left(r) => {"held", "debit", "send"} \subseteq Left(r)
      BY <1>2, <3>1, RankOf
    <3>. QED
      BY <1>1, <1>2, <1>4, <2>3, <3>1, <3>2
  <2>4. CASE KindOf(r) = "shared"
    <3>1. OnRoute(r) = {"check", "copy", "discard", "row", "ledger", "reserve", "job", "held",
                        "gate", "debit", "send"}
      BY <1>1, <2>1, <2>4 DEF StepsOf
    <3>2. /\ "held" \in Left(r) => "debit" \in Left(r)
          /\ "job" \in Left(r) => "send" \in Left(r)
          /\ "check" \in Left(r) => "row" \in Left(r)
          /\ "row" \in Left(r) => {"held", "debit", "send"} \subseteq Left(r)
          /\ "ledger" \in Left(r) \/ "reserve" \in Left(r) => "held" \in Left(r)
      BY <1>2, <3>1, RankOf
    <3>. QED
      BY <1>1, <1>2, <1>4, <2>4, <3>1, <3>2
  <2>5. CASE KindOf(r) \in {"document", "text"}
    <3>1. OnRoute(r) = {"check", "row", "job", "copy", "discard", "send", "count"}
      BY <1>1, <2>1, <2>5 DEF StepsOf
    <3>2. "job" \in Left(r) => "send" \in Left(r)
      BY <1>2, <3>1, RankOf
    <3>. QED
      BY <1>1, <1>2, <1>4, <2>5, <3>1, <3>2
  <2>. QED
    BY <1>1, <2>2, <2>3, <2>4, <2>5 DEF FileKinds
<1>. QED
  BY <1>3, <1>4

\* A request that makes its next call leaves the end of its route.
LEMMA PopRoute ==
    ASSUME NEW r \in Work, NEW x, RequestInv(r), Popped(r, x)
    PROVE  /\ Begun(r) /\ req[r].end = "none" /\ RouteFits(r) /\ x \in Left(r)
           /\ File(r)' = File(r) /\ KindOf(r)' = KindOf(r) /\ Begun(r)' /\ req'[r].end = "none"
           /\ Duplicate(r)' = Duplicate(r) /\ OnRoute(r)' = OnRoute(r)
           /\ RouteFits(r)'
           /\ Left(r)' = Left(r) \ {x}
           /\ \A y \in (Left(r) \cap Chain) \ {x} : x \in Chain => Rank[x] < Rank[y]
           /\ x \in {"ledger", "reserve"} => "copy" \notin Left(r)
<1>. DEFINE s == req[r].todo
<1>1. Begun(r) /\ req[r].end = "none" /\ RouteFits(r) /\ s \in Seq(Steps) /\ s # <<>> /\ x = Head(s)
  BY DEF RequestInv, BegunFits, Popped, RequestTypes, UnderWay
<1>2. File(r)' = File(r) /\ KindOf(r)' = KindOf(r) /\ Begun(r)' /\ req'[r].end = "none"
      /\ Duplicate(r)' = Duplicate(r) /\ OnRoute(r)' = OnRoute(r)
  BY <1>1 DEF Popped, File, KindOf, Begun, Duplicate, OnRoute
<1>3. Ordered(s) /\ Left(r) = ToSet(s) /\ Left(r)' = ToSet(Tail(s))
  BY <1>1 DEF RouteFits, Left, Popped
<1>. HIDE DEF s
<1>4. x \in ToSet(s) /\ ToSet(s) = {x} \cup ToSet(Tail(s))
  BY <1>1, TailElements
<1>5. /\ Ordered(Tail(s)) /\ x \notin ToSet(Tail(s))
      /\ \A y \in ToSet(Tail(s)) \cap Chain : x \in Chain => Rank[x] < Rank[y]
      /\ x \in {"ledger", "reserve"} => "copy" \notin ToSet(Tail(s))
  BY <1>1, <1>3, TailOrdered
<1>6. Left(r)' = Left(r) \ {x}
  BY <1>3, <1>4, <1>5
<1>7. Ordered(req[r].todo)'
  BY <1>5 DEF Popped, s, Ordered
<1>8. ASSUME NEW u \in Left(r)' \cap Chain, NEW y \in OnRoute(r)' \cap Chain, Rank[u] < Rank[y]
      PROVE  y \in Left(r)'
  <2>1. u \in Left(r) /\ y \in OnRoute(r) /\ u # x
    BY <1>2, <1>6, <1>8
  <2>2. y \in Left(r)
    BY <2>1, <1>8, <1>1 DEF RouteFits
  <2>3. y # x
    <3>. SUFFICES ASSUME y = x PROVE FALSE
      OBVIOUS
    <3>1. x \in Chain /\ u \in Chain /\ Rank[x] < Rank[u] /\ Rank[u] < Rank[x]
      BY <1>3, <1>5, <1>8
    <3>2. Rank[x] \in Nat /\ Rank[u] \in Nat
      BY <3>1 DEF Rank, Chain
    <3>. QED
      BY <3>1, <3>2
  <2>. QED
    BY <2>2, <2>3, <1>6
<1>9. Left(r)' \subseteq OnRoute(r)'
  BY <1>1, <1>2, <1>6 DEF RouteFits
<1>10. RouteFits(r)'
  BY <1>7, <1>8, <1>9 DEF RouteFits, Chain, Rank
<1>. QED
  BY <1>1, <1>2, <1>3, <1>4, <1>5, <1>6, <1>10

\* What the call does beside.
PopEffects(r, x) ==
    /\ RequestTypes(r)'
    /\ stored \subseteq stored' /\ odd \subseteq odd'
    /\ x # "count" => ItemsOf(r)' = ItemsOf(r)
    /\ x = "count" => File(r) \in odd' \/ \E c \in ItemsOf(r)' : ItemsOf(r)' = {c}
    /\ row'[r] = IF x \in {"row", "submit"} THEN "held" ELSE row[r]
    /\ x = "job" => job'[r] = "pending"
    /\ x = "send" => job'[r] = "queued"
    /\ x \notin {"job", "send"} => job'[r] = job[r]
    /\ x = "copy" => Home(r) \in stored'
    /\ Holds(r)' = Holds(r)
    /\ x # "row" => (r \in owing' <=> r \in owing)
    /\ x = "row" => File(r) \notin Metered \ odd' \/ (r \in owing' <=> ~Holds(r))
    /\ x # "content" => req'[r].tells = req[r].tells
    /\ x # "held" => req'[r].free = req[r].free
    /\ x = "held" => File(r) \notin Metered \ odd' \/ (req'[r].free <=> Holds(r))
    /\ x # "debit" => req'[r].told = req[r].told /\ Charges(r)' = Charges(r)
    /\ x = "debit" => \/ File(r) \notin Metered \ odd'
                      \/ /\ req'[r].told = DebitDue(r) /\ One(Of(r, "gate")', DebitDue(r))
                         /\ Of(r, "settle")' = Of(r, "settle")
                         /\ \A d \in Charges(r)' : d.token \in {"gate", "settle"}

\* The effects of the calls that are over are there after the next one.
LEMMA PopEffectsKept ==
    ASSUME NEW r \in Work, NEW x, RequestInv(r), Popped(r, x), PopEffects(r, x)
    PROVE  BegunFits(r)' /\ EffectsFit(r)'
<1>1. /\ Begun(r) /\ req[r].end = "none" /\ RouteFits(r) /\ x \in Left(r)
      /\ File(r)' = File(r) /\ KindOf(r)' = KindOf(r) /\ Begun(r)' /\ req'[r].end = "none"
      /\ Duplicate(r)' = Duplicate(r) /\ OnRoute(r)' = OnRoute(r)
      /\ RouteFits(r)'
      /\ Left(r)' = Left(r) \ {x}
      /\ \A y \in (Left(r) \cap Chain) \ {x} : x \in Chain => Rank[x] < Rank[y]
  BY PopRoute
<1>2. BegunFits(r) /\ EffectsFit(r) /\ RequestTypes(r)
  BY DEF RequestInv
<1>3. BegunFits(r)'
  BY <1>1, <1>2 DEF BegunFits
<1>4. /\ "job" \in Left(r) => "send" \in Left(r)
      /\ "submit" \in Left(r) => KindOf(r) = "link"
      /\ "send" \in Left(r) => ~Duplicate(r)
  BY <1>1, <1>2, ChainOf
<1>5. Home(r)' = Home(r)
  BY <1>1 DEF Home
<1>6. x = "send" => Left(r)' \cap Chain = {}
  <2>. SUFFICES ASSUME x = "send", NEW y \in Left(r)' \cap Chain PROVE FALSE
    OBVIOUS
  <2>1. y \in Chain /\ y # "send" /\ Rank["send"] < Rank[y] /\ "send" \in Chain
    BY <1>1, RankOf
  <2>. QED
    BY <2>1, RankOf
<1>7. job'[r] \in Sent => Left(r)' \cap Chain = {} /\ ~Duplicate(r)'
  <2>1. CASE x = "send"
    BY <2>1, <1>1, <1>4, <1>6
  <2>2. CASE x # "send"
    BY <2>2, <1>1, <1>2 DEF EffectsFit, PopEffects, Sent
  <2>. QED
    BY <2>1, <2>2
<1>8. /\ "count" \in Left(r)' => ItemsOf(r)' = {}
      /\ "row" \in Left(r)' => row'[r] = "none"
  BY <1>1, <1>2, <1>4 DEF EffectsFit, PopEffects, RouteFits, OnRoute, StepsOf
<1>9. row'[r] = "none" => "row" \in Left(r)' \/ "submit" \in Left(r)'
  BY <1>1, <1>2 DEF EffectsFit, PopEffects
<1>10. KindOf(r)' # "link" => "copy" \in Left(r)' \/ Home(r)' \in stored'
  BY <1>1, <1>2, <1>5 DEF EffectsFit, PopEffects
<1>11. KindOf(r)' # "link" /\ ~Duplicate(r)' =>
                "send" \in Left(r)' \/ job'[r] \notin {"none", "pending"}
  BY <1>1, <1>2, <1>4 DEF EffectsFit, PopEffects
<1>12. KindOf(r)' # "shared" /\ File(r)' \notin odd' =>
                "count" \in Left(r)' \/ \E c \in ItemsOf(r)' : ItemsOf(r)' = {c}
  BY <1>1, <1>2 DEF EffectsFit, PopEffects
<1>. QED
  BY <1>3, <1>7, <1>8, <1>9, <1>10, <1>11, <1>12, <1>1 DEF EffectsFit, Sent

\* What the save is charged fits after the call as well.
LEMMA PopPaid ==
    ASSUME NEW r \in Work, NEW x, RequestInv(r), Popped(r, x), PopEffects(r, x)
    PROVE  PaidFits(r)'
<1>1. /\ Begun(r) /\ req[r].end = "none" /\ RouteFits(r) /\ x \in Left(r)
      /\ File(r)' = File(r) /\ KindOf(r)' = KindOf(r) /\ Begun(r)' /\ req'[r].end = "none"
      /\ Duplicate(r)' = Duplicate(r)
      /\ Left(r)' = Left(r) \ {x}
      /\ \A y \in (Left(r) \cap Chain) \ {x} : x \in Chain => Rank[x] < Rank[y]
  BY PopRoute
<1>. SUFFICES ASSUME File(r) \in Metered, File(r) \notin odd'
              PROVE  OwingFits(r)' /\ ChargesFit(r)' /\ EndFits(r)'
  BY <1>1 DEF PaidFits, Metered
<1>2. BegunFits(r) /\ EffectsFit(r) /\ RequestTypes(r) /\ OwingFits(r) /\ ChargesFit(r) /\ EndFits(r)
  BY DEF RequestInv, PaidFits, PopEffects
<1>4. /\ "held" \in Left(r) => "debit" \in Left(r)
      /\ "content" \in Left(r) => "debit" \in Left(r)
      /\ "row" \in Left(r) => {"held", "debit", "send"} \subseteq Left(r)
  BY <1>1, <1>2, ChainOf
<1>5. /\ x = "held" => "row" \notin Left(r)
      /\ x = "debit" => "held" \notin Left(r) /\ "row" \notin Left(r)
  BY <1>1, RankOf
<1>6. OwingFits(r)'
  <2>1. "held" \in Left(r)' => ~req'[r].free
    BY <1>1, <1>2 DEF OwingFits, PopEffects
  <2>2. "row" \in Left(r)' => r \notin owing'
    BY <1>1, <1>2 DEF OwingFits, PopEffects
  <2>3. "held" \in Left(r)' /\ "row" \notin Left(r)' => (r \in owing' <=> ~Holds(r)')
    BY <1>1, <1>2 DEF OwingFits, PopEffects
  <2>4. "held" \notin Left(r)' => (r \in owing' <=> ~req'[r].free)
    BY <1>1, <1>2, <1>4, <1>5 DEF OwingFits, PopEffects
  <2>. QED
    BY <2>1, <2>2, <2>3, <2>4 DEF OwingFits
<1>7. EndFits(r)'
  <2>1. row'[r] # "deleted" /\ job'[r] # "failed"
    BY <1>1, <1>2 DEF EndFits, PopEffects, Popped
  <2>. QED
    BY <2>1, <1>1 DEF EndFits
<1>8. req'[r].free = req[r].free /\ "debit" \notin Left(r)' => DebitDue(r)' = DebitDue(r)
  BY <1>1, <1>4 DEF DebitDue, GateMinutes, PopEffects
<1>9. x # "debit" => Of(r, "gate")' = Of(r, "gate") /\ Of(r, "settle")' = Of(r, "settle")
  BY DEF Of, Charges, PopEffects
<1>10. ChargesFit(r)'
  <2>1. \A d \in Charges(r)' : d.token \in {"gate", "settle"}
    BY <1>2 DEF ChargesFit, PopEffects
  <2>2. "debit" \in Left(r)' => Of(r, "gate")' = {}
    BY <1>1, <1>2, <1>9 DEF ChargesFit
  <2>3. "debit" \notin Left(r)' => req'[r].told = DebitDue(r)' /\ One(Of(r, "gate")', DebitDue(r)')
    <3>1. CASE x = "debit"
      BY <3>1, <1>1, <1>8 DEF PopEffects
    <3>2. CASE x # "debit"
      BY <3>2, <1>1, <1>2, <1>4, <1>8, <1>9 DEF ChargesFit, PopEffects
    <3>. QED
      BY <3>1, <3>2
  <2>4. Of(r, "settle")' = Of(r, "settle")
    BY <1>9 DEF PopEffects
  <2>5. CASE job[r] \in Sent
    <3>1. x \notin Chain
      BY <1>1, <1>2, <2>5 DEF EffectsFit
    <3>2. x \notin {"job", "send", "held", "debit"}
      BY <3>1, RankOf
    <3>3. job'[r] = job[r] /\ req'[r].free = req[r].free /\ req'[r].told = req[r].told
      BY <3>2 DEF PopEffects
    <3>4. BillDue(r)' = BillDue(r)
      BY <1>1, <3>3 DEF BillDue
    <3>. QED
      BY <1>2, <2>1, <2>2, <2>3, <2>4, <3>3, <3>4 DEF ChargesFit
  <2>6. CASE job[r] \notin Sent
    <3>1. Of(r, "settle")' = {}
      BY <1>2, <2>4, <2>6 DEF ChargesFit
    <3>2. job'[r] \in Sent => job'[r] = "queued"
      BY <2>6 DEF PopEffects, Sent
    <3>. QED
      BY <2>1, <2>2, <2>3, <3>1, <3>2 DEF ChargesFit, Sent
  <2>. QED
    BY <2>5, <2>6
<1>. QED
  BY <1>6, <1>7, <1>10

\* A call that goes on keeps the invariant of its request.
LEMMA PopKeeps ==
    ASSUME NEW r \in Work, NEW x, RequestInv(r), Popped(r, x), PopEffects(r, x)
    PROVE  RequestInv(r)'
  BY PopRoute, PopEffectsKept, PopPaid DEF RequestInv, PopEffects

\* A request ends before its route does.
EndEffects(r) ==
    /\ UnderWay(r) /\ RequestTypes(r)'
    /\ req'[r].todo = <<>> /\ req'[r].end # "none"
    /\ req'[r].file = req[r].file /\ req'[r].known = req[r].known
    /\ req'[r].free = req[r].free /\ req'[r].told = req[r].told
    /\ (r \in owing' <=> r \in owing)
    /\ ItemsOf(r)' = ItemsOf(r) /\ Charges(r)' = Charges(r)
    /\ stored \subseteq stored' /\ odd \subseteq odd'
    /\ row'[r] = row[r] /\ job'[r] \in {job[r], "failed"}
    /\ row[r] = "held" => File(r) \in odd' \/ "check" \in Left(r)

\* Nothing is left of a request whose calls are over.
LEMMA NothingLeft ==
    ASSUME NEW r, req[r].todo = <<>>
    PROVE  Left(r) = {} /\ RouteFits(r) /\ ~UnderWay(r)
  BY EmptyRoute DEF Left, RouteFits, UnderWay

\* A request may end at any call: its row was not written, or its file is odd.
LEMMA EndKeeps ==
    ASSUME NEW r \in Work, RequestInv(r), EndEffects(r)
    PROVE  RequestInv(r)'
<1>1. /\ BegunFits(r) /\ EffectsFit(r) /\ RequestTypes(r) /\ Begun(r) /\ RouteFits(r)
      /\ req[r].end = "none"
  BY DEF RequestInv, EndEffects, BegunFits
<1>2. /\ File(r)' = File(r) /\ KindOf(r)' = KindOf(r) /\ Begun(r)' /\ Duplicate(r)' = Duplicate(r)
  BY <1>1 DEF EndEffects, File, KindOf, Begun, Duplicate
<1>3. Left(r)' = {} /\ RouteFits(r)' /\ ~UnderWay(r)'
  BY EmptyRoute DEF EndEffects, Left, RouteFits, UnderWay
<1>4. BegunFits(r)'
  BY <1>1, <1>2, <1>3 DEF BegunFits
<1>5. EffectsFit(r)'
  BY <1>1, <1>2, <1>3 DEF EffectsFit, EndEffects, Sent
<1>6. PaidFits(r)'
  <2>. SUFFICES ASSUME File(r) \in Metered, File(r) \notin odd'
                PROVE  OwingFits(r)' /\ ChargesFit(r)' /\ EndFits(r)'
    BY <1>2 DEF PaidFits, Metered
  <2>1. OwingFits(r) /\ ChargesFit(r) /\ EndFits(r)
    BY DEF RequestInv, PaidFits, EndEffects
  <2>2. /\ "check" \in Left(r) => "row" \in Left(r)
        /\ "row" \in Left(r) => {"held", "debit", "send"} \subseteq Left(r)
        /\ "submit" \in Left(r) => KindOf(r) = "link"
    BY <1>1, ChainOf
  <2>3. KindOf(r) # "link"
    BY DEF Metered, KindOf
  <2>4. row[r] = "none"
    BY <1>1, <2>1, <2>2 DEF EndEffects, EndFits, EffectsFit, RequestTypes, RowStates
  <2>5. "row" \in Left(r)
    BY <1>1, <2>2, <2>3, <2>4 DEF EffectsFit
  <2>6. r \notin owing /\ Of(r, "gate") = {} /\ job[r] \notin Sent /\ Of(r, "settle") = {}
    <3>1. "debit" \in Left(r) /\ "row" \in Chain
      BY <2>2, <2>5, RankOf
    <3>2. job[r] \notin Sent
      BY <1>1, <2>5, <3>1 DEF EffectsFit
    <3>. QED
      BY <2>1, <2>5, <3>1, <3>2 DEF OwingFits, ChargesFit
  <2>7. Of(r, "gate")' = Of(r, "gate") /\ Of(r, "settle")' = Of(r, "settle")
    BY DEF Of, Charges, EndEffects
  <2>8. job'[r] \notin Sent
    BY <2>6 DEF EndEffects, Sent
  <2>9. EndFits(r)'
    BY <1>3, <2>4, <2>6, <2>7, <2>8 DEF EndFits, EndEffects
  <2>10. OwingFits(r)'
    BY <1>3 DEF OwingFits, EndEffects
  <2>11. ChargesFit(r)'
    <3>1. \A d \in Charges(r)' : d.token \in {"gate", "settle"}
      BY <2>1 DEF ChargesFit, EndEffects
    <3>. QED
      BY <1>3, <2>6, <2>7, <2>8, <3>1 DEF ChargesFit, EndEffects, Sent
  <2>. QED
    BY <2>9, <2>10, <2>11
<1>. QED
  BY <1>3, <1>4, <1>5, <1>6 DEF RequestInv, EndEffects

\* The content is known: the request goes on as a duplicate's.
ReuseEffects(r) ==
    /\ UnderWay(r) /\ Head(req[r].todo) \in {"ledger", "reserve"}
    /\ RequestTypes(r)'
    /\ req'[r].todo = DuplicateRoute /\ req'[r].known # NoJob
    /\ req'[r].file = req[r].file /\ req'[r].end = req[r].end
    /\ req'[r].free = req[r].free /\ req'[r].told = req[r].told
    /\ (r \in owing' <=> r \in owing)
    /\ ItemsOf(r)' = ItemsOf(r) /\ Charges(r)' = Charges(r)
    /\ stored \subseteq stored' /\ odd \subseteq odd'
    /\ row'[r] = row[r] /\ job'[r] = job[r]
    /\ Holds(r)' = Holds(r)

\* A duplicate asks and pays, and its own job is never sent.
LEMMA ReuseKeeps ==
    ASSUME NEW r \in Work, RequestInv(r), ReuseEffects(r)
    PROVE  RequestInv(r)'
<1>. DEFINE x == Head(req[r].todo)
            s == req[r].todo
<1>1. /\ BegunFits(r) /\ EffectsFit(r) /\ RequestTypes(r) /\ Begun(r) /\ RouteFits(r)
      /\ req[r].end = "none" /\ s \in Seq(Steps) /\ s # <<>> /\ x \in {"ledger", "reserve"}
      /\ Ordered(s) /\ Left(r) = ToSet(s)
  BY DEF RequestInv, ReuseEffects, BegunFits, RequestTypes, UnderWay, RouteFits, Left
<1>. HIDE DEF s
<1>2. /\ x \in Left(r) /\ "copy" \notin Left(r) /\ "row" \notin Left(r)
  <2>1. ToSet(s) = {Head(s)} \cup ToSet(Tail(s)) /\ Head(s) \in ToSet(s)
    BY <1>1, TailElements
  <2>2. /\ \A y \in ToSet(Tail(s)) \cap Chain : Head(s) \in Chain => Rank[Head(s)] < Rank[y]
        /\ Head(s) \in {"ledger", "reserve"} => "copy" \notin ToSet(Tail(s))
    BY <1>1, TailOrdered
  <2>3. x = Head(s)
    BY DEF s
  <2>4. "row" \notin ToSet(Tail(s))
    BY <1>1, <2>2, <2>3, RankOf
  <2>. QED
    BY <1>1, <2>1, <2>2, <2>3, <2>4
<1>. HIDE DEF x
<1>3. "held" \in Left(r) /\ "debit" \in Left(r) /\ KindOf(r) = "shared" /\ "submit" \notin Left(r)
  BY <1>1, <1>2, ChainOf
<1>4. job[r] \notin Sent
  BY <1>1, <1>2, RankOf DEF EffectsFit
<1>5. /\ File(r)' = File(r) /\ KindOf(r)' = KindOf(r) /\ Begun(r)' /\ Duplicate(r)' /\ Home(r)' = Home(r)
      /\ OnRoute(r)' = {"content", "held", "debit"} /\ Left(r)' = {"content", "held", "debit"}
  BY <1>1, ShortRoute DEF ReuseEffects, File, KindOf, Begun, Duplicate, OnRoute, Left, Home
<1>6. RouteFits(r)'
  <2>1. Ordered(req[r].todo)'
    BY ShortRoute DEF ReuseEffects, Ordered, Chain, Rank
  <2>. QED
    BY <1>5, <2>1 DEF RouteFits, Chain, Rank
<1>7. BegunFits(r)'
  BY <1>1, <1>3, <1>5 DEF BegunFits, ReuseEffects
<1>8. EffectsFit(r)'
  BY <1>1, <1>2, <1>3, <1>4, <1>5 DEF EffectsFit, ReuseEffects, Sent
<1>9. PaidFits(r)'
  <2>. SUFFICES ASSUME File(r) \in Metered, File(r) \notin odd'
                PROVE  OwingFits(r)' /\ ChargesFit(r)' /\ EndFits(r)'
    BY <1>5 DEF PaidFits, Metered
  <2>1. OwingFits(r) /\ ChargesFit(r) /\ EndFits(r)
    BY DEF RequestInv, PaidFits, ReuseEffects
  <2>2. Of(r, "gate")' = Of(r, "gate") /\ Of(r, "settle")' = Of(r, "settle")
    BY DEF Of, Charges, ReuseEffects
  <2>3. OwingFits(r)'
    BY <1>2, <1>3, <1>5, <2>1 DEF OwingFits, ReuseEffects
  <2>4. EndFits(r)'
    BY <1>1, <1>5, <2>1 DEF EndFits, ReuseEffects
  <2>5. ChargesFit(r)'
    <3>1. \A d \in Charges(r)' : d.token \in {"gate", "settle"}
      BY <2>1 DEF ChargesFit, ReuseEffects
    <3>2. Of(r, "gate")' = {} /\ Of(r, "settle")' = {}
      BY <1>3, <1>4, <2>1, <2>2 DEF ChargesFit
    <3>. QED
      BY <1>4, <1>5, <3>1, <3>2 DEF ChargesFit, ReuseEffects, Sent
  <2>. QED
    BY <2>3, <2>4, <2>5
<1>. QED
  BY <1>6, <1>7, <1>8, <1>9 DEF RequestInv, ReuseEffects

\* A request comes.
BeginEffects(r, f) ==
    /\ ~Begun(r) /\ f \in Files
    /\ RequestTypes(r)'
    /\ req'[r].file = f /\ req'[r].todo = Route(f)
    /\ req'[r].end = req[r].end /\ req'[r].known = req[r].known /\ req'[r].free = req[r].free
    /\ (r \in owing' <=> r \in owing)
    /\ ItemsOf(r)' = ItemsOf(r) /\ Charges(r)' = Charges(r)
    /\ row'[r] = row[r] /\ job'[r] = job[r]

\* A request that comes has its whole route before it.
LEMMA BeginKeeps ==
    ASSUME NEW r \in Work, NEW f, RequestInv(r), BeginEffects(r, f)
    PROVE  RequestInv(r)'
<1>1. /\ req[r] = Idle /\ job[r] = "none" /\ row[r] = "none" /\ ItemsOf(r) = {} /\ Charges(r) = {}
      /\ r \notin owing /\ f \in Files
  BY DEF RequestInv, BegunFits, BeginEffects
<1>2. /\ File(r)' = f /\ KindOf(r)' = Kind[f] /\ Begun(r)' /\ ~Duplicate(r)' /\ req'[r].end = "none"
      /\ ~req'[r].free
  BY <1>1, IntakeAssumption DEF Idle, BeginEffects, File, KindOf, Begun, Duplicate
<1>3. /\ Route(f) \in Seq(Steps) /\ Route(f) # <<>> /\ Ordered(Route(f))
      /\ ToSet(Route(f)) = StepsOf(f)
  BY <1>1, Routes
<1>4. Left(r)' = StepsOf(f) /\ OnRoute(r)' = StepsOf(f) /\ UnderWay(r)'
  BY <1>2, <1>3 DEF Left, OnRoute, UnderWay, BeginEffects
<1>5. RouteFits(r)'
  <2>1. Ordered(req[r].todo)'
    BY <1>3 DEF BeginEffects, Ordered
  <2>. QED
    BY <1>4, <2>1 DEF RouteFits, Chain, Rank
<1>6. BegunFits(r)'
  BY <1>2 DEF BegunFits
<1>7. EffectsFit(r)'
  <2>1. Kind[f] \in FileKinds
    BY <1>1, IntakeAssumption
  <2>2. /\ Kind[f] = "link" => StepsOf(f) = {"check", "submit", "count"}
        /\ Kind[f] # "link" => {"row", "copy", "send"} \subseteq StepsOf(f)
        /\ Kind[f] # "shared" => "count" \in StepsOf(f)
    BY <2>1 DEF StepsOf, FileKinds
  <2>. QED
    BY <1>1, <1>2, <1>4, <2>2 DEF EffectsFit, BeginEffects, Sent
<1>8. PaidFits(r)'
  <2>. SUFFICES ASSUME f \in Metered
                PROVE  OwingFits(r)' /\ ChargesFit(r)' /\ EndFits(r)'
    BY <1>2 DEF PaidFits, Metered
  <2>1. {"row", "held", "debit"} \subseteq StepsOf(f)
    BY DEF StepsOf, Metered
  <2>2. Of(r, "gate")' = {} /\ Of(r, "settle")' = {} /\ Charges(r)' = {}
    BY <1>1 DEF Of, Charges, BeginEffects
  <2>3. OwingFits(r)'
    BY <1>1, <1>2, <1>4, <2>1 DEF OwingFits, BeginEffects
  <2>4. EndFits(r)'
    BY <1>1, <1>2 DEF EndFits, BeginEffects
  <2>5. ChargesFit(r)'
    BY <1>1, <1>4, <2>1, <2>2 DEF ChargesFit, BeginEffects, Sent
  <2>. QED
    BY <2>3, <2>4, <2>5
<1>. QED
  BY <1>5, <1>6, <1>7, <1>8 DEF RequestInv, BeginEffects

\* A worker charges the bill, ends, or is given the message again.
WorkEffects(r) ==
    /\ RequestTypes(r)'
    /\ req'[r] = req[r] /\ row'[r] = row[r]
    /\ (r \in owing' <=> r \in owing)
    /\ ItemsOf(r)' = ItemsOf(r)
    /\ stored \subseteq stored' /\ odd \subseteq odd'
    /\ Holds(r)' = Holds(r)
    /\ job[r] \in Sent /\ job'[r] \in Sent \cup {"failed"}
    /\ File(r) \in Metered \ odd' =>
          /\ job'[r] \in Sent
          /\ Of(r, "gate")' = Of(r, "gate")
          /\ \A d \in Charges(r)' : d.token \in {"gate", "settle"}
          /\ job'[r] = "queued" =>
                Of(r, "settle")' = {} \/ One(Of(r, "settle")', BillDue(r))
          /\ job'[r] # "queued" => One(Of(r, "settle")', BillDue(r))

\* The worker's steps come after the request's chain of calls.
LEMMA WorkKeeps ==
    ASSUME NEW r \in Work, RequestInv(r), WorkEffects(r)
    PROVE  RequestInv(r)'
<1>1. /\ BegunFits(r) /\ EffectsFit(r) /\ RequestTypes(r)
      /\ Begun(r) /\ RouteFits(r)
  BY DEF RequestInv, WorkEffects, BegunFits, Sent
<1>2. /\ File(r)' = File(r) /\ KindOf(r)' = KindOf(r) /\ Begun(r)' /\ Duplicate(r)' = Duplicate(r)
      /\ Left(r)' = Left(r) /\ OnRoute(r)' = OnRoute(r) /\ UnderWay(r)' = UnderWay(r)
      /\ DebitDue(r)' = DebitDue(r) /\ BillDue(r)' = BillDue(r) /\ Home(r)' = Home(r)
  BY <1>1 DEF WorkEffects, File, KindOf, Begun, Duplicate, Left, OnRoute, UnderWay, DebitDue,
     BillDue, Home
<1>3. RouteFits(r)'
  <2>1. Ordered(req[r].todo)'
    BY <1>1 DEF WorkEffects, Ordered, RouteFits
  <2>. QED
    BY <1>1, <1>2, <2>1 DEF RouteFits, Chain, Rank
<1>4. BegunFits(r)'
  BY <1>1, <1>2 DEF BegunFits, WorkEffects
<1>5. EffectsFit(r)'
  BY <1>1, <1>2 DEF EffectsFit, WorkEffects, Sent
<1>6. PaidFits(r)'
  <2>. SUFFICES ASSUME File(r) \in Metered, File(r) \notin odd'
                PROVE  OwingFits(r)' /\ ChargesFit(r)' /\ EndFits(r)'
    BY <1>2 DEF PaidFits, Metered
  <2>1. OwingFits(r) /\ ChargesFit(r) /\ EndFits(r)
    BY DEF RequestInv, PaidFits, WorkEffects
  <2>2. OwingFits(r)'
    BY <1>2, <2>1 DEF OwingFits, WorkEffects
  <2>3. EndFits(r)'
    BY <1>2, <2>1 DEF EndFits, WorkEffects, Sent
  <2>4. One(Of(r, "gate"), DebitDue(r)) => One(Of(r, "gate")', DebitDue(r)')
    BY <1>2 DEF WorkEffects, One
  <2>5. ChargesFit(r)'
    BY <1>2, <2>1, <2>4 DEF ChargesFit, WorkEffects, Sent
  <2>. QED
    BY <2>2, <2>3, <2>5
<1>. QED
  BY <1>3, <1>4, <1>5, <1>6 DEF RequestInv, WorkEffects

\* Another request's step, or the deletion of a save.
StaysEffects(r) ==
    /\ RequestTypes(r)'
    /\ req'[r] = req[r] /\ job'[r] = job[r]
    /\ (r \in owing' <=> r \in owing)
    /\ ItemsOf(r)' = ItemsOf(r) /\ Charges(r)' = Charges(r)
    /\ stored \subseteq stored' /\ odd \subseteq odd'
    /\ \/ row'[r] = row[r]
       \/ row[r] = "held" /\ row'[r] = "deleted" /\ ~UnderWay(r)
    /\ \/ Holds(r)' = Holds(r)
       \/ File(r) \in odd' \/ File(r) \notin Metered
       \/ "held" \notin Left(r)
       \/ row[r] # "held"

\* A request whose own state stays is kept: who holds the file changes only where the
\* file is odd, or before the row is written, or after the question was asked.
LEMMA StaysKeeps ==
    ASSUME NEW r \in Work, RequestInv(r), StaysEffects(r)
    PROVE  RequestInv(r)'
<1>1. /\ BegunFits(r) /\ EffectsFit(r) /\ RequestTypes(r) /\ (Begun(r) => RouteFits(r))
  BY DEF RequestInv
<1>2. /\ File(r)' = File(r) /\ KindOf(r)' = KindOf(r) /\ Begun(r)' = Begun(r)
      /\ Duplicate(r)' = Duplicate(r)
      /\ Left(r)' = Left(r) /\ OnRoute(r)' = OnRoute(r) /\ UnderWay(r)' = UnderWay(r)
      /\ DebitDue(r)' = DebitDue(r) /\ BillDue(r)' = BillDue(r) /\ Home(r)' = Home(r)
  BY <1>1 DEF StaysEffects, File, KindOf, Begun, Duplicate, Left, OnRoute, UnderWay, DebitDue,
     BillDue, Home
<1>3. Begun(r)' => RouteFits(r)'
  <2>1. Ordered(req[r].todo) => Ordered(req[r].todo)'
    BY DEF StaysEffects, Ordered
  <2>. QED
    BY <1>1, <1>2, <2>1 DEF RouteFits, Chain, Rank
<1>4. BegunFits(r)'
  <2>1. ~Begun(r) => row'[r] = row[r]
    BY <1>1 DEF BegunFits, StaysEffects
  <2>. QED
    BY <1>1, <1>2, <2>1 DEF BegunFits, StaysEffects
<1>5. EffectsFit(r)'
  <2>1. "row" \in Left(r) => row'[r] = row[r]
    BY <1>1 DEF EffectsFit, StaysEffects
  <2>2. row'[r] = "none" => row[r] = "none"
    BY DEF StaysEffects
  <2>. QED
    BY <1>1, <1>2, <2>1, <2>2 DEF EffectsFit, StaysEffects, Sent
<1>6. PaidFits(r)'
  <2>. SUFFICES ASSUME File(r) \in Metered, File(r) \notin odd'
                PROVE  OwingFits(r)' /\ ChargesFit(r)' /\ EndFits(r)'
    BY <1>2 DEF PaidFits, Metered
  <2>1. OwingFits(r) /\ ChargesFit(r) /\ EndFits(r)
    BY DEF RequestInv, PaidFits, StaysEffects
  <2>2. "held" \in Left(r) /\ "row" \notin Left(r) => row[r] = "held"
    <3>. SUFFICES ASSUME "held" \in Left(r), "row" \notin Left(r)
                  PROVE  row[r] = "held"
      OBVIOUS
    <3>1. UnderWay(r)
      BY EmptyRoute DEF Left, UnderWay
    <3>2. Begun(r) /\ req[r].end = "none" /\ row[r] # "deleted"
      BY <1>1, <2>1, <3>1 DEF BegunFits, EndFits
    <3>3. KindOf(r) # "link"
      BY DEF Metered, KindOf
    <3>4. "submit" \notin Left(r)
      BY <1>1, <3>2, <3>3, ChainOf
    <3>. QED
      BY <1>1, <3>2, <3>4 DEF EffectsFit, RequestTypes, RowStates
  <2>3. OwingFits(r)'
    BY <1>2, <2>1, <2>2 DEF OwingFits, StaysEffects
  <2>4. EndFits(r)'
    <3>1. req[r].end # "none" => row'[r] = row[r]
      BY <2>1 DEF EndFits, StaysEffects
    <3>2. Of(r, "gate")' = Of(r, "gate")
      BY DEF Of, Charges, StaysEffects
    <3>. QED
      BY <1>2, <2>1, <3>1, <3>2 DEF EndFits, StaysEffects, Sent
  <2>5. ChargesFit(r)'
    <3>1. Of(r, "gate")' = Of(r, "gate") /\ Of(r, "settle")' = Of(r, "settle")
      BY DEF Of, Charges, StaysEffects
    <3>. QED
      BY <1>2, <2>1, <3>1 DEF ChargesFit, StaysEffects, Sent
  <2>. QED
    BY <2>3, <2>4, <2>5
<1>. QED
  BY <1>3, <1>4, <1>5, <1>6 DEF RequestInv, StaysEffects

\* The erasure takes the rows and the counters.
EraseEffects ==
    /\ UNCHANGED <<staged, req, job, stored, entry, owing>>
    /\ debits' = {} /\ counts' = {} /\ odd' = Files
    /\ row' = [r \in Work |-> IF row[r] = "held" THEN "deleted" ELSE row[r]]

\* The erasure makes every file odd.
LEMMA EraseKeeps ==
    ASSUME NEW r \in Work, RequestInv(r), EraseEffects
    PROVE  RequestInv(r)'
<1>1. /\ BegunFits(r) /\ EffectsFit(r) /\ RequestTypes(r) /\ (Begun(r) => RouteFits(r))
  BY DEF RequestInv
<1>2. /\ File(r)' = File(r) /\ KindOf(r)' = KindOf(r) /\ Begun(r)' = Begun(r)
      /\ Duplicate(r)' = Duplicate(r)
      /\ Left(r)' = Left(r) /\ OnRoute(r)' = OnRoute(r) /\ UnderWay(r)' = UnderWay(r)
      /\ Home(r)' = Home(r) /\ ItemsOf(r)' = {} /\ Charges(r)' = {}
  BY <1>1 DEF EraseEffects, File, KindOf, Begun, Duplicate, Left, OnRoute, UnderWay, Home, ItemsOf,
     Charges
<1>3. Begun(r)' => RouteFits(r)'
  <2>1. Ordered(req[r].todo) => Ordered(req[r].todo)'
    BY DEF EraseEffects, Ordered
  <2>. QED
    BY <1>1, <1>2, <2>1 DEF RouteFits, Chain, Rank
<1>4. row'[r] = IF row[r] = "held" THEN "deleted" ELSE row[r]
  BY DEF EraseEffects
<1>5. BegunFits(r)'
  BY <1>1, <1>2, <1>4 DEF BegunFits, EraseEffects
<1>6. RequestTypes(r)'
  BY <1>1, <1>4 DEF RequestTypes, EraseEffects, RowStates
<1>7. File(r)' \in odd' \/ ~Begun(r)
  BY <1>1, <1>2 DEF RequestTypes, Begun, File, EraseEffects
<1>8. EffectsFit(r)'
  BY <1>1, <1>2, <1>4, <1>7 DEF EffectsFit, EraseEffects, Sent
<1>9. PaidFits(r)'
  BY <1>2, <1>7, IntakeAssumption DEF PaidFits, Metered, Begun, File
<1>. QED
  BY <1>3, <1>5, <1>6, <1>8, <1>9 DEF RequestInv

-----------------------------------------------------------------------------
(* Steps of one request among the others                                   *)

\* An object is there only under a key that was signed for a file.
StagedFit ==
    /\ staged \in [Keys -> [file : Uploads \cup {NoFile}, there : BOOLEAN]]
    /\ \A k \in Keys : staged[k].there => staged[k].file # NoFile

\* The tables have their rows.
Tables ==
    /\ DOMAIN req = Work /\ DOMAIN job = Work /\ DOMAIN row = Work /\ DOMAIN entry = Shared
    /\ StagedFit

\* A step is of one request only.
Only(r) ==
    /\ Tables'
    /\ \A o \in Work \ {r} :
          /\ req'[o] = req[o] /\ job'[o] = job[o] /\ row'[o] = row[o]
          /\ (o \in owing' <=> o \in owing)
          /\ ItemsOf(o)' = ItemsOf(o) /\ Charges(o)' = Charges(o)
    /\ stored \subseteq stored' /\ odd \subseteq odd'
    /\ \/ File(r)' = File(r)
       \/ row[r] # "held" /\ row'[r] # "held"
    /\ \/ row'[r] = "held" <=> row[r] = "held"
       \/ File(r) \notin Metered
       \/ Upsets(r)

\* A step of one request keeps the invariant of the others.
LEMMA OthersAreKept ==
    ASSUME NEW r \in Work, Only(r), NEW o \in Work \ {r}, RequestInv(o)
    PROVE  RequestInv(o)'
<1>1. RequestTypes(o)'
  BY DEF RequestInv, RequestTypes, Only
<1>2. File(o)' = File(o) /\ Left(o)' = Left(o)
  BY DEF Only, File, Left
<1>3. \/ Holds(o)' = Holds(o)
      \/ File(o) \in odd' \/ File(o) \notin Metered
      \/ "held" \notin Left(o)
      \/ row[o] # "held"
  <2>. SUFFICES ASSUME File(o) \in Metered, "held" \in Left(o), row[o] = "held", File(o) \notin odd'
                PROVE  Holds(o)' = Holds(o)
    OBVIOUS
  <2>1. \A p \in Work \ {o, r} : File(p)' = File(p) /\ row'[p] = row[p]
    BY DEF Only, File
  <2>2. (File(r) = File(o) /\ row[r] = "held") <=> (File(r)' = File(o) /\ row'[r] = "held")
    <3>1. CASE row'[r] = "held" <=> row[r] = "held"
      BY <3>1 DEF Only
    <3>2. CASE Upsets(r) /\ File(r) = File(o)
      <4>1. Undecided(r)
        BY <3>2 DEF Undecided, Left
      <4>. QED
        BY <3>2, <4>1 DEF Upsets
    <3>. QED
      BY <3>1, <3>2 DEF Only
  <2>. QED
    BY <1>2, <2>1, <2>2 DEF Holds
<1>4. StaysEffects(o)
  BY <1>1, <1>3 DEF StaysEffects, Only
<1>. QED
  BY <1>4, StaysKeeps

\* What a request does to its own row is not what it finds of the others.
LEMMA OwnRows ==
    ASSUME NEW r \in Work, Only(r), File(r)' = File(r)
    PROVE  Holds(r)' = Holds(r)
<1>1. \A p \in Work \ {r} : File(p)' = File(p) /\ row'[p] = row[p]
  BY DEF Only, File
<1>. QED
  BY <1>1 DEF Holds

SubmissionsInv ==
    /\ Tables /\ EntriesFit /\ CountsFit
    /\ \A r \in Work : RequestInv(r)

\* A step of one request keeps the invariant if it keeps the request's own.
LEMMA OneRequest ==
    ASSUME NEW r \in Work, SubmissionsInv, Only(r), RequestInv(r)', EntriesFit', CountsFit'
    PROVE  SubmissionsInv'
  BY OthersAreKept DEF SubmissionsInv, Only

\* What going on writes.
LEMMA GoesFacts ==
    ASSUME NEW r \in Work, Tables, RequestTypes(r), UnderWay(r), Goes(r)
    PROVE  /\ Popped(r, Head(req[r].todo)) /\ DOMAIN req' = Work
           /\ req'[r].free = req[r].free /\ req'[r].told = req[r].told
           /\ req'[r].tells = req[r].tells
           /\ \A o \in Work \ {r} : req'[o] = req[o]
           /\ job'[r] \in JobStates /\ row'[r] \in RowStates => RequestTypes(r)'
           /\ File(r)' = File(r)
<1>. DEFINE k == req[r]
<1>1. /\ k \in [file : Files \cup {NoFile}, key : Keys \cup {NoKey}, todo : Seq(Steps),
                   end : {"none", "refused", "broken"}, told : Nat, free : BOOLEAN,
                   known : Work \cup {Other, NoJob}, tells : BOOLEAN]
      /\ k.todo # <<>>
  BY DEF RequestTypes, UnderWay
<1>2. req'[r] = [k EXCEPT !.todo = Tail(k.todo)] /\ DOMAIN req' = Work
      /\ \A o \in Work \ {r} : req'[o] = req[o]
  BY DEF Goes, Tables
<1>. HIDE DEF k
<1>3. Tail(k.todo) \in Seq(Steps)
  BY <1>1, TailFacts
<1>4. req'[r] \in [file : Files \cup {NoFile}, key : Keys \cup {NoKey}, todo : Seq(Steps),
                   end : {"none", "refused", "broken"}, told : Nat, free : BOOLEAN,
                   known : Work \cup {Other, NoJob}, tells : BOOLEAN]
      /\ req'[r].todo = Tail(k.todo) /\ req'[r].file = k.file /\ req'[r].end = k.end
      /\ req'[r].known = k.known /\ req'[r].free = k.free /\ req'[r].told = k.told
      /\ req'[r].tells = k.tells
  BY <1>1, <1>2, <1>3
<1>. QED
  BY <1>2, <1>4 DEF k, Popped, RequestTypes, File

\* What ending writes.
LEMMA EndsFacts ==
    ASSUME NEW r \in Work, NEW how \in {"refused", "broken"}, Tables, RequestTypes(r), UnderWay(r),
           Ends(r, how)
    PROVE  /\ req'[r].todo = <<>> /\ req'[r].end # "none" /\ req'[r].file = req[r].file
           /\ req'[r].known = req[r].known /\ DOMAIN req' = Work
           /\ req'[r].free = req[r].free /\ req'[r].told = req[r].told
           /\ \A o \in Work \ {r} : req'[o] = req[o]
           /\ job'[r] \in JobStates /\ row'[r] \in RowStates => RequestTypes(r)'
           /\ File(r)' = File(r)
<1>. DEFINE k == req[r]
<1>1. k \in [file : Files \cup {NoFile}, key : Keys \cup {NoKey}, todo : Seq(Steps),
                   end : {"none", "refused", "broken"}, told : Nat, free : BOOLEAN,
                   known : Work \cup {Other, NoJob}, tells : BOOLEAN]
  BY DEF RequestTypes
<1>2. req'[r] = [k EXCEPT !.todo = <<>>, !.end = how] /\ DOMAIN req' = Work
      /\ \A o \in Work \ {r} : req'[o] = req[o]
  BY DEF Ends, Tables
<1>. HIDE DEF k
<1>4. req'[r] \in [file : Files \cup {NoFile}, key : Keys \cup {NoKey}, todo : Seq(Steps),
                   end : {"none", "refused", "broken"}, told : Nat, free : BOOLEAN,
                   known : Work \cup {Other, NoJob}, tells : BOOLEAN]
      /\ req'[r].todo = <<>> /\ req'[r].file = k.file /\ req'[r].end = how
      /\ req'[r].known = k.known /\ req'[r].free = k.free /\ req'[r].told = k.told
  BY <1>1, <1>2, EmptyRoute
<1>. QED
  BY <1>2, <1>4 DEF k, RequestTypes, File

\* What a write does to the charges.
LEMMA DebitFacts ==
    ASSUME NEW r \in Work, NEW token, NEW minutes, NEW trial,
           debits' = AddDebit(r, token, minutes, trial)
    PROVE  /\ \A o \in Work \ {r} : Charges(o)' = Charges(o)
           /\ \A u : u # token => Of(r, u)' = Of(r, u)
           /\ \A d \in Charges(r)' : d \in Charges(r) \/ d.token = token
           /\ Of(r, token) = {} => /\ One(Of(r, token)', minutes)
                                   /\ debits' = debits <=> minutes = 0
           /\ minutes = 0 => debits' = debits
           /\ (\E d \in Of(r, token) : d.period = Period(trial)) => debits' = debits
<1>. DEFINE p == Period(trial)
            new == [period |-> p, work |-> r, token |-> token, minutes |-> minutes]
            found == \E d \in debits : d.period = p /\ d.work = r /\ d.token = token
<1>1. debits' = IF minutes = 0 \/ found THEN debits ELSE debits \cup {new}
  BY DEF AddDebit
<1>2. new.period = p /\ new.work = r /\ new.token = token /\ new.minutes = minutes
  OBVIOUS
<1>. HIDE DEF p, new
<1>3. \A o \in Work \ {r} : Charges(o)' = Charges(o)
  BY <1>1, <1>2 DEF Charges
<1>4. \A u : u # token => Of(r, u)' = Of(r, u)
  BY <1>1, <1>2 DEF Of
<1>5. \A d \in Charges(r)' : d \in Charges(r) \/ d.token = token
  BY <1>1, <1>2 DEF Charges
<1>6. (\E d \in Of(r, token) : d.period = Period(trial)) => debits' = debits
  BY <1>1 DEF Of, p
<1>7. ASSUME Of(r, token) = {}
      PROVE  One(Of(r, token)', minutes) /\ (debits' = debits <=> minutes = 0)
  <2>1. ~found
    BY <1>7 DEF Of
  <2>2. new \notin debits
    BY <1>2, <1>7 DEF Of
  <2>3. CASE minutes = 0
    BY <2>3, <1>1, <1>7 DEF One, Of
  <2>4. CASE minutes # 0
    <3>1. debits' = debits \cup {new}
      BY <1>1, <2>1, <2>4
    <3>2. Of(r, token)' = {new}
      BY <3>1, <1>2, <1>7 DEF Of
    <3>. QED
      BY <3>1, <3>2, <2>2, <2>4, <1>2 DEF One
  <2>. QED
    BY <2>3, <2>4
<1>. QED
  BY <1>1, <1>3, <1>4, <1>5, <1>6, <1>7

\* What a write does to the counts of the day.
LEMMA CountFacts ==
    ASSUME NEW r \in Work, NEW token, NEW minutes, NEW items \in {0, 1}, CountsFit,
           token = "item" => items = 1,
           counts' = AddCount(r, token, minutes, items)
    PROVE  /\ CountsFit'
           /\ \A o \in Work \ {r} : ItemsOf(o)' = ItemsOf(o)
           /\ items = 0 => ItemsOf(r)' = ItemsOf(r)
           /\ minutes = 0 /\ items = 1 /\ token = "item" /\ ItemsOf(r) = {} =>
                 \E c \in ItemsOf(r)' : ItemsOf(r)' = {c}
<1>. DEFINE new == [day |-> today, work |-> r, token |-> token, items |-> items]
            found == \E c \in counts : c.day = today /\ c.work = r /\ c.token = token
<1>1. counts' = IF minutes + items = 0 \/ found THEN counts ELSE counts \cup {new}
  BY DEF AddCount
<1>2. new.work = r /\ new.token = token /\ new.items = items
  OBVIOUS
<1>. HIDE DEF new
<1>3. CountsFit'
  BY <1>1, <1>2 DEF CountsFit
<1>4. \A o \in Work \ {r} : ItemsOf(o)' = ItemsOf(o)
  BY <1>1, <1>2 DEF ItemsOf
<1>5. items = 0 => ItemsOf(r)' = ItemsOf(r)
  BY <1>1, <1>2 DEF ItemsOf
<1>6. ASSUME minutes = 0, items = 1, token = "item", ItemsOf(r) = {}
      PROVE  \E c \in ItemsOf(r)' : ItemsOf(r)' = {c}
  <2>1. ~found
    BY <1>6 DEF ItemsOf, CountsFit
  <2>2. counts' = counts \cup {new}
    BY <1>1, <1>6, <2>1
  <2>3. ItemsOf(r)' = {new}
    BY <1>2, <1>6, <2>2 DEF ItemsOf
  <2>. QED
    BY <2>3
<1>. QED
  BY <1>3, <1>4, <1>5, <1>6

\* What a conditional write does to the ledger.
LEMMA LedgerFacts ==
    ASSUME NEW f \in Shared, NEW j \in Work \cup {Other}, EntriesFit, DOMAIN entry = Shared,
           \/ entry' = [entry EXCEPT ![f] = Reserve(@, j)]
           \/ \E outcome \in Outcomes : entry' = [entry EXCEPT ![f] = RecordTerminal(@, j, outcome)]
           \/ entry' = [entry EXCEPT ![f] = Release(@, j)]
    PROVE  EntriesFit' /\ DOMAIN entry' = Shared
<1>. DEFINE e == entry[f]
<1>1. /\ DOMAIN entry' = Shared /\ \A g \in Shared \ {f} : entry'[g] = entry[g]
      /\ \/ entry'[f] = Reserve(e, j)
         \/ \E outcome \in Outcomes : entry'[f] = RecordTerminal(e, j, outcome)
         \/ entry'[f] = Release(e, j)
  OBVIOUS
<1>2. e = Absent \/ e.job \in Work \cup {Other}
  BY DEF EntriesFit
<1>. HIDE DEF e
<1>3. ASSUME entry'[f] = Reserve(e, j)
      PROVE  entry'[f] = Absent \/ entry'[f].job \in Work \cup {Other}
  BY <1>2, <1>3 DEF Reserve
<1>4. ASSUME NEW outcome \in Outcomes, entry'[f] = RecordTerminal(e, j, outcome)
      PROVE  entry'[f] = Absent \/ entry'[f].job \in Work \cup {Other}
  BY <1>2, <1>4 DEF RecordTerminal
<1>5. ASSUME entry'[f] = Release(e, j)
      PROVE  entry'[f] = Absent \/ entry'[f].job \in Work \cup {Other}
  BY <1>2, <1>5 DEF Release
<1>6. entry'[f] = Absent \/ entry'[f].job \in Work \cup {Other}
  BY <1>1, <1>3, <1>4, <1>5
<1>. QED
  BY <1>1, <1>6 DEF EntriesFit, Absent

\* A request that is under way, and the file it is about.
LEMMA AtWork ==
    ASSUME NEW r \in Work, RequestInv(r), UnderWay(r)
    PROVE  /\ Begun(r) /\ RequestTypes(r) /\ RouteFits(r) /\ File(r) \in Files
           /\ Head(req[r].todo) \in Left(r)
           /\ KindOf(r) = Kind[File(r)] /\ (KindOf(r) = "shared" <=> File(r) \in Shared)
<1>1. Begun(r) /\ RequestTypes(r) /\ RouteFits(r)
  BY DEF RequestInv, BegunFits
<1>2. File(r) \in Files
  BY <1>1 DEF RequestTypes, Begun, File
<1>3. Head(req[r].todo) \in Left(r)
  <2>1. req[r].todo \in Seq(Steps) /\ req[r].todo # <<>>
    BY <1>1 DEF RequestTypes, UnderWay
  <2>. QED
    BY <2>1, TailElements DEF Left
<1>. QED
  BY <1>1, <1>2, <1>3 DEF KindOf, Shared

\* A call that goes on, whatever else it does.
LEMMA CallGoesOn ==
    ASSUME NEW r \in Work, NEW x, SubmissionsInv, Doing(r, x), Goes(r),
           Only(r), PopEffects(r, x), EntriesFit', CountsFit'
    PROVE  SubmissionsInv'
<1>1. Popped(r, x)
  BY GoesFacts DEF SubmissionsInv, RequestInv, Doing
<1>. QED
  BY <1>1, PopKeeps, OneRequest DEF SubmissionsInv


\* What is not written stays as it was.
LEMMA Unwritten ==
    ASSUME SubmissionsInv
    PROVE  /\ UNCHANGED entry => EntriesFit' /\ DOMAIN entry' = Shared
           /\ UNCHANGED staged => StagedFit'
           /\ UNCHANGED counts => CountsFit' /\ \A o \in Work : ItemsOf(o)' = ItemsOf(o)
           /\ UNCHANGED debits => \A o \in Work : Charges(o)' = Charges(o)
  BY DEF SubmissionsInv, Tables, EntriesFit, StagedFit, CountsFit, ItemsOf, Charges

\* A call of which nothing is seen but the object it copies or removes.
LEMMA Passes ==
    ASSUME NEW r \in Work, NEW x, SubmissionsInv, Doing(r, x), Goes(r),
           UNCHANGED <<row, job, owing, consumptionVars>>,
           EntriesFit', DOMAIN entry' = Shared, StagedFit',
           stored \subseteq stored', odd \subseteq odd',
           x = "copy" => Home(r) \in stored',
           x = "count" => File(r) \in odd', x = "held" => ~Holds(r) \/ File(r) \in odd',
           x \notin {"row", "submit", "job", "send", "debit"}
    PROVE  SubmissionsInv'
<1>1. /\ Tables /\ RequestInv(r) /\ EntriesFit /\ CountsFit /\ UnderWay(r)
  BY DEF SubmissionsInv, Doing
<1>2. RequestTypes(r)
  BY <1>1 DEF RequestInv
<1>3. /\ DOMAIN req' = Work
      /\ req'[r].free = req[r].free /\ req'[r].told = req[r].told
      /\ req'[r].tells = req[r].tells
      /\ \A o \in Work \ {r} : req'[o] = req[o]
      /\ RequestTypes(r)' /\ File(r)' = File(r)
  BY <1>1, <1>2, GoesFacts DEF RequestTypes
<1>4. EntriesFit' /\ CountsFit'
  BY <1>1 DEF CountsFit, consumptionVars
<1>5. \A o \in Work : ItemsOf(o)' = ItemsOf(o) /\ Charges(o)' = Charges(o)
  BY DEF ItemsOf, Charges, consumptionVars
<1>6. Only(r)
  BY <1>1, <1>3, <1>5 DEF Only, Tables, StagedFit
<1>7. Holds(r)' = Holds(r)
  BY <1>3, <1>6, OwnRows
<1>8. x = "held" => File(r) \notin Metered \ odd' \/ (req'[r].free <=> Holds(r))
  <2>1. ASSUME x = "held", File(r) \in Metered, File(r) \notin odd'
        PROVE  ~req'[r].free /\ ~Holds(r)
    <3>1. OwingFits(r) /\ "held" \in Left(r)
      BY <1>1, <2>1, AtWork DEF RequestInv, PaidFits, Doing
    <3>. QED
      BY <1>3, <2>1, <3>1 DEF OwingFits
  <2>. QED
    BY <2>1, Zenon
<1>9. PopEffects(r, x)
  BY <1>3, <1>5, <1>7, <1>8 DEF PopEffects
<1>. QED
  BY <1>4, <1>6, <1>9, CallGoesOn

-----------------------------------------------------------------------------
(* The steps                                                               *)

\* Whether a save owes is fixed as its row is written, and it upsets whoever has yet to ask.
LEMMA SaveUploadStep ==
    ASSUME NEW r \in Work, SubmissionsInv, SaveUpload(r) PROVE SubmissionsInv'
<1>1. /\ Tables /\ RequestInv(r) /\ EntriesFit /\ CountsFit /\ UnderWay(r) /\ Goes(r) /\ Doing(r, "row")
      /\ UNCHANGED <<staged, job, stored, entry, consumptionVars>>
      /\ row' = [row EXCEPT ![r] = "held"] /\ Upsets(r)
      /\ owing' = IF Holds(r) THEN owing ELSE owing \cup {r}
  BY DEF SubmissionsInv, Doing, SaveUpload
<1>2. RequestTypes(r) /\ odd \subseteq odd'
  BY <1>1 DEF RequestInv, Upsets
<1>3. row'[r] = "held" /\ DOMAIN row' = Work /\ \A o \in Work \ {r} : row'[o] = row[o]
  BY <1>1 DEF Tables
<1>4. /\ DOMAIN req' = Work
      /\ req'[r].free = req[r].free /\ req'[r].told = req[r].told
      /\ req'[r].tells = req[r].tells
      /\ \A o \in Work \ {r} : req'[o] = req[o]
      /\ RequestTypes(r)' /\ File(r)' = File(r)
  BY <1>1, <1>2, <1>3, GoesFacts DEF RequestTypes, RowStates
<1>5. EntriesFit' /\ CountsFit'
  BY <1>1 DEF EntriesFit, CountsFit, consumptionVars
<1>6. \A o \in Work : ItemsOf(o)' = ItemsOf(o) /\ Charges(o)' = Charges(o)
  BY <1>1 DEF ItemsOf, Charges, consumptionVars
<1>7. \A o \in Work \ {r} : (o \in owing' <=> o \in owing)
  BY <1>1
<1>8. Only(r)
  BY <1>1, <1>2, <1>3, <1>4, <1>6, <1>7 DEF Only, Tables, StagedFit
<1>9. Holds(r)' = Holds(r)
  BY <1>4, <1>8, OwnRows
<1>10. File(r) \notin Metered \ odd' \/ (r \in owing' <=> ~Holds(r))
  <2>. SUFFICES ASSUME File(r) \in Metered \ odd' PROVE r \notin owing
    BY <1>1
  <2>1. OwingFits(r) /\ "row" \in Left(r)
    BY <1>1, <1>2, AtWork DEF RequestInv, PaidFits, Doing
  <2>. QED
    BY <2>1 DEF OwingFits
<1>11. PopEffects(r, "row")
  BY <1>1, <1>2, <1>3, <1>4, <1>6, <1>9, <1>10 DEF PopEffects
<1>. QED
  BY <1>1, <1>5, <1>8, <1>11, CallGoesOn

\* A job is created, or sent.
LEMMA JobMoves ==
    ASSUME NEW r \in Work, NEW x, NEW state, SubmissionsInv,
           (x = "job" /\ state = "pending") \/ (x = "send" /\ state = "queued"),
           Doing(r, x), Goes(r), job' = [job EXCEPT ![r] = state],
           UNCHANGED <<staged, row, stored, entry, owing, odd, consumptionVars>>
    PROVE  SubmissionsInv'
<1>1. /\ Tables /\ RequestInv(r) /\ EntriesFit /\ CountsFit /\ UnderWay(r)
  BY DEF SubmissionsInv, Doing
<1>2. RequestTypes(r)
  BY <1>1 DEF RequestInv
<1>3. job'[r] = state /\ DOMAIN job' = Work /\ \A o \in Work \ {r} : job'[o] = job[o]
  BY <1>1 DEF Tables
<1>4. /\ DOMAIN req' = Work
      /\ req'[r].free = req[r].free /\ req'[r].told = req[r].told
      /\ req'[r].tells = req[r].tells
      /\ \A o \in Work \ {r} : req'[o] = req[o]
      /\ RequestTypes(r)' /\ File(r)' = File(r)
  BY <1>1, <1>2, <1>3, GoesFacts DEF RequestTypes, JobStates
<1>5. EntriesFit' /\ CountsFit'
  BY <1>1 DEF EntriesFit, CountsFit, consumptionVars
<1>6. \A o \in Work : ItemsOf(o)' = ItemsOf(o) /\ Charges(o)' = Charges(o)
  BY <1>1 DEF ItemsOf, Charges, consumptionVars
<1>8. Only(r)
  BY <1>1, <1>3, <1>4, <1>6 DEF Only, Tables, StagedFit
<1>9. Holds(r)' = Holds(r)
  BY <1>4, <1>8, OwnRows
<1>11. PopEffects(r, x)
  BY <1>1, <1>3, <1>4, <1>6, <1>9 DEF PopEffects
<1>. QED
  BY <1>1, <1>5, <1>8, <1>11, CallGoesOn

\* The two calls that write a job.
LEMMA JobSteps ==
    ASSUME NEW r \in Work, SubmissionsInv, CreateUploadJob(r) \/ SendMessage(r)
    PROVE  SubmissionsInv'
<1>1. ASSUME CreateUploadJob(r) PROVE SubmissionsInv'
  BY <1>1, JobMoves DEF CreateUploadJob
<1>2. ASSUME SendMessage(r) PROVE SubmissionsInv'
  BY <1>2, JobMoves DEF SendMessage
<1>. QED
  BY <1>1, <1>2

\* A link's row is of no metered file.
LEMMA SubmitUrlStep ==
    ASSUME NEW r \in Work, SubmissionsInv, SubmitUrl(r) PROVE SubmissionsInv'
<1>1. /\ Tables /\ RequestInv(r) /\ EntriesFit /\ CountsFit /\ UnderWay(r) /\ Goes(r)
      /\ Doing(r, "submit")
      /\ UNCHANGED <<staged, job, stored, entry, owing, odd, consumptionVars>>
      /\ row' = [row EXCEPT ![r] = "held"]
  BY DEF SubmissionsInv, Doing, SubmitUrl
<1>2. RequestTypes(r)
  BY <1>1 DEF RequestInv
<1>3. row'[r] = "held" /\ DOMAIN row' = Work /\ \A o \in Work \ {r} : row'[o] = row[o]
  BY <1>1 DEF Tables
<1>4. /\ DOMAIN req' = Work
      /\ req'[r].free = req[r].free /\ req'[r].told = req[r].told
      /\ req'[r].tells = req[r].tells
      /\ \A o \in Work \ {r} : req'[o] = req[o]
      /\ RequestTypes(r)' /\ File(r)' = File(r)
  BY <1>1, <1>2, <1>3, GoesFacts DEF RequestTypes, RowStates
<1>5. EntriesFit' /\ CountsFit'
  BY <1>1 DEF EntriesFit, CountsFit, consumptionVars
<1>6. \A o \in Work : ItemsOf(o)' = ItemsOf(o) /\ Charges(o)' = Charges(o)
  BY <1>1 DEF ItemsOf, Charges, consumptionVars
<1>7. File(r) \notin Metered
  <2>1. "submit" \in Left(r) /\ Begun(r) /\ RouteFits(r) /\ BegunFits(r)
    BY <1>1, AtWork DEF Doing, RequestInv
  <2>2. KindOf(r) = "link"
    BY <1>2, <2>1, ChainOf
  <2>. QED
    BY <2>2 DEF Metered, KindOf
<1>8. Only(r)
  BY <1>1, <1>3, <1>4, <1>6, <1>7 DEF Only, Tables, StagedFit
<1>9. Holds(r)' = Holds(r)
  BY <1>4, <1>8, OwnRows
<1>11. PopEffects(r, "submit")
  BY <1>1, <1>3, <1>4, <1>6, <1>9 DEF PopEffects
<1>. QED
  BY <1>1, <1>5, <1>8, <1>11, CallGoesOn

\* The submission is counted for the first time.
LEMMA CountStep ==
    ASSUME NEW r \in Work, SubmissionsInv, CountSubmission(r) PROVE SubmissionsInv'
<1>1. /\ Tables /\ RequestInv(r) /\ EntriesFit /\ CountsFit /\ UnderWay(r) /\ Goes(r)
      /\ Doing(r, "count")
      /\ UNCHANGED <<staged, row, job, stored, entry, owing, odd, debits>>
      /\ counts' = AddCount(r, "item", 0, 1)
  BY DEF SubmissionsInv, Doing, CountSubmission, CountItem, ItemToken
<1>2. RequestTypes(r) /\ EffectsFit(r) /\ "count" \in Left(r)
  BY <1>1, AtWork DEF RequestInv, Doing
<1>3. ItemsOf(r) = {}
  BY <1>2 DEF EffectsFit
<1>4. /\ DOMAIN req' = Work
      /\ req'[r].free = req[r].free /\ req'[r].told = req[r].told
      /\ req'[r].tells = req[r].tells
      /\ \A o \in Work \ {r} : req'[o] = req[o]
      /\ RequestTypes(r)' /\ File(r)' = File(r)
  BY <1>1, <1>2, GoesFacts DEF RequestTypes
<1>5. /\ CountsFit' /\ \A o \in Work \ {r} : ItemsOf(o)' = ItemsOf(o)
      /\ \E c \in ItemsOf(r)' : ItemsOf(r)' = {c}
  BY <1>1, <1>3, CountFacts
<1>6. EntriesFit' /\ \A o \in Work : Charges(o)' = Charges(o)
  BY <1>1 DEF EntriesFit, Charges
<1>8. Only(r)
  BY <1>1, <1>4, <1>5, <1>6 DEF Only, Tables, StagedFit
<1>9. Holds(r)' = Holds(r)
  BY <1>4, <1>8, OwnRows
<1>11. PopEffects(r, "count")
  BY <1>1, <1>4, <1>5, <1>6, <1>9 DEF PopEffects
<1>. QED
  BY <1>1, <1>5, <1>6, <1>8, <1>11, CallGoesOn

\* The object is copied to its home, and the staged one removed.
LEMMA CopySteps ==
    ASSUME NEW r \in Work, SubmissionsInv, CopyStaged(r) \/ DiscardStaged(r)
    PROVE  SubmissionsInv'
<1>1. ASSUME CopyStaged(r) PROVE SubmissionsInv'
  <2>1. /\ Doing(r, "copy") /\ Goes(r) /\ stored' = stored \cup {Home(r)}
        /\ UNCHANGED <<staged, row, job, entry, owing, odd, consumptionVars>>
    BY <1>1 DEF CopyStaged
  <2>2. EntriesFit' /\ DOMAIN entry' = Shared /\ StagedFit'
    BY <2>1, Unwritten
  <2>. QED
    BY <2>1, <2>2, Passes
<1>2. ASSUME DiscardStaged(r) PROVE SubmissionsInv'
  <2>. DEFINE k == req[r].key
  <2>1. /\ Doing(r, "discard") /\ Goes(r) /\ staged' = [staged EXCEPT ![k].there = FALSE]
        /\ UNCHANGED <<row, job, stored, entry, owing, odd, consumptionVars>>
    BY <1>2 DEF DiscardStaged
  <2>. HIDE DEF k
  <2>2. EntriesFit' /\ DOMAIN entry' = Shared
    BY <2>1, Unwritten
  <2>3. StagedFit
    BY DEF SubmissionsInv, Tables
  <2>4. \A l \in Keys : /\ staged'[l] \in [file : Uploads \cup {NoFile}, there : BOOLEAN]
                        /\ staged'[l].there => staged'[l].file # NoFile
    BY <2>1, <2>3 DEF StagedFit
  <2>5. StagedFit'
    BY <2>1, <2>3, <2>4 DEF StagedFit
  <2>. QED
    BY <2>1, <2>2, <2>5, Passes
<1>. QED
  BY <1>1, <1>2

\* Calls that are lost, or that write nothing.
LEMMA SilentSteps ==
    ASSUME NEW r \in Work,  SubmissionsInv,
           CheckFailsOpen(r) \/ DiscardFails(r) \/ HeldUnread(r) \/ CountLost(r)
    PROVE  SubmissionsInv'
<1>1. Goes(r) /\ UNCHANGED <<staged, row, job, stored, entry, owing, consumptionVars>>
  BY DEF CheckFailsOpen, DiscardFails, HeldUnread, CountLost
<1>2. EntriesFit' /\ DOMAIN entry' = Shared /\ StagedFit' /\ stored \subseteq stored'
  BY <1>1, Unwritten
<1>3. ASSUME CheckFailsOpen(r) PROVE SubmissionsInv'
  <2>1. Doing(r, "check") /\ odd' = odd
    BY <1>3 DEF CheckFailsOpen
  <2>. QED
    BY <1>1, <1>2, <2>1, Passes
<1>4. ASSUME DiscardFails(r) PROVE SubmissionsInv'
  <2>1. Doing(r, "discard") /\ odd' = odd
    BY <1>4 DEF DiscardFails
  <2>. QED
    BY <1>1, <1>2, <2>1, Passes
<1>5. ASSUME HeldUnread(r) PROVE SubmissionsInv'
  <2>1. Doing(r, "held") /\ odd' = IF Holds(r) THEN odd \cup {File(r)} ELSE odd
    BY <1>5 DEF HeldUnread
  <2>2. odd \subseteq odd' /\ (~Holds(r) \/ File(r) \in odd')
    BY <2>1
  <2>. QED
    BY <1>1, <1>2, <2>1, <2>2, Passes
<1>6. ASSUME CountLost(r) PROVE SubmissionsInv'
  <2>1. Doing(r, "count") /\ odd' = odd \cup {File(r)}
    BY <1>6 DEF CountLost
  <2>2. odd \subseteq odd' /\ File(r) \in odd'
    BY <2>1
  <2>. QED
    BY <1>1, <1>2, <2>1, <2>2, Passes
<1>. QED
  BY <1>3, <1>4, <1>5, <1>6

\* A request that ends.
LEMMA CallEnds ==
    ASSUME NEW r \in Work, NEW how \in {"refused", "broken"}, SubmissionsInv, UnderWay(r),
           Ends(r, how), UNCHANGED <<staged, row, stored, owing, consumptionVars>>,
           odd \subseteq odd', EntriesFit', DOMAIN entry' = Shared,
           DOMAIN job' = Work, \A o \in Work \ {r} : job'[o] = job[o],
           job'[r] \in {job[r], "failed"},
           row[r] = "held" => File(r) \in odd' \/ "check" \in Left(r)
    PROVE  SubmissionsInv'
<1>1. /\ Tables /\ RequestInv(r) /\ RequestTypes(r)
  BY DEF SubmissionsInv, RequestInv
<1>2. /\ req'[r].todo = <<>> /\ req'[r].end # "none" /\ req'[r].file = req[r].file
      /\ req'[r].known = req[r].known /\ DOMAIN req' = Work
      /\ req'[r].free = req[r].free /\ req'[r].told = req[r].told
      /\ \A o \in Work \ {r} : req'[o] = req[o]
      /\ RequestTypes(r)' /\ File(r)' = File(r)
  BY <1>1, EndsFacts DEF RequestTypes, JobStates
<1>3. /\ CountsFit' /\ StagedFit' /\ \A o \in Work : ItemsOf(o)' = ItemsOf(o) /\ Charges(o)' = Charges(o)
  BY Unwritten DEF consumptionVars
<1>4. Only(r)
  BY <1>1, <1>2, <1>3 DEF Only, Tables
<1>5. EndEffects(r)
  BY <1>2, <1>3 DEF EndEffects
<1>. QED
  BY <1>1, <1>3, <1>4, <1>5, EndKeeps, OneRequest

\* The check before anything is written.
LEMMA QuotaStep ==
    ASSUME NEW r \in Work, NEW trial, SubmissionsInv, CheckQuota(r, trial)
    PROVE  SubmissionsInv'
<1>1. /\ Doing(r, "check") /\ UNCHANGED <<staged, row, job, stored, entry, owing, odd, consumptionVars>>
      /\ Goes(r) \/ Ends(r, "refused")
  BY DEF CheckQuota
<1>2. EntriesFit' /\ DOMAIN entry' = Shared /\ StagedFit'
  BY <1>1, Unwritten
<1>3. ASSUME Goes(r) PROVE SubmissionsInv'
  BY <1>1, <1>2, <1>3, Passes
<1>4. ASSUME Ends(r, "refused") PROVE SubmissionsInv'
  <2>1. UnderWay(r) /\ "check" \in Left(r) /\ DOMAIN job = Work
    BY <1>1, AtWork DEF Doing, SubmissionsInv, Tables
  <2>. QED
    BY <1>1, <1>2, <1>4, <2>1, CallEnds
<1>. QED
  BY <1>1, <1>3, <1>4

\* A refusal of the gate comes after the row, and makes the file odd.
LEMMA GateStep ==
    ASSUME NEW r \in Work, NEW trial, SubmissionsInv, PassGate(r, trial)
    PROVE  SubmissionsInv'
<1>. DEFINE f == File(r)
<1>1. /\ Doing(r, "gate") /\ UNCHANGED <<staged, row, stored, owing, consumptionVars>>
      /\ \/ Goes(r) /\ UNCHANGED <<job, entry, odd>>
         \/ /\ Ends(r, "refused")
            /\ job' = [job EXCEPT ![r] = "failed"]
            /\ entry' = [entry EXCEPT ![f] = RecordTerminal(@, r, "failed")]
            /\ odd' = odd \cup {f}
  BY DEF PassGate
<1>2. RequestInv(r) /\ Tables /\ EntriesFit /\ UnderWay(r) /\ RequestTypes(r) /\ BegunFits(r)
  BY <1>1 DEF SubmissionsInv, Doing, RequestInv
<1>3. ASSUME Goes(r), UNCHANGED <<job, entry, odd>> PROVE SubmissionsInv'
  <2>1. EntriesFit' /\ DOMAIN entry' = Shared /\ StagedFit'
    BY <1>1, <1>3, Unwritten
  <2>. QED
    BY <1>1, <1>3, <2>1, Passes
<1>4. ASSUME Ends(r, "refused"), job' = [job EXCEPT ![r] = "failed"],
             entry' = [entry EXCEPT ![f] = RecordTerminal(@, r, "failed")], odd' = odd \cup {f}
      PROVE  SubmissionsInv'
  <2>1. /\ Begun(r) /\ "gate" \in Left(r) /\ RouteFits(r)
        /\ (KindOf(r) = "shared" <=> f \in Shared)
    BY <1>1, <1>2, AtWork DEF Doing
  <2>2. f \in Shared
    BY <1>2, <2>1, ChainOf
  <2>. HIDE DEF f
  <2>3. EntriesFit' /\ DOMAIN entry' = Shared
    BY <1>2, <1>4, <2>2, LedgerFacts DEF Tables, Outcomes
  <2>4. DOMAIN job' = Work /\ job'[r] = "failed" /\ \A o \in Work \ {r} : job'[o] = job[o]
    BY <1>2, <1>4 DEF Tables
  <2>5. odd \subseteq odd' /\ File(r) \in odd'
    BY <1>4 DEF f
  <2>. QED
    BY <1>1, <1>2, <1>4, <2>3, <2>4, <2>5, CallEnds
<1>. QED
  BY <1>1, <1>3, <1>4

\* What raises or is killed.
LEMMA BreakingSteps ==
    ASSUME NEW r \in Work, SubmissionsInv,
           CallRaises(r) \/ CopyFindsNothing(r) \/ RequestKilled(r)
    PROVE  SubmissionsInv'
<1>. DEFINE f == File(r)
<1>1. /\ UnderWay(r) /\ Ends(r, "broken") /\ LeavesRow(r)
      /\ UNCHANGED <<staged, row, stored, owing, consumptionVars>>
      /\ Undo(r) \/ UNCHANGED <<job, entry>>
  BY DEF CallRaises, CopyFindsNothing, RequestKilled, Doing
<1>2. RequestInv(r) /\ Tables /\ EntriesFit
  BY <1>1 DEF SubmissionsInv
<1>3. odd \subseteq odd' /\ (row[r] = "held" => File(r) \in odd')
  BY <1>1 DEF LeavesRow
<1>4. KindOf(r) = "shared" <=> f \in Shared
  BY <1>1, <1>2, AtWork
<1>5. EntriesFit /\ DOMAIN entry = Shared /\ DOMAIN job = Work
  BY <1>2 DEF Tables
<1>6. \/ UNCHANGED <<job, entry>>
      \/ /\ f \in Shared /\ job' = [job EXCEPT ![r] = "failed"]
         /\ entry' = [entry EXCEPT ![f] = RecordTerminal(@, r, "failed")]
      \/ f \in Shared /\ entry' = [entry EXCEPT ![f] = Release(@, r)] /\ UNCHANGED job
  BY <1>1, <1>4 DEF Undo
<1>. HIDE DEF f
<1>7. EntriesFit' /\ DOMAIN entry' = Shared
  <2>1. ASSUME UNCHANGED entry PROVE EntriesFit' /\ DOMAIN entry' = Shared
    BY <2>1, Unwritten
  <2>2. ASSUME f \in Shared, entry' = [entry EXCEPT ![f] = RecordTerminal(@, r, "failed")]
        PROVE  EntriesFit' /\ DOMAIN entry' = Shared
    BY <1>5, <2>2, LedgerFacts DEF Outcomes
  <2>3. ASSUME f \in Shared, entry' = [entry EXCEPT ![f] = Release(@, r)]
        PROVE  EntriesFit' /\ DOMAIN entry' = Shared
    BY <1>5, <2>3, LedgerFacts
  <2>. QED
    BY <1>6, <2>1, <2>2, <2>3
<1>8. DOMAIN job' = Work /\ job'[r] \in {job[r], "failed"} /\ \A o \in Work \ {r} : job'[o] = job[o]
  BY <1>5, <1>6
<1>. QED
  BY <1>1, <1>3, <1>7, <1>8, CallEnds

\* The ledger knows the content.
LEMMA ContentKnown ==
    ASSUME NEW r \in Work, SubmissionsInv, UnderWay(r), Reuse(r),
           Head(req[r].todo) \in {"ledger", "reserve"},
           File(r) \in Shared, entry[File(r)] # Absent,
           UNCHANGED <<staged, row, job, stored, owing, odd, consumptionVars>>,
           EntriesFit', DOMAIN entry' = Shared
    PROVE  SubmissionsInv'
<1>. DEFINE j == entry[File(r)].job
            k == req[r]
<1>1. /\ Tables /\ RequestInv(r) /\ RequestTypes(r) /\ EntriesFit
  BY DEF SubmissionsInv, RequestInv
<1>2. j \in Work \cup {Other} /\ j # NoJob
  BY <1>1, IntakeAssumption DEF EntriesFit
<1>3. /\ req' = [req EXCEPT ![r] = [k EXCEPT !.todo = DuplicateRoute, !.known = j]]
      /\ k \in [file : Files \cup {NoFile}, key : Keys \cup {NoKey}, todo : Seq(Steps),
                end : {"none", "refused", "broken"}, told : Nat, free : BOOLEAN,
                known : Work \cup {Other, NoJob}, tells : BOOLEAN]
      /\ DOMAIN req = Work
  BY <1>1 DEF Reuse, RequestTypes, Tables
<1>. HIDE DEF j, k
<1>4. /\ req'[r] \in [file : Files \cup {NoFile}, key : Keys \cup {NoKey}, todo : Seq(Steps),
                end : {"none", "refused", "broken"}, told : Nat, free : BOOLEAN,
                known : Work \cup {Other, NoJob}, tells : BOOLEAN]
      /\ req'[r].todo = DuplicateRoute /\ req'[r].known = j /\ req'[r].file = k.file
      /\ req'[r].end = k.end /\ req'[r].free = k.free /\ req'[r].told = k.told
      /\ DOMAIN req' = Work /\ \A o \in Work \ {r} : req'[o] = req[o]
  BY <1>2, <1>3, ShortRoute
<1>5. RequestTypes(r)' /\ File(r)' = File(r)
  BY <1>1, <1>4 DEF RequestTypes, File, k
<1>6. /\ CountsFit' /\ StagedFit' /\ \A o \in Work : ItemsOf(o)' = ItemsOf(o) /\ Charges(o)' = Charges(o)
  BY Unwritten DEF consumptionVars
<1>7. Only(r)
  BY <1>1, <1>4, <1>5, <1>6 DEF Only, Tables
<1>8. Holds(r)' = Holds(r)
  BY <1>5, <1>7, OwnRows
<1>9. ReuseEffects(r)
  BY <1>2, <1>4, <1>5, <1>6, <1>8 DEF ReuseEffects, k
<1>. QED
  BY <1>1, <1>6, <1>7, <1>9, ReuseKeeps, OneRequest

\* The ledger is read, or asked to reserve the content.
LEMMA LedgerSteps ==
    ASSUME NEW r \in Work, SubmissionsInv, ReadLedger(r) \/ ReserveShared(r)
    PROVE  SubmissionsInv'
<1>. DEFINE f == File(r)
<1>1. UnderWay(r) /\ RequestInv(r) /\ Tables /\ EntriesFit /\ Head(req[r].todo) \in {"ledger", "reserve"}
  BY DEF ReadLedger, ReserveShared, Doing, SubmissionsInv
<1>2. f \in Shared
  <2>1. Begun(r) /\ RequestTypes(r) /\ RouteFits(r) /\ Head(req[r].todo) \in Left(r)
        /\ (KindOf(r) = "shared" <=> f \in Shared)
    BY <1>1, AtWork
  <2>2. "ledger" \in Left(r) \/ "reserve" \in Left(r)
    BY <1>1, <2>1
  <2>. QED
    BY <1>1, <2>1, <2>2, ChainOf DEF RequestInv
<1>3. ASSUME ReadLedger(r) PROVE SubmissionsInv'
  <2>1. /\ Doing(r, "ledger") /\ UNCHANGED <<staged, row, job, stored, entry, owing, odd, consumptionVars>>
        /\ IF entry[f] = Absent THEN Goes(r) ELSE Reuse(r)
    BY <1>3 DEF ReadLedger
  <2>2. EntriesFit' /\ DOMAIN entry' = Shared /\ StagedFit'
    BY <2>1, Unwritten
  <2>3. ASSUME Goes(r) PROVE SubmissionsInv'
    BY <2>1, <2>2, <2>3, Passes
  <2>4. ASSUME Reuse(r), entry[f] # Absent PROVE SubmissionsInv'
    BY <1>1, <1>2, <2>1, <2>2, <2>4, ContentKnown
  <2>. QED
    BY <2>1, <2>3, <2>4
<1>4. ASSUME ReserveShared(r) PROVE SubmissionsInv'
  <2>1. /\ Doing(r, "reserve") /\ UNCHANGED <<staged, row, job, stored, owing, odd, consumptionVars>>
        /\ entry' = [entry EXCEPT ![f] = Reserve(@, r)]
        /\ IF CanReserve(entry[f]) THEN Goes(r) ELSE Reuse(r)
    BY <1>4 DEF ReserveShared
  <2>2. EntriesFit' /\ DOMAIN entry' = Shared
    BY <1>1, <1>2, <2>1, LedgerFacts DEF Tables
  <2>3. StagedFit'
    BY <2>1, Unwritten
  <2>4. ASSUME Goes(r) PROVE SubmissionsInv'
    BY <2>1, <2>2, <2>3, <2>4, Passes
  <2>5. ASSUME Reuse(r), ~CanReserve(entry[f]) PROVE SubmissionsInv'
    <3>1. entry[f] # Absent
      BY <2>5 DEF CanReserve, Absent
    <3>. QED
      BY <1>1, <1>2, <2>1, <2>2, <2>5, <3>1, ContentKnown
  <2>. QED
    BY <2>1, <2>4, <2>5
<1>. QED
  BY <1>3, <1>4

\* The request with its answer.
LEMMA AnsweredRequest ==
    ASSUME NEW k, NEW t \in Seq(Steps), NEW free \in BOOLEAN, NEW told \in Nat,
           NEW tells \in BOOLEAN,
           k \in [file : Files \cup {NoFile}, key : Keys \cup {NoKey}, todo : Seq(Steps),
                 end : {"none", "refused", "broken"}, told : Nat, free : BOOLEAN,
                 known : Work \cup {Other, NoJob}, tells : BOOLEAN]
    PROVE  LET q == [k EXCEPT !.todo = t, !.free = free, !.told = told, !.tells = tells] IN
           /\ q \in [file : Files \cup {NoFile}, key : Keys \cup {NoKey}, todo : Seq(Steps),
                     end : {"none", "refused", "broken"}, told : Nat, free : BOOLEAN,
                     known : Work \cup {Other, NoJob}, tells : BOOLEAN]
           /\ q.todo = t /\ q.known = k.known /\ q.file = k.file
           /\ q.end = k.end /\ q.free = free /\ q.told = told /\ q.tells = tells
  OBVIOUS

\* A call that goes on and keeps an answer in the request.
LEMMA CallAnswers ==
    ASSUME NEW r \in Work, NEW x \in {"content", "held", "debit"},
           NEW free \in BOOLEAN, NEW told \in Nat, NEW tells \in BOOLEAN,
           SubmissionsInv, Doing(r, x),
           req' = [req EXCEPT ![r] = [req[r] EXCEPT !.todo = Tail(@), !.free = free,
                                                    !.told = told, !.tells = tells]],
           UNCHANGED <<staged, row, job, stored, entry, owing>>, odd \subseteq odd',
           CountsFit', \A o \in Work : ItemsOf(o)' = ItemsOf(o),
           \A o \in Work \ {r} : Charges(o)' = Charges(o),
           x # "content" => tells = req[r].tells,
           x # "held" => free = req[r].free,
           x # "debit" => Charges(r)' = Charges(r) /\ told = req[r].told,
           x = "held" => (free <=> Holds(r)),
           x = "debit" =>
              \/ File(r) \notin Metered \ odd'
              \/ /\ told = DebitDue(r) /\ One(Of(r, "gate")', DebitDue(r))
                 /\ Of(r, "settle")' = Of(r, "settle")
                 /\ \A d \in Charges(r)' : d.token \in {"gate", "settle"}
    PROVE  SubmissionsInv'
<1>. DEFINE k == req[r]
<1>1. /\ Tables /\ RequestInv(r) /\ RequestTypes(r) /\ UnderWay(r)
  BY DEF SubmissionsInv, RequestInv, Doing
<1>2. /\ k \in [file : Files \cup {NoFile}, key : Keys \cup {NoKey}, todo : Seq(Steps),
                end : {"none", "refused", "broken"}, told : Nat, free : BOOLEAN,
                known : Work \cup {Other, NoJob}, tells : BOOLEAN]
      /\ DOMAIN req = Work /\ k.todo # <<>>
      /\ req' = [req EXCEPT ![r] = [k EXCEPT !.todo = Tail(k.todo), !.free = free, !.told = told,
                                             !.tells = tells]]
  BY <1>1 DEF RequestTypes, Tables, UnderWay
<1>. HIDE DEF k
<1>3. Tail(k.todo) \in Seq(Steps)
  BY <1>2, TailFacts
<1>4. /\ req'[r] \in [file : Files \cup {NoFile}, key : Keys \cup {NoKey}, todo : Seq(Steps),
                end : {"none", "refused", "broken"}, told : Nat, free : BOOLEAN,
                known : Work \cup {Other, NoJob}, tells : BOOLEAN]
      /\ req'[r].todo = Tail(k.todo) /\ req'[r].known = k.known /\ req'[r].file = k.file
      /\ req'[r].end = k.end /\ req'[r].free = free /\ req'[r].told = told
      /\ req'[r].tells = tells
      /\ DOMAIN req' = Work /\ \A o \in Work \ {r} : req'[o] = req[o]
  <2>. DEFINE t == Tail(k.todo)
              q == [k EXCEPT !.todo = t, !.free = free, !.told = told, !.tells = tells]
  <2>. HIDE DEF t
  <2>1. req' = [req EXCEPT ![r] = q] /\ t \in Seq(Steps)
    BY <1>2, <1>3 DEF t
  <2>2. /\ q \in [file : Files \cup {NoFile}, key : Keys \cup {NoKey}, todo : Seq(Steps),
                 end : {"none", "refused", "broken"}, told : Nat, free : BOOLEAN,
                 known : Work \cup {Other, NoJob}, tells : BOOLEAN]
        /\ q.todo = t /\ q.known = k.known /\ q.file = k.file
        /\ q.end = k.end /\ q.free = free /\ q.told = told /\ q.tells = tells
    BY <1>2, <2>1, AnsweredRequest
  <2>. HIDE DEF q
  <2>3. req'[r] = q /\ DOMAIN req' = Work /\ \A o \in Work \ {r} : req'[o] = req[o]
    BY <1>2, <2>1
  <2>. QED
    BY <2>2, <2>3 DEF t
<1>5. RequestTypes(r)' /\ File(r)' = File(r)
  BY <1>1, <1>4 DEF RequestTypes, File, k
<1>6. EntriesFit' /\ DOMAIN entry' = Shared /\ StagedFit'
  BY Unwritten
<1>7. Only(r)
  BY <1>1, <1>4, <1>5, <1>6 DEF Only, Tables
<1>8. Holds(r)' = Holds(r)
  BY <1>5, <1>7, OwnRows
<1>9. Popped(r, x)
  BY <1>1, <1>4 DEF Popped, Doing, k
<1>10. PopEffects(r, x)
  BY <1>4, <1>5, <1>8 DEF PopEffects, k
<1>. QED
  BY <1>1, <1>6, <1>7, <1>9, <1>10, PopKeeps, OneRequest

\* The question whether the user holds the file already, and its answer.
LEMMA HeldStep ==
    ASSUME NEW r \in Work, SubmissionsInv, AskHeld(r) PROVE SubmissionsInv'
<1>1. /\ Doing(r, "held") /\ UNCHANGED <<staged, row, job, stored, entry, owing, odd, consumptionVars>>
      /\ req' = [req EXCEPT ![r] = [req[r] EXCEPT !.todo = Tail(@), !.free = Holds(r)]]
  BY DEF AskHeld, FoundHeld
<1>2. RequestTypes(r) /\ DOMAIN req = Work
  BY DEF SubmissionsInv, RequestInv, Tables
<1>3. Holds(r) \in BOOLEAN /\ req[r].told \in Nat /\ req[r].tells \in BOOLEAN
  BY <1>2 DEF Holds, RequestTypes
<1>4. req' = [req EXCEPT ![r] = [req[r] EXCEPT !.todo = Tail(@), !.free = Holds(r),
                                               !.told = req[r].told, !.tells = req[r].tells]]
  BY <1>1, <1>2 DEF RequestTypes
<1>5. /\ CountsFit' /\ \A o \in Work : ItemsOf(o)' = ItemsOf(o) /\ Charges(o)' = Charges(o)
  BY <1>1, Unwritten DEF consumptionVars
<1>. QED
  BY <1>1, <1>3, <1>4, <1>5, CallAnswers

\* The question what the content cost, and its answer.
LEMMA ContentStep ==
    ASSUME NEW r \in Work, SubmissionsInv, ReadContent(r) PROVE SubmissionsInv'
<1>1. /\ Doing(r, "content")
      /\ UNCHANGED <<staged, row, job, stored, entry, owing, odd, consumptionVars>>
  BY DEF ReadContent
<1>2. PICK tells \in BOOLEAN :
          req' = [req EXCEPT ![r] = [req[r] EXCEPT !.todo = Tail(@), !.tells = tells]]
  BY DEF ReadContent, Transcribed
<1>3. RequestTypes(r) /\ DOMAIN req = Work
  BY DEF SubmissionsInv, RequestInv, Tables
<1>4. req[r].free \in BOOLEAN /\ req[r].told \in Nat
  BY <1>3 DEF RequestTypes
<1>5. req' = [req EXCEPT ![r] = [req[r] EXCEPT !.todo = Tail(@), !.free = req[r].free,
                                               !.told = req[r].told, !.tells = tells]]
  BY <1>2, <1>3 DEF RequestTypes
<1>6. /\ CountsFit' /\ \A o \in Work : ItemsOf(o)' = ItemsOf(o) /\ Charges(o)' = Charges(o)
  BY <1>1, Unwritten DEF consumptionVars
<1>. QED
  BY <1>1, <1>4, <1>5, <1>6, CallAnswers

\* What is due is a number.
LEMMA DueFacts ==
    ASSUME NEW r \in Work, RequestInv(r), Begun(r)
    PROVE  DebitDue(r) \in Nat /\ BillDue(r) \in Nat
<1>1. File(r) \in Files /\ req[r].told \in Nat /\ req[r].free \in BOOLEAN
      /\ req[r].tells \in BOOLEAN
  BY DEF RequestInv, RequestTypes, Begun, File
<1>2. Billed[File(r)] \in Nat /\ Probed[File(r)] \in Nat
  BY <1>1, IntakeAssumption
<1>3. AtLeastOne(Billed[File(r)]) \in Nat /\ GateMinutes(File(r)) \in Nat
  BY <1>2 DEF AtLeastOne, GateMinutes
<1>4. BillDue(r) \in Nat
  BY <1>1, <1>2 DEF BillDue
<1>5. DebitDue(r) \in Nat
  BY <1>3 DEF DebitDue
<1>. QED
  BY <1>4, <1>5

\* The gate charges what is due, as it is the first write under its token.
LEMMA DebitStep ==
    ASSUME NEW r \in Work, NEW trial, SubmissionsInv, DebitSave(r, trial)
    PROVE  SubmissionsInv'
<1>1. Doing(r, "debit") /\ UNCHANGED <<staged, row, job, stored, entry, owing, odd>>
  BY DEF DebitSave
<1>2. PICK told \in {0, DebitDue(r)} :
          /\ Debit(r, "gate", DebitDue(r), trial, told)
          /\ req' = [req EXCEPT ![r] = [req[r] EXCEPT !.todo = Tail(@), !.told = told]]
  BY DEF DebitSave
<1>3. RequestInv(r) /\ RequestTypes(r) /\ DOMAIN req = Work /\ UnderWay(r) /\ CountsFit
  BY <1>1 DEF SubmissionsInv, RequestInv, Tables, Doing
<1>4. Begun(r) /\ "debit" \in Left(r)
  BY <1>1, <1>3, AtWork DEF Doing
<1>5. DebitDue(r) \in Nat
  BY <1>3, <1>4, DueFacts
<1>6. told \in Nat /\ req[r].free \in BOOLEAN /\ req[r].tells \in BOOLEAN
  BY <1>2, <1>3, <1>5 DEF RequestTypes
<1>7. req' = [req EXCEPT ![r] = [req[r] EXCEPT !.todo = Tail(@), !.free = req[r].free,
                                               !.told = told, !.tells = req[r].tells]]
  BY <1>2, <1>3 DEF RequestTypes
<1>8. /\ debits' = AddDebit(r, "gate", DebitDue(r), trial)
      /\ told = IF debits' = debits THEN 0 ELSE DebitDue(r)
      /\ counts' = AddCount(r, "gate", DebitDue(r), 0)
  BY <1>2 DEF Debit
<1>9. CountsFit' /\ \A o \in Work : ItemsOf(o)' = ItemsOf(o)
  BY <1>3, <1>8, CountFacts
<1>10. /\ \A o \in Work \ {r} : Charges(o)' = Charges(o)
       /\ \A u : u # "gate" => Of(r, u)' = Of(r, u)
       /\ \A d \in Charges(r)' : d \in Charges(r) \/ d.token = "gate"
       /\ Of(r, "gate") = {} => /\ One(Of(r, "gate")', DebitDue(r))
                                /\ debits' = debits <=> DebitDue(r) = 0
  BY <1>8, DebitFacts
<1>11. ASSUME File(r) \in Metered, File(r) \notin odd'
       PROVE  /\ told = DebitDue(r) /\ One(Of(r, "gate")', DebitDue(r))
              /\ Of(r, "settle")' = Of(r, "settle")
              /\ \A d \in Charges(r)' : d.token \in {"gate", "settle"}
  <2>1. ChargesFit(r)
    BY <1>1, <1>3, <1>11 DEF RequestInv, PaidFits
  <2>2. Of(r, "gate") = {} /\ \A d \in Charges(r) : d.token \in {"gate", "settle"}
    BY <1>4, <2>1 DEF ChargesFit
  <2>. QED
    BY <1>8, <1>10, <2>2
<1>. QED
  BY <1>1, <1>6, <1>7, <1>9, <1>10, <1>11, CallAnswers

\* A debit that raises makes the file odd, applied or not.
LEMMA DebitLostStep ==
    ASSUME NEW r \in Work, NEW trial, SubmissionsInv, DebitLost(r, trial)
    PROVE  SubmissionsInv'
<1>1. /\ Doing(r, "debit") /\ UNCHANGED <<staged, row, job, stored, entry, owing, counts>>
      /\ odd' = odd \cup {File(r)} /\ Goes(r)
      /\ debits' \in {debits, AddDebit(r, "gate", DebitDue(r), trial)}
  BY DEF DebitLost, DebitRaises
<1>2. RequestInv(r) /\ RequestTypes(r) /\ DOMAIN req = Work /\ UnderWay(r) /\ CountsFit
  BY <1>1 DEF SubmissionsInv, RequestInv, Tables, Doing
<1>3. req' = [req EXCEPT ![r] = [req[r] EXCEPT !.todo = Tail(@), !.free = req[r].free,
                                               !.told = req[r].told, !.tells = req[r].tells]]
      /\ req[r].told \in Nat /\ req[r].free \in BOOLEAN /\ req[r].tells \in BOOLEAN
  BY <1>1, <1>2 DEF RequestTypes, Goes
<1>4. CountsFit' /\ \A o \in Work : ItemsOf(o)' = ItemsOf(o)
  BY <1>1, Unwritten
<1>5. \A o \in Work \ {r} : Charges(o)' = Charges(o)
  <2>1. ASSUME debits' = debits PROVE \A o \in Work \ {r} : Charges(o)' = Charges(o)
    BY <2>1 DEF Charges
  <2>2. ASSUME debits' = AddDebit(r, "gate", DebitDue(r), trial)
        PROVE  \A o \in Work \ {r} : Charges(o)' = Charges(o)
    BY <2>2, DebitFacts
  <2>. QED
    BY <1>1, <2>1, <2>2
<1>6. odd \subseteq odd' /\ File(r) \in odd'
  BY <1>1
<1>. QED
  BY <1>1, <1>3, <1>4, <1>5, <1>6, CallAnswers

\* A request comes, with a key or without.
LEMMA BeginSteps ==
    ASSUME NEW r \in Work, NEW f, NEW k, SubmissionsInv, Begin(r, f, k), f \in Files,
           k \in Keys \cup {NoKey}
    PROVE  SubmissionsInv'
<1>. DEFINE q == req[r]
<1>1. /\ ~Begun(r) /\ UNCHANGED <<staged, row, job, stored, entry, owing, odd, consumptionVars>>
      /\ Tables /\ RequestInv(r) /\ RequestTypes(r) /\ BegunFits(r)
  BY DEF Begin, SubmissionsInv, RequestInv
<1>2. /\ req' = [req EXCEPT ![r] = [q EXCEPT !.file = f, !.key = k, !.todo = Route(f)]]
      /\ q \in [file : Files \cup {NoFile}, key : Keys \cup {NoKey}, todo : Seq(Steps),
                end : {"none", "refused", "broken"}, told : Nat, free : BOOLEAN,
                known : Work \cup {Other, NoJob}, tells : BOOLEAN]
      /\ DOMAIN req = Work /\ Route(f) \in Seq(Steps)
  BY <1>1, Routes DEF Begin, RequestTypes, Tables
<1>. HIDE DEF q
<1>3. /\ req'[r] \in [file : Files \cup {NoFile}, key : Keys \cup {NoKey}, todo : Seq(Steps),
                end : {"none", "refused", "broken"}, told : Nat, free : BOOLEAN,
                known : Work \cup {Other, NoJob}, tells : BOOLEAN]
      /\ req'[r].file = f /\ req'[r].todo = Route(f) /\ req'[r].end = q.end
      /\ req'[r].known = q.known /\ req'[r].free = q.free
      /\ DOMAIN req' = Work /\ \A o \in Work \ {r} : req'[o] = req[o]
  BY <1>2
<1>4. RequestTypes(r)'
  BY <1>1, <1>3 DEF RequestTypes
<1>5. /\ EntriesFit' /\ DOMAIN entry' = Shared /\ StagedFit' /\ CountsFit'
      /\ \A o \in Work : ItemsOf(o)' = ItemsOf(o) /\ Charges(o)' = Charges(o)
  BY <1>1, Unwritten DEF consumptionVars
<1>6. row[r] # "held" /\ row'[r] # "held"
  BY <1>1 DEF BegunFits
<1>7. Only(r)
  BY <1>1, <1>3, <1>5, <1>6 DEF Only, Tables
<1>8. BeginEffects(r, f)
  BY <1>1, <1>3, <1>4, <1>5 DEF BeginEffects, q
<1>. QED
  BY <1>1, <1>5, <1>7, <1>8, BeginKeeps, OneRequest

\* What a worker does to its job, its bill and the ledger.
LEMMA JobWorked ==
    ASSUME NEW r \in Work, SubmissionsInv, job[r] \in Sent,
           NEW state \in Sent \cup {"failed"}, job' = [job EXCEPT ![r] = state],
           UNCHANGED <<staged, req, row, stored, owing>>, odd \subseteq odd',
           EntriesFit', DOMAIN entry' = Shared, CountsFit',
           \A o \in Work : ItemsOf(o)' = ItemsOf(o),
           \A o \in Work \ {r} : Charges(o)' = Charges(o),
           File(r) \in Metered \ odd' =>
              /\ state \in Sent
              /\ Of(r, "gate")' = Of(r, "gate")
              /\ \A d \in Charges(r)' : d.token \in {"gate", "settle"}
              /\ state = "queued" =>
                    Of(r, "settle")' = {} \/ One(Of(r, "settle")', BillDue(r))
              /\ state # "queued" => One(Of(r, "settle")', BillDue(r))
    PROVE  SubmissionsInv'
<1>1. Tables /\ RequestInv(r) /\ RequestTypes(r) /\ DOMAIN job = Work
  BY DEF SubmissionsInv, RequestInv, Tables
<1>2. DOMAIN job' = Work /\ job'[r] = state /\ \A o \in Work \ {r} : job'[o] = job[o]
  BY <1>1
<1>3. RequestTypes(r)' /\ File(r)' = File(r)
  BY <1>1, <1>2 DEF RequestTypes, File, Sent, JobStates
<1>4. StagedFit'
  BY Unwritten
<1>5. Only(r)
  BY <1>1, <1>2, <1>3, <1>4 DEF Only, Tables
<1>6. Holds(r)' = Holds(r)
  BY <1>3, <1>5, OwnRows
<1>7. WorkEffects(r)
  BY <1>2, <1>3, <1>6 DEF WorkEffects
<1>. QED
  BY <1>1, <1>5, <1>7, WorkKeeps, OneRequest

\* A job that was sent is of a request that came; a metered one charges its own token.
LEMMA AtJob ==
    ASSUME NEW r \in Work, SubmissionsInv, job[r] \in Sent
    PROVE  /\ RequestInv(r) /\ Begun(r) /\ (KindOf(r) = "shared" <=> File(r) \in Shared)
           /\ File(r) \in Metered => BillToken(r) = "settle"
           /\ File(r) \in Metered \ odd => ChargesFit(r)
<1>1. RequestInv(r)
  BY DEF SubmissionsInv
<1>2. Begun(r)
  BY <1>1 DEF RequestInv, BegunFits, Sent
<1>3. File(r) \in Files
  BY <1>1, <1>2 DEF RequestInv, RequestTypes, Begun, File
<1>. QED
  BY <1>1, <1>2, <1>3 DEF KindOf, Shared, Metered, BillToken, RequestInv, PaidFits

\* An outcome leaves the ledger in shape.
LEMMA RecordedFits ==
    ASSUME NEW r \in Work, NEW outcome \in Outcomes, SubmissionsInv, job[r] \in Sent,
           Recorded(r, outcome)
    PROVE  EntriesFit' /\ DOMAIN entry' = Shared
<1>. DEFINE f == File(r)
<1>1. (KindOf(r) = "shared" <=> f \in Shared) /\ EntriesFit /\ DOMAIN entry = Shared
  BY AtJob DEF SubmissionsInv, Tables
<1>2. \/ f \in Shared /\ entry' = [entry EXCEPT ![f] = RecordTerminal(@, r, outcome)]
      \/ entry' = entry
  BY <1>1 DEF Recorded
<1>. HIDE DEF f
<1>3. ASSUME f \in Shared, entry' = [entry EXCEPT ![f] = RecordTerminal(@, r, outcome)]
      PROVE  EntriesFit' /\ DOMAIN entry' = Shared
  BY <1>1, <1>3, LedgerFacts
<1>4. ASSUME entry' = entry PROVE EntriesFit' /\ DOMAIN entry' = Shared
  BY <1>4, Unwritten
<1>. QED
  BY <1>2, <1>3, <1>4

\* The bill is charged once in one period; in another the file is odd.
LEMMA SettleStep ==
    ASSUME NEW r \in Work, NEW trial, SubmissionsInv, SettleBill(r, trial)
    PROVE  SubmissionsInv'
<1>. DEFINE elsewhere == \E d \in debits :
                d.work = r /\ d.token = BillToken(r) /\ d.period # Period(trial)
<1>b. PICK b \in {"document", "settle"} : b = BillToken(r)
  BY DEF BillToken
<1>1. /\ job[r] = "queued" /\ job' = [job EXCEPT ![r] = "settled"]
      /\ odd' = IF elsewhere THEN odd \cup {File(r)} ELSE odd
      /\ UNCHANGED <<staged, req, row, stored, entry, owing>>
  BY DEF SettleBill
<1>2. PICK told : Debit(r, b, BillDue(r), trial, told)
  BY <1>b DEF SettleBill
<1>3. debits' = AddDebit(r, b, BillDue(r), trial) /\ counts' = AddCount(r, b, BillDue(r), 0)
  BY <1>2 DEF Debit
<1>4. job[r] \in Sent /\ "settled" \in Sent /\ b # "item" /\ CountsFit
  BY <1>1 DEF Sent, SubmissionsInv
<1>5. EntriesFit' /\ DOMAIN entry' = Shared
  BY <1>1, Unwritten
<1>6. CountsFit' /\ \A o \in Work : ItemsOf(o)' = ItemsOf(o)
  BY <1>3, <1>4, CountFacts
<1>7. /\ \A o \in Work \ {r} : Charges(o)' = Charges(o)
      /\ \A u : u # b => Of(r, u)' = Of(r, u)
      /\ \A d \in Charges(r)' : d \in Charges(r) \/ d.token = b
      /\ Of(r, b) = {} => One(Of(r, b)', BillDue(r))
      /\ BillDue(r) = 0 => debits' = debits
      /\ (\E d \in Of(r, b) : d.period = Period(trial)) => debits' = debits
  BY <1>3, DebitFacts
<1>8. ASSUME File(r) \in Metered, File(r) \notin odd'
      PROVE  /\ Of(r, "gate")' = Of(r, "gate")
             /\ \A d \in Charges(r)' : d.token \in {"gate", "settle"}
             /\ One(Of(r, "settle")', BillDue(r))
  <2>1. b = "settle" /\ ChargesFit(r) /\ ~elsewhere
    BY <1>b, <1>1, <1>4, <1>8, AtJob
  <2>2. \A d \in Of(r, "settle") : d.period = Period(trial)
    BY <1>b, <2>1 DEF Of
  <2>. HIDE DEF elsewhere
  <2>3. (\A d \in Charges(r) : d.token \in {"gate", "settle"})
        /\ (Of(r, "settle") = {} \/ One(Of(r, "settle"), BillDue(r)))
    BY <1>1, <2>1 DEF ChargesFit
  <2>4. One(Of(r, "settle")', BillDue(r))
    <3>1. ASSUME Of(r, "settle") # {}, One(Of(r, "settle"), BillDue(r))
          PROVE  One(Of(r, "settle")', BillDue(r))
      <4>1. debits' = debits
        BY <1>7, <2>1, <2>2, <3>1
      <4>2. Of(r, "settle")' = Of(r, "settle")
        BY <4>1 DEF Of
      <4>. QED
        BY <3>1, <4>2
    <3>. QED
      BY <1>7, <2>1, <2>3, <3>1
  <2>. QED
    BY <1>7, <2>1, <2>3, <2>4
<1>9. odd \subseteq odd'
  BY <1>1
<1>. HIDE DEF elsewhere
<1>. QED
  BY <1>1, <1>4, <1>5, <1>6, <1>7, <1>8, <1>9, JobWorked

\* A bill that raises makes the file odd, applied or not.
LEMMA BillLostStep ==
    ASSUME NEW r \in Work, NEW trial, SubmissionsInv, BillLost(r, trial)
    PROVE  SubmissionsInv'
<1>1. /\ job[r] = "queued" /\ job' = [job EXCEPT ![r] = "settled"]
      /\ odd' = odd \cup {File(r)}
      /\ UNCHANGED <<staged, req, row, stored, entry, owing, counts>>
      /\ debits' \in {debits, AddDebit(r, BillToken(r), BillDue(r), trial)}
  BY DEF BillLost, DebitRaises
<1>2. job[r] \in Sent /\ "settled" \in Sent
  BY <1>1 DEF Sent
<1>3. /\ EntriesFit' /\ DOMAIN entry' = Shared /\ CountsFit'
      /\ \A o \in Work : ItemsOf(o)' = ItemsOf(o)
  BY <1>1, Unwritten
<1>4. \A o \in Work \ {r} : Charges(o)' = Charges(o)
  <2>1. ASSUME debits' = debits PROVE \A o \in Work \ {r} : Charges(o)' = Charges(o)
    BY <2>1 DEF Charges
  <2>2. ASSUME debits' = AddDebit(r, BillToken(r), BillDue(r), trial)
        PROVE  \A o \in Work \ {r} : Charges(o)' = Charges(o)
    BY <2>2, DebitFacts
  <2>. QED
    BY <1>1, <2>1, <2>2
<1>5. odd \subseteq odd' /\ File(r) \in odd'
  BY <1>1
<1>. QED
  BY <1>1, <1>2, <1>3, <1>4, <1>5, JobWorked

\* The worker ends, or the message comes again.
LEMMA OutcomeSteps ==
    ASSUME NEW r \in Work, SubmissionsInv, Redelivered(r) \/ FinishWork(r) \/ WorkFails(r)
    PROVE  SubmissionsInv'
<1>1. UNCHANGED <<staged, req, row, stored, owing, consumptionVars>> /\ job[r] \in Sent
  BY DEF Redelivered, FinishWork, WorkFails, Sent
<1>2. /\ CountsFit' /\ \A o \in Work : ItemsOf(o)' = ItemsOf(o) /\ Charges(o)' = Charges(o)
      /\ Of(r, "gate")' = Of(r, "gate") /\ Of(r, "settle")' = Of(r, "settle")
  BY <1>1, Unwritten DEF consumptionVars, Of
<1>3. ASSUME File(r) \in Metered, File(r) \notin odd PROVE ChargesFit(r)
  BY <1>1, <1>3, AtJob
<1>4. ASSUME Redelivered(r) PROVE SubmissionsInv'
  <2>1. /\ job[r] = "settled" /\ job' = [job EXCEPT ![r] = "queued"]
        /\ UNCHANGED <<entry, odd>> /\ "queued" \in Sent
    BY <1>4 DEF Redelivered, Sent
  <2>2. EntriesFit' /\ DOMAIN entry' = Shared
    BY <2>1, Unwritten
  <2>3. ASSUME File(r) \in Metered, File(r) \notin odd'
        PROVE  /\ \A d \in Charges(r)' : d.token \in {"gate", "settle"}
               /\ One(Of(r, "settle")', BillDue(r))
    BY <1>2, <1>3, <2>1, <2>3 DEF ChargesFit
  <2>. QED
    BY <1>1, <1>2, <2>1, <2>2, <2>3, JobWorked
<1>5. ASSUME FinishWork(r) PROVE SubmissionsInv'
  <2>1. /\ job[r] = "settled" /\ job' = [job EXCEPT ![r] = "done"]
        /\ UNCHANGED odd /\ Recorded(r, "processed") /\ "done" \in Sent
    BY <1>5 DEF FinishWork, Sent
  <2>2. EntriesFit' /\ DOMAIN entry' = Shared
    BY <1>1, <2>1, RecordedFits DEF Outcomes
  <2>3. ASSUME File(r) \in Metered, File(r) \notin odd'
        PROVE  /\ \A d \in Charges(r)' : d.token \in {"gate", "settle"}
               /\ One(Of(r, "settle")', BillDue(r))
    BY <1>2, <1>3, <2>1, <2>3 DEF ChargesFit
  <2>. QED
    BY <1>1, <1>2, <2>1, <2>2, <2>3, JobWorked
<1>6. ASSUME WorkFails(r) PROVE SubmissionsInv'
  <2>1. /\ job' = [job EXCEPT ![r] = "failed"]
        /\ odd' = odd \cup {File(r)} /\ Recorded(r, "failed")
    BY <1>6 DEF WorkFails
  <2>2. EntriesFit' /\ DOMAIN entry' = Shared
    BY <1>1, <2>1, RecordedFits DEF Outcomes
  <2>3. odd \subseteq odd' /\ File(r) \in odd' /\ "failed" \in Sent \cup {"failed"}
    BY <2>1
  <2>. QED
    BY <1>1, <1>2, <2>1, <2>2, <2>3, JobWorked
<1>. QED
  BY <1>4, <1>5, <1>6

\* A deletion upsets whoever has yet to ask.
LEMMA DeleteStep ==
    ASSUME NEW r \in Work, SubmissionsInv, DeleteSave(r) PROVE SubmissionsInv'
<1>1. /\ row[r] = "held" /\ ~UnderWay(r) /\ row' = [row EXCEPT ![r] = "deleted"] /\ Upsets(r)
      /\ UNCHANGED <<staged, req, job, stored, entry, owing, consumptionVars>>
  BY DEF DeleteSave
<1>2. Tables /\ RequestInv(r) /\ RequestTypes(r) /\ odd \subseteq odd'
  BY <1>1 DEF SubmissionsInv, RequestInv, Upsets
<1>3. DOMAIN row' = Work /\ row'[r] = "deleted" /\ \A o \in Work \ {r} : row'[o] = row[o]
  BY <1>1, <1>2 DEF Tables
<1>4. RequestTypes(r)' /\ File(r)' = File(r)
  BY <1>1, <1>2, <1>3 DEF RequestTypes, File, RowStates
<1>5. /\ EntriesFit' /\ DOMAIN entry' = Shared /\ StagedFit' /\ CountsFit'
      /\ \A o \in Work : ItemsOf(o)' = ItemsOf(o) /\ Charges(o)' = Charges(o)
  BY <1>1, Unwritten DEF consumptionVars
<1>6. Only(r)
  BY <1>1, <1>2, <1>3, <1>4, <1>5 DEF Only, Tables
<1>7. Holds(r)' = Holds(r)
  BY <1>4, <1>6, OwnRows
<1>8. StaysEffects(r)
  BY <1>1, <1>2, <1>3, <1>4, <1>5, <1>7 DEF StaysEffects
<1>. QED
  BY <1>2, <1>5, <1>6, <1>8, StaysKeeps, OneRequest

\* What the client does, and what another user's job does to the ledger.
LEMMA OutsideSteps ==
    ASSUME SubmissionsInv,
           UNCHANGED <<req, row, job, stored, owing, odd, consumptionVars>>,
           StagedFit', EntriesFit', DOMAIN entry' = Shared
    PROVE  SubmissionsInv'
<1>1. CountsFit' /\ \A o \in Work : ItemsOf(o)' = ItemsOf(o) /\ Charges(o)' = Charges(o)
  BY Unwritten DEF consumptionVars
<1>2. Tables'
  BY DEF SubmissionsInv, Tables
<1>3. ASSUME NEW r \in Work PROVE RequestInv(r)'
  <2>1. RequestInv(r) /\ RequestTypes(r)
    BY DEF SubmissionsInv, RequestInv
  <2>2. RequestTypes(r)' /\ Holds(r)' = Holds(r)
    BY <2>1 DEF RequestTypes, Holds, File
  <2>3. StaysEffects(r)
    BY <1>1, <2>2 DEF StaysEffects
  <2>. QED
    BY <2>1, <2>3, StaysKeeps
<1>. QED
  BY <1>1, <1>2, <1>3 DEF SubmissionsInv

\* A key is signed, and its object sent.
LEMMA ClientSteps ==
    ASSUME NEW k \in Keys, NEW f, SubmissionsInv,
           (f \in Uploads /\ SignUrl(k, f)) \/ PutFile(k)
    PROVE  SubmissionsInv'
<1>1. StagedFit
  BY DEF SubmissionsInv, Tables
<1>2. /\ UNCHANGED <<req, row, job, stored, entry, owing, odd, consumptionVars>>
      /\ \/ f \in Uploads /\ staged[k] = Unsigned /\ staged' = [staged EXCEPT ![k].file = f]
         \/ staged[k] # Unsigned /\ ~staged[k].there /\ staged' = [staged EXCEPT ![k].there = TRUE]
  BY DEF SignUrl, PutFile
<1>3. \A l \in Keys : /\ staged'[l] \in [file : Uploads \cup {NoFile}, there : BOOLEAN]
                      /\ staged'[l].there => staged'[l].file # NoFile
  <2>1. ASSUME f \in Uploads, staged[k] = Unsigned, staged' = [staged EXCEPT ![k].file = f], NEW l \in Keys
        PROVE  /\ staged'[l] \in [file : Uploads \cup {NoFile}, there : BOOLEAN]
               /\ staged'[l].there => staged'[l].file # NoFile
    BY <1>1, <2>1, IntakeAssumption DEF StagedFit, Unsigned, Uploads
  <2>2. ASSUME staged[k] # Unsigned, ~staged[k].there, staged' = [staged EXCEPT ![k].there = TRUE],
               NEW l \in Keys
        PROVE  /\ staged'[l] \in [file : Uploads \cup {NoFile}, there : BOOLEAN]
               /\ staged'[l].there => staged'[l].file # NoFile
    BY <1>1, <2>2 DEF StagedFit, Unsigned
  <2>. QED
    BY <1>2, <2>1, <2>2
<1>4. StagedFit'
  BY <1>1, <1>2, <1>3 DEF StagedFit
<1>5. EntriesFit' /\ DOMAIN entry' = Shared
  BY <1>2, Unwritten
<1>. QED
  BY <1>2, <1>4, <1>5, OutsideSteps

\* Another user's job ends.
LEMMA OtherStep ==
    ASSUME NEW f \in Shared, NEW outcome \in Outcomes, SubmissionsInv, OtherEnds(f, outcome)
    PROVE  SubmissionsInv'
<1>1. /\ entry' = [entry EXCEPT ![f] = RecordTerminal(@, Other, outcome)]
      /\ UNCHANGED <<staged, req, row, job, stored, owing, odd, consumptionVars>>
  BY DEF OtherEnds
<1>2. StagedFit' /\ EntriesFit /\ DOMAIN entry = Shared
  BY <1>1, Unwritten DEF SubmissionsInv, Tables
<1>3. EntriesFit' /\ DOMAIN entry' = Shared
  BY <1>1, <1>2, LedgerFacts
<1>. QED
  BY <1>1, <1>2, <1>3, OutsideSteps

\* The steps of the erasure.
LEMMA ErasedSubmissions ==
    ASSUME NEW c, SubmissionsInv, Erases(c)
    PROVE  SubmissionsInv'
<1>1. ASSUME UNCHANGED <<consumptionVars, intakeVars>> PROVE SubmissionsInv'
  <2>1. UNCHANGED <<staged, req, row, job, stored, entry, owing, odd, consumptionVars>>
    BY <1>1 DEF intakeVars
  <2>. QED
    BY <2>1, Unwritten, OutsideSteps
<1>2. ASSUME EraseEffects PROVE SubmissionsInv'
  <2>1. Tables
    BY DEF SubmissionsInv
  <2>2. Tables'
    BY <1>2, <2>1 DEF Tables, StagedFit, EraseEffects
  <2>3. CountsFit' /\ EntriesFit'
    BY <1>2 DEF CountsFit, EntriesFit, EraseEffects, SubmissionsInv
  <2>4. \A r \in Work : RequestInv(r)'
    BY <1>2, EraseKeeps DEF SubmissionsInv
  <2>. QED
    BY <2>2, <2>3, <2>4 DEF SubmissionsInv
<1>3. EraseEffects \/ UNCHANGED <<consumptionVars, intakeVars>>
  BY DEF Erases, EraseEffects
<1>. QED
  BY <1>1, <1>2, <1>3

\* The invariant holds at the start.
LEMMA SubmissionsStart == Init => SubmissionsInv
<1>. SUFFICES ASSUME Init PROVE SubmissionsInv
  OBVIOUS
<1>1. ConsumptionInit /\ IntakeInit
  BY DEF Init, IntakeInit
<1>2. /\ staged = [k \in Keys |-> Unsigned] /\ req = [r \in Work |-> Idle]
      /\ row = [r \in Work |-> "none"] /\ job = [r \in Work |-> "none"]
      /\ entry \in [Shared -> {Absent, [status |-> "reserved", job |-> Other]}]
      /\ owing = {} /\ debits = {} /\ counts = {}
  BY <1>1 DEF IntakeInit, ConsumptionInit
<1>3. StagedFit
  BY <1>2, IntakeAssumption DEF StagedFit, Unsigned
<1>4. Tables /\ CountsFit /\ EntriesFit
  BY <1>2, <1>3 DEF Tables, CountsFit, EntriesFit, Absent
<1>5. ASSUME NEW r \in Work PROVE RequestInv(r)
  <2>1. req[r] = Idle /\ row[r] = "none" /\ job[r] = "none" /\ r \notin owing
    BY <1>2
  <2>2. ~Begun(r) /\ ~UnderWay(r) /\ ~Duplicate(r) /\ File(r) = NoFile
    BY <2>1, EmptyRoute DEF Begun, UnderWay, Duplicate, File, Idle
  <2>3. ItemsOf(r) = {} /\ Charges(r) = {} /\ Left(r) = {}
    BY <1>2, <2>1, EmptyRoute DEF ItemsOf, Charges, Left, Idle
  <2>4. RequestTypes(r)
    BY <2>1, EmptyRoute DEF RequestTypes, Idle, JobStates, RowStates
  <2>5. BegunFits(r) /\ EffectsFit(r)
    BY <2>1, <2>2, <2>3 DEF BegunFits, EffectsFit, Sent
  <2>6. PaidFits(r)
    BY <2>2, IntakeAssumption DEF PaidFits, Metered
  <2>. QED
    BY <2>2, <2>4, <2>5, <2>6 DEF RequestInv
<1>. QED
  BY <1>4, <1>5 DEF SubmissionsInv

\* Every step of a request and every fault keeps it.
LEMMA RequestSteps ==
    ASSUME NEW r \in Work, NEW trial, SubmissionsInv, RequestStep(r, trial) \/ RequestFault(r, trial)
    PROVE  SubmissionsInv'
<1>1. ASSUME NEW k \in Keys, SubmitUpload(r, k) PROVE SubmissionsInv'
  <2>1. staged[k].file \in Files
    BY <1>1 DEF SubmitUpload, SubmissionsInv, Tables, StagedFit, Uploads
  <2>. QED
    BY <1>1, <2>1, BeginSteps DEF SubmitUpload
<1>2. ASSUME RequestStep(r, trial) PROVE SubmissionsInv'
  BY <1>1, <1>2, DeleteStep, QuotaStep, SaveUploadStep, JobSteps, CopySteps, BreakingSteps,
     LedgerSteps, SubmitUrlStep, ContentStep, HeldStep, GateStep, DebitStep, CountStep, SettleStep, OutcomeSteps
     DEF RequestStep
<1>3. ASSUME RequestFault(r, trial) PROVE SubmissionsInv'
  BY <1>3, SilentSteps, DebitLostStep, BillLostStep, BreakingSteps DEF RequestFault
<1>. QED
  BY <1>2, <1>3

\* So does every step of the account.
LEMMA SubmissionsStay ==
    ASSUME SubmissionsInv, load \in Loads, [Next]_vars
    PROVE  SubmissionsInv' /\ load' \in Loads
<1>1. ASSUME UNCHANGED <<consumptionVars, intakeVars>> PROVE SubmissionsInv'
  <2>1. UNCHANGED <<staged, req, row, job, stored, entry, owing, odd, consumptionVars>>
    BY <1>1 DEF intakeVars
  <2>. QED
    BY <2>1, Unwritten, OutsideSteps
<1>2. ASSUME NEW c \in Calls, Erases(c) PROVE SubmissionsInv'
  BY <1>2, ErasedSubmissions
<1>3. ASSUME Submitting PROVE SubmissionsInv'
  <2>1. load.work \subseteq Work /\ load.files \subseteq Files
    BY LoadAssumption
  <2>2. ASSUME NEW k \in Keys, NEW f \in Uploads, SignUrl(k, f) PROVE SubmissionsInv'
    BY <2>2, ClientSteps
  <2>3. ASSUME NEW k \in Keys, PutFile(k) PROVE SubmissionsInv'
    BY <2>3, ClientSteps
  <2>4. ASSUME NEW r \in Work, RequestStep(r, InTrial) \/ RequestFault(r, InTrial)
        PROVE  SubmissionsInv'
    <3>1. PICK trial \in BOOLEAN : trial = InTrial
      BY DEF InTrial
    <3>2. RequestStep(r, trial) \/ RequestFault(r, trial)
      BY <2>4, <3>1
    <3>. QED
      BY <3>2, RequestSteps
  <2>5. ASSUME NEW r \in Work, NEW f \in Files, SubmitLink(r, f) PROVE SubmissionsInv'
    BY <2>5, BeginSteps DEF SubmitLink
  <2>6. ASSUME NEW f \in Shared, NEW outcome \in Outcomes, OtherEnds(f, outcome)
        PROVE  SubmissionsInv'
    BY <2>6, OtherStep
  <2>. QED
    BY <1>3, <2>1, <2>2, <2>3, <2>4, <2>5, <2>6 DEF Submitting
<1>4. load' = load
  BY DEF Next, Erases, vars
<1>5. \/ UNCHANGED <<consumptionVars, intakeVars>>
      \/ \E c \in Calls : Erases(c)
      \/ Submitting
  BY DEF Next, vars
<1>. QED
  BY <1>1, <1>2, <1>3, <1>4, <1>5

\* The submissions' invariant holds of every behaviour of Spec.
THEOREM SubmissionsHold == Spec => [](SubmissionsInv /\ load \in Loads)
<1>1. Init => SubmissionsInv /\ load \in Loads
  BY SubmissionsStart DEF Init
<1>2. (SubmissionsInv /\ load \in Loads) /\ [Next]_vars => (SubmissionsInv /\ load \in Loads)'
  BY SubmissionsStay
<1>. QED
  BY <1>1, <1>2, PTL DEF Spec

-----------------------------------------------------------------------------
(* What is promised of submissions                                         *)

\* Every accepted submission has all that its answer promises: row, job, bytes, count.
THEOREM AcceptedAreWhole == Spec => []AcceptedIsWhole
<1>1. SubmissionsInv => AcceptedIsWhole
  <2>. SUFFICES ASSUME SubmissionsInv, NEW r \in Work, Accepted(r)
                PROVE  /\ row[r] # "none"
                       /\ row[r] = "held" /\ KindOf(r) # "link" /\ ~Duplicate(r) =>
                             job[r] \notin {"none", "pending"} /\ Home(r) \in stored
                       /\ KindOf(r) # "shared" /\ File(r) \notin odd =>
                             Cardinality(ItemsOf(r)) = 1
    BY DEF AcceptedIsWhole
  <2>1. EffectsFit(r) /\ Begun(r) /\ req[r].end = "none" /\ Left(r) = {}
    BY NothingLeft DEF SubmissionsInv, RequestInv, Accepted, UnderWay
  <2>2. ASSUME KindOf(r) # "shared", File(r) \notin odd PROVE Cardinality(ItemsOf(r)) = 1
    <3>1. PICK c : ItemsOf(r) = {c}
      BY <2>1, <2>2 DEF EffectsFit
    <3>. QED
      BY <3>1, FS_Singleton
  <2>. QED
    BY <2>1, <2>2 DEF EffectsFit
<1>. QED
  BY <1>1, SubmissionsHold, PTL

\* One write or two add up.
LEMMA TwoWrites ==
    ASSUME NEW r, NEW gate \in Nat, NEW bill \in Nat,
           \A d \in Charges(r) : d.token \in {"gate", "settle"},
           One(Of(r, "gate"), gate), One(Of(r, "settle"), bill)
    PROVE  AddUpTo(Charges(r), gate + bill)
<1>1. Charges(r) = Of(r, "gate") \cup Of(r, "settle")
  BY DEF Charges, Of
<1>2. CASE gate = 0 /\ bill = 0
  BY <1>1, <1>2 DEF One, AddUpTo
<1>3. CASE gate # 0 /\ bill = 0
  <2>1. PICK d \in Of(r, "gate") : Of(r, "gate") = {d} /\ d.minutes = gate
    BY <1>3 DEF One
  <2>2. Charges(r) = {d} /\ gate + bill = d.minutes
    BY <1>1, <1>3, <2>1 DEF One
  <2>. QED
    BY <2>2 DEF AddUpTo
<1>4. CASE gate = 0 /\ bill # 0
  <2>1. PICK d \in Of(r, "settle") : Of(r, "settle") = {d} /\ d.minutes = bill
    BY <1>4 DEF One
  <2>2. Charges(r) = {d} /\ gate + bill = d.minutes
    BY <1>1, <1>4, <2>1 DEF One
  <2>. QED
    BY <2>2 DEF AddUpTo
<1>5. CASE gate # 0 /\ bill # 0
  <2>1. PICK d \in Of(r, "gate") : Of(r, "gate") = {d} /\ d.minutes = gate
    BY <1>5 DEF One
  <2>2. PICK e \in Of(r, "settle") : Of(r, "settle") = {e} /\ e.minutes = bill
    BY <1>5 DEF One
  <2>3. d # e
    BY <2>1, <2>2 DEF Of
  <2>4. Charges(r) = {d, e} /\ gate + bill = d.minutes + e.minutes
    BY <1>1, <2>1, <2>2
  <2>. QED
    BY <2>3, <2>4 DEF AddUpTo
<1>. QED
  BY <1>2, <1>3, <1>4, <1>5

\* Every save made while holding no other is charged once and in full, and no other save
\* is; a copy of known content costs its bill, or nothing where its job told none.
THEOREM SavesArePaidOnce == Spec => []PaidOnce
<1>1. SubmissionsInv => PaidOnce
  <2>. SUFFICES ASSUME SubmissionsInv, NEW f \in Metered \ odd, NEW r \in Work, File(r) = f,
                       ~UnderWay(r), job[r] \notin {"queued", "settled"}
                PROVE  AddUpTo(Charges(r), Cost(r))
    BY DEF PaidOnce, Quiet
  <2>1. /\ RequestInv(r) /\ f \in Files /\ Begun(r)
    BY IntakeAssumption DEF SubmissionsInv, Metered, Begun
  <2>2. /\ OwingFits(r) /\ ChargesFit(r) /\ EndFits(r) /\ EffectsFit(r) /\ BegunFits(r) /\ RequestTypes(r)
    BY <2>1 DEF RequestInv, PaidFits
  <2>3. Left(r) = {}
    BY NothingLeft DEF UnderWay
  <2>4. CASE req[r].end # "none"
    <3>1. r \notin owing /\ Of(r, "gate") = {} /\ Of(r, "settle") = {}
      BY <2>2, <2>4 DEF EndFits, ChargesFit
    <3>2. Charges(r) = {}
      BY <2>2, <3>1 DEF ChargesFit, Of, Charges
    <3>. QED
      BY <3>1, <3>2 DEF AddUpTo, Cost
  <2>5. CASE req[r].end = "none"
    <3>1. /\ req[r].told = DebitDue(r) /\ One(Of(r, "gate"), DebitDue(r)) /\ (r \in owing <=> ~req[r].free)
      BY <2>2, <2>3, <2>5 DEF ChargesFit, OwingFits
    <3>2. KindOf(r) \in {"audio", "shared"} /\ KindOf(r) # "link"
      BY DEF Metered, KindOf
    <3>3. DebitDue(r) \in Nat /\ BillDue(r) \in Nat /\ Billed[File(r)] \in Nat /\ GateMinutes(File(r)) \in Nat
      BY <2>1, DueFacts, IntakeAssumption DEF GateMinutes, AtLeastOne
    <3>4. CASE Duplicate(r)
      <4>1. Of(r, "settle") = {}
        BY <2>2, <3>4 DEF EffectsFit, ChargesFit
      <4>2. AddUpTo(Charges(r), DebitDue(r) + 0)
        BY <2>2, <3>1, <3>3, <4>1, TwoWrites DEF ChargesFit, One
      <4>3. Cost(r) = DebitDue(r)
        BY <3>1, <3>4 DEF Cost, DebitDue
      <4>. QED
        BY <3>3, <4>2, <4>3
    <3>5. CASE ~Duplicate(r)
      <4>1. job[r] = "done"
        BY <2>1, <2>2, <2>3, <2>5, <3>2, <3>5 DEF EffectsFit, EndFits, RequestTypes, JobStates
      <4>2. One(Of(r, "settle"), BillDue(r))
        BY <2>2, <4>1 DEF ChargesFit
      <4>3. AddUpTo(Charges(r), DebitDue(r) + BillDue(r))
        BY <2>2, <3>1, <3>3, <4>2, TwoWrites DEF ChargesFit
      <4>4. Cost(r) = DebitDue(r) + BillDue(r)
        BY <3>1, <3>2, <3>3, <3>5 DEF Cost, DebitDue, BillDue
      <4>. QED
        BY <4>3, <4>4
    <3>. QED
      BY <3>4, <3>5
  <2>. QED
    BY <2>4, <2>5
<1>. QED
  BY <1>1, SubmissionsHold, PTL

-----------------------------------------------------------------------------
(* The subscriptions: the inductive invariant                              *)

\* An event that says by itself what the subscription is; the others say what
\* happened to it since.
Base(i) == events[i].kind \notin Unordered

\* Event b is the last of its subscription that did so up to i.
Leads(b, i) ==
    /\ b \in DOMAIN events /\ b <= i /\ events[b].sub = events[i].sub /\ Base(b)
    /\ \A k \in DOMAIN events : b < k /\ k <= i /\ events[k].sub = events[i].sub => ~Base(k)

\* Event i is the next to do so.
Succeeds(i, b) ==
    /\ b \in DOMAIN events /\ b < i /\ events[b].sub = events[i].sub /\ Base(b) /\ Base(i)
    /\ \A k \in DOMAIN events : b < k /\ k < i /\ events[k].sub = events[i].sub => ~Base(k)

\* The first of its subscription.
First(i) == \A k \in DOMAIN events : k < i => events[k].sub # events[i].sub

\* What happened since b, up to the next.
Since(b) == {events[k].kind : k \in {i \in DOMAIN events : b < i /\ Leads(b, i)}}

\* The same product, tier and end of the period.
SameTerms(x, e) == x.product = e.product /\ x.plan = e.plan /\ x.until = e.until

\* What the stores emit: a subscription starts with a purchase, and what is bought
\* again or renewed is what it was.
Follows(i, b) ==
    LET e == events[i] IN
    /\ Succeeds(i, b)
    /\ e.kind = "INITIAL_PURCHASE" => "EXPIRATION" \in Since(b)
    /\ e.kind = "RENEWAL" => e.product = events[b].product
    /\ e.kind = "PRODUCT_CHANGE" => /\ e.former = events[b].product /\ e.former # e.product
                                    /\ "EXPIRATION" \notin Since(b)

\* It starts its subscription, says what happened to it, or goes on from what it was.
EventFits(i) ==
    \/ First(i) /\ events[i].kind = "INITIAL_PURCHASE"
    \/ ~Base(i) /\ \E b \in DOMAIN events : b < i /\ Leads(b, i) /\ SameTerms(events[i], events[b])
    \/ \E b \in DOMAIN events : Follows(i, b)

\* And so do all events.
HistoryFits == \A i \in DOMAIN events : EventFits(i)

\* Event b is the last that says what the subscription is.
Latest(b, s) ==
    /\ b \in DOMAIN events /\ events[b].sub = s /\ Base(b)
    /\ \A k \in DOMAIN events : b < k /\ events[k].sub = s => ~Base(k)

\* What a store's state is after these kinds of what happened.
PhaseBy(kinds) ==
    CASE "EXPIRATION" \in kinds -> "off"
      [] "EXPIRATION" \notin kinds /\ "BILLING_ISSUE_DETECTED" \in kinds -> "issue"
      [] OTHER -> "on"
RenewsBy(kinds) == "CANCELLATION" \notin kinds /\ "EXPIRATION" \notin kinds

\* The store is what the last of these events and those since it say.
StoreSays(s, b) ==
    /\ Latest(b, s) /\ SameTerms(store[s], events[b])
    /\ store[s].phase = PhaseBy(Since(b))
    /\ (store[s].cancelled <=> "CANCELLATION" \in Since(b))
    /\ (store[s].renews <=> RenewsBy(Since(b)))

\* Every store, but one that sold nothing yet, is in the state its events lead to.
StoreFits ==
    \A s \in Subs :
        \/ store[s].phase = "none" /\ \A i \in DOMAIN events : events[i].sub # s
        \/ \E b \in DOMAIN events : StoreSays(s, b)

\* The status of a row that has taken in these kinds.
StatusBy(kinds) ==
    CASE "EXPIRATION" \in kinds -> "expired"
      [] "EXPIRATION" \notin kinds /\ "CANCELLATION" \in kinds -> "canceled"
      [] {"EXPIRATION", "CANCELLATION"} \cap kinds = {}
            /\ "BILLING_ISSUE_DETECTED" \in kinds -> "grace_period"
      [] OTHER -> "active"

\* A row that has taken in event b and these kinds of what followed it.
Says(r, b, kinds) ==
    /\ SameTerms(r, events[b])
    /\ r.status = StatusBy(kinds)
    /\ (r.cancels <=> "CANCELLATION" \in kinds)
    /\ (r.renews <=> RenewsBy(kinds))

\* The most recently written row of the subscription.
LatestRow(k, s) ==
    /\ k \in DOMAIN rows /\ rows[k].store = s
    /\ \A j \in DOMAIN rows : j > k => rows[j].store # s

\* A row keeps its subscription, and no two share a key.
RowFits(r) ==
    /\ r.id[1] \in DOMAIN events /\ events[r.id[1]].sub = r.store
    /\ r.store \in Named => r.named

\* The rows and those under way fit their events.
RowsAgree ==
    /\ \A k \in DOMAIN rows : RowFits(rows[k])
    /\ \A j, k \in DOMAIN rows : rows[j].id = rows[k].id => j = k
    /\ \A d \in Deliveries : Busy(d) => delivery[d].event \in DOMAIN events
    /\ \A d \in Deliveries :
          /\ DeliveryAt(d, "write") <=> delivery[d].row # NoRowYet
          /\ DeliveryAt(d, "write") => RowFits(delivery[d].row) /\ delivery[d].row.store = Handling(d).sub

\* A webhook request is under way with an event of the subscription.
Handles(d, s) == Busy(d) /\ Handling(d).sub = s

\* Nothing of the subscription was processed yet.
Untouched(s) ==
    /\ \A k \in DOMAIN rows : rows[k].store # s
    /\ \A i \in recorded : events[i].sub # s
    /\ \A d \in Deliveries : Handles(d, s) =>
          /\ delivery[d].pc \in {"read", "write"} /\ First(delivery[d].event)
          /\ DeliveryAt(d, "write") => Says(delivery[d].row, delivery[d].event, {})

\* What a webhook request does to a subscription whose row, at k, says b and kinds:
\* repeat b, add to it, or go on to the next.
Repeats(d, b, kinds, k) ==
    /\ delivery[d].event = b /\ kinds = {}
    /\ DeliveryAt(d, "write") => Says(delivery[d].row, b, {}) /\ delivery[d].row.id = rows[k].id

Adds(d, b, kinds, k) ==
    /\ b < delivery[d].event /\ Leads(b, delivery[d].event) /\ b \in recorded
    /\ DeliveryAt(d, "write") => /\ Says(delivery[d].row, b, kinds \cup {Handling(d).kind})
                                 /\ delivery[d].row.id = rows[k].id
    /\ DeliveryAt(d, "record") => Handling(d).kind \in kinds

GoesOn(d, b, k) ==
    LET i == delivery[d].event IN
    /\ Succeeds(i, b) /\ delivery[d].pc \in {"read", "write"}
    /\ \A j \in DOMAIN events : j < i /\ events[j].sub = events[i].sub => j \in recorded
    /\ DeliveryAt(d, "read") /\ Handling(d).kind = "PRODUCT_CHANGE" /\ Handling(d).sub \notin Named =>
          \A j \in DOMAIN rows : rows[j].store = Handling(d).sub => rows[j].product # Handling(d).product
    /\ DeliveryAt(d, "write") =>
          /\ Says(delivery[d].row, i, {})
          /\ Handling(d).kind # "INITIAL_PURCHASE" => delivery[d].row.id = rows[k].id

\* The latest row says b and what of the kinds was processed since; its others are over.
RowSays(s, b, kinds, k) ==
    /\ LatestRow(k, s) /\ Says(rows[k], b, kinds)
    /\ \A j \in DOMAIN rows : rows[j].store = s /\ j # k => rows[j].status = "expired"

\* All before b is recorded, and behind it only what the row says.
Processed(s, b, kinds) ==
    /\ events[b].sub = s /\ Base(b)
    /\ kinds \subseteq Since(b)
    /\ kinds # {} => b \in recorded
    /\ \A i \in DOMAIN events : events[i].sub = s =>
          /\ i < b => i \in recorded
          /\ b < i /\ i \in recorded => Leads(b, i) /\ events[i].kind \in kinds

\* One of these three.
Continues(d, b, kinds, k) == Repeats(d, b, kinds, k) \/ Adds(d, b, kinds, k) \/ GoesOn(d, b, k)

\* The rows of a subscription, and whatever is under way with it, are at event b and these kinds.
Tells(s, b, kinds, k) ==
    /\ RowSays(s, b, kinds, k)
    /\ Processed(s, b, kinds)
    /\ \A d \in Deliveries : Handles(d, s) => Continues(d, b, kinds, k)

\* One request at a time handles the subscription.
Alone(s) == \A c, d \in Deliveries : Handles(c, s) /\ Handles(d, s) => c = d

\* The rows of a subscription whose events came in turn are where its recorded events lead.
InTune(s) ==
    /\ Alone(s)
    /\ \/ Untouched(s)
       \/ \E b \in DOMAIN events, kinds \in SUBSET Unordered, k \in DOMAIN rows :
             Tells(s, b, kinds, k)

\* The subscriptions of an account that is not being erased are in tune, but for the wild ones.
SubscriptionsInv ==
    /\ SubscriptionsTypeOK /\ HistoryFits /\ StoreFits /\ RowsAgree
    /\ ~Erasing => \A s \in Subs \ wild : InTune(s)

-----------------------------------------------------------------------------
(* Positions                                                               *)

\* Max of the community modules is the greatest, when there is one.
LEMMA MaxIs ==
    ASSUME NEW S, NEW m \in S, S \subseteq Int, \A x \in S : x <= m
    PROVE  Max(S) = m
<1>1. \E x \in S : \A y \in S : x >= y
  OBVIOUS
<1>2. Max(S) \in S /\ \A y \in S : Max(S) >= y
  BY <1>1, Zenon DEF Max
<1>3. Max(S) <= m /\ Max(S) >= m
  BY <1>2, Zenon
<1>4. Max(S) \in Int /\ m \in Int
  BY <1>2, Zenon
<1>. QED
  BY <1>3, <1>4

\* Positions of a sequence have a last one among them.
LEMMA LastPosition ==
    ASSUME NEW n \in Nat, NEW S \in SUBSET (1..n), S # {}
    PROVE  \E m \in S : \A x \in S : x <= m
<1>. DEFINE Less == OpToRel(<, Nat)
<1>. DEFINE T == {n - x : x \in S}
<1>1. \A j, k \in Nat : j < k => <<j, k>> \in Less
  BY DEF OpToRel
<1>2. T \subseteq Nat /\ T # {}
  <2>1. \A x \in S : n - x \in Nat
    OBVIOUS
  <2>. QED
    BY <2>1, Zenon
<1>3. IsWellFoundedOn(Less, Nat)
  BY NatLessThanWellFounded
<1>. HIDE DEF Less
<1>4. PICK y \in T : \A z \in T : ~(<<z, y>> \in Less)
  BY <1>2, <1>3, WFMin
<1>5. PICK m \in S : y = n - m
  OBVIOUS
<1>6. ASSUME NEW x \in S PROVE x <= m
  <2>1. n - x \in T /\ n - x \in Nat /\ y \in Nat
    BY <1>2
  <2>2. ~(n - x < y)
    BY <1>1, <1>4, <2>1
  <2>. QED
    BY <1>5, <2>2
<1>. QED
  BY <1>6

\* Of some positions there is one.
LEMMA MaxOfPositions ==
    ASSUME NEW n \in Nat, NEW S \in SUBSET (1..n), S # {}
    PROVE  Max(S) \in S /\ \A x \in S : x <= Max(S)
<1>1. PICK m \in S : \A x \in S : x <= m
  BY LastPosition
<1>2. S \subseteq Int
  OBVIOUS
<1>3. Max(S) = m
  BY <1>1, <1>2, MaxIs, Zenon
<1>. QED
  BY <1>1, <1>3

\* RemoveAt of the community modules.
LEMMA Removed ==
    ASSUME NEW S, NEW s \in Seq(S), NEW i \in 1..Len(s)
    PROVE  /\ RemoveAt(s, i) \in Seq(S) /\ Len(RemoveAt(s, i)) = Len(s) - 1
           /\ \A k \in 1..Len(s) - 1 : RemoveAt(s, i)[k] = IF k < i THEN s[k] ELSE s[k + 1]
<1>1. Len(s) \in Nat /\ i \in Int /\ \A k \in 1..Len(s) : s[k] \in S
  BY LenProperties, ElementOfSeq
<1>2. PICK front : front = SubSeq(s, 1, i - 1)
  OBVIOUS
<1>3. PICK back : back = SubSeq(s, i + 1, Len(s))
  OBVIOUS
<1>4. /\ front \in Seq(S) /\ Len(front) = i - 1
      /\ \A k \in 1..i - 1 : front[k] = s[k]
  <2>1. \A k \in 1..i - 1 : s[k] \in S
    BY <1>1
  <2>2. i - 1 \in Int
    BY <1>1
  <2>3. /\ front \in Seq(S) /\ Len(front) = IF 1 <= i - 1 THEN i - 1 - 1 + 1 ELSE 0
        /\ \A k \in 1..i - 1 - 1 + 1 : front[k] = s[1 + k - 1]
    BY <1>2, <2>1, <2>2, SubSeqProperties
  <2>. QED
    BY <1>1, <2>3
<1>5. /\ back \in Seq(S) /\ Len(back) = Len(s) - i
      /\ \A k \in 1..Len(s) - i : back[k] = s[i + k]
  <2>1. \A k \in i + 1..Len(s) : s[k] \in S
    BY <1>1
  <2>2. i + 1 \in Int /\ Len(s) \in Int
    BY <1>1
  <2>3. /\ back \in Seq(S) /\ Len(back) = IF i + 1 <= Len(s) THEN Len(s) - (i + 1) + 1 ELSE 0
        /\ \A k \in 1..Len(s) - (i + 1) + 1 : back[k] = s[(i + 1) + k - 1]
    BY <1>3, <2>1, <2>2, SubSeqProperties
  <2>. QED
    BY <1>1, <2>3
<1>6. PICK whole : whole = front \o back
  OBVIOUS
<1>7. /\ whole \in Seq(S) /\ Len(whole) = Len(front) + Len(back)
      /\ \A k \in 1..Len(front) + Len(back) :
            whole[k] = IF k <= Len(front) THEN front[k] ELSE back[k - Len(front)]
  BY <1>4, <1>5, <1>6, ConcatProperties
<1>8. RemoveAt(s, i) = whole
  BY <1>2, <1>3, <1>6 DEF RemoveAt
<1>9. ASSUME NEW k \in 1..Len(s) - 1 PROVE whole[k] = IF k < i THEN s[k] ELSE s[k + 1]
  <2>0. Len(front) + Len(back) = Len(s) - 1 /\ Len(front) = i - 1 /\ k \in Nat /\ k >= 1
    BY <1>1, <1>4, <1>5
  <2>1. CASE k < i
    <3>1. k <= Len(front) /\ k \in 1..i - 1
      BY <1>1, <2>0, <2>1
    <3>2. whole[k] = front[k]
      BY <1>7, <2>0, <3>1
    <3>. QED
      BY <1>4, <2>1, <3>1, <3>2
  <2>2. CASE ~(k < i)
    <3>1. k - (i - 1) \in 1..Len(s) - i /\ i + (k - (i - 1)) = k + 1 /\ ~(k <= i - 1)
      BY <1>1, <2>2
    <3>2. whole[k] = back[k - (i - 1)]
      BY <1>7, <2>0, <3>1
    <3>. QED
      BY <1>5, <2>2, <3>1, <3>2
  <2>. QED
    BY <2>1, <2>2
<1>10. Len(whole) = Len(s) - 1
  BY <1>1, <1>4, <1>5, <1>7
<1>. QED
  BY <1>7, <1>8, <1>9, <1>10

\* Where the rows stand once one is put: the others in their order, then the new one.
Reordered(new, m) ==
    /\ m \in [1..Len(rows') - 1 -> DOMAIN rows]
    /\ \A j, k \in 1..Len(rows') - 1 : j < k => m[j] < m[k]
    /\ \A k \in 1..Len(rows') - 1 : rows'[k] = rows[m[k]] /\ rows[m[k]].id # new.id
    /\ \A j \in DOMAIN rows : rows[j].id # new.id => \E k \in 1..Len(rows') - 1 : m[k] = j

\* WriteSubscription's put: the row written last, behind all that are not the one it replaces.
LEMMA Put ==
    ASSUME rows \in Seq(Rows), NEW new \in Rows, rows' = Append(Without(new.id), new),
           \A j, k \in DOMAIN rows : rows[j].id = rows[k].id => j = k
    PROVE  /\ rows' \in Seq(Rows) /\ Len(rows') \in Nat \ {0} /\ rows'[Len(rows')] = new
           /\ \E m : Reordered(new, m)
<1>. DEFINE old == {i \in DOMAIN rows : rows[i].id = new.id}
<1>0. Len(rows) \in Nat /\ DOMAIN rows = 1..Len(rows)
  BY LenProperties
<1>1. CASE old = {}
  <2>. DEFINE m == [k \in 1..Len(rows) |-> k]
  <2>1. rows' = Append(rows, new)
    BY <1>1 DEF Without
  <2>2. /\ rows' \in Seq(Rows) /\ Len(rows') = Len(rows) + 1 /\ rows'[Len(rows')] = new
        /\ \A k \in 1..Len(rows) : rows'[k] = rows[k]
    BY <1>0, <2>1, AppendProperties
  <2>3. Reordered(new, m)
    BY <1>0, <1>1, <2>2 DEF Reordered
  <2>. QED
    BY <1>0, <2>2, <2>3
<1>2. ASSUME NEW i \in old
      PROVE  /\ rows' \in Seq(Rows) /\ Len(rows') \in Nat \ {0} /\ rows'[Len(rows')] = new
             /\ \E m : Reordered(new, m)
  <2>1. old = {i} /\ i \in 1..Len(rows) /\ i \in Nat
    BY <1>0
  <2>2. \A x \in old : x <= i
    BY <2>1
  <2>3. old \subseteq Int
    BY <2>1
  <2>4. Max(old) = i
    BY <2>2, <2>3, MaxIs, Zenon
  <2>5. PICK rest \in Seq(Rows) :
           /\ rest = RemoveAt(rows, i) /\ Len(rest) = Len(rows) - 1
           /\ \A k \in 1..Len(rows) - 1 : rest[k] = IF k < i THEN rows[k] ELSE rows[k + 1]
    BY <2>1, Removed
  <2>6. rows' = Append(rest, new)
    BY <2>1, <2>4, <2>5 DEF Without
  <2>7. /\ rows' \in Seq(Rows) /\ Len(rows') = Len(rows) /\ rows'[Len(rows')] = new
        /\ \A k \in 1..Len(rows) - 1 : rows'[k] = rest[k]
    <3>1. /\ rows' \in Seq(Rows) /\ Len(rows') = Len(rest) + 1 /\ rows'[Len(rest) + 1] = new
          /\ \A k \in 1..Len(rest) : rows'[k] = rest[k]
      BY <2>6, AppendProperties
    <3>. QED
      BY <1>0, <2>5, <3>1
  <2>8. PICK m \in [1..Len(rows) - 1 -> 1..Len(rows)] :
           \A k \in 1..Len(rows) - 1 : m[k] = IF k < i THEN k ELSE k + 1
    <3>1. [k \in 1..Len(rows) - 1 |-> IF k < i THEN k ELSE k + 1] \in [1..Len(rows) - 1 -> 1..Len(rows)]
      BY <1>0, <2>1
    <3>. QED
      BY <3>1
  <2>9. Reordered(new, m)
    <3>1. \A j, k \in 1..Len(rows) - 1 : j < k => m[j] < m[k]
      BY <1>0, <2>1, <2>8
    <3>2. \A k \in 1..Len(rows) - 1 : rows'[k] = rows[m[k]] /\ m[k] # i /\ m[k] \in DOMAIN rows
      BY <1>0, <2>1, <2>5, <2>7, <2>8
    <3>3. \A k \in 1..Len(rows) - 1 : rows[m[k]].id # new.id
      BY <2>1, <3>2
    <3>4. \A j \in DOMAIN rows : rows[j].id # new.id => \E k \in 1..Len(rows) - 1 : m[k] = j
      <4>1. ASSUME NEW j \in DOMAIN rows, j < i PROVE j \in 1..Len(rows) - 1 /\ m[j] = j
        BY <1>0, <2>1, <2>8, <4>1
      <4>2. ASSUME NEW j \in DOMAIN rows, j > i PROVE j - 1 \in 1..Len(rows) - 1 /\ m[j - 1] = j
        BY <1>0, <2>1, <2>8, <4>2
      <4>3. \A j \in DOMAIN rows : rows[j].id # new.id => j < i \/ j > i
        BY <1>0, <2>1
      <4>. QED
        BY <4>1, <4>2, <4>3
    <3>. QED
      BY <1>0, <2>7, <2>8, <3>1, <3>2, <3>3, <3>4 DEF Reordered
  <2>. QED
    BY <1>0, <2>1, <2>7, <2>9
<1>. QED
  BY <1>1, <1>2

-----------------------------------------------------------------------------
(* What the stores emit                                                    *)

\* What the types say of the positions of events and rows.
LEMMA Positions ==
    ASSUME SubscriptionsTypeOK
    PROVE  /\ Len(events) \in Nat /\ DOMAIN events = 1..Len(events)
           /\ \A i \in DOMAIN events : events[i] \in Events /\ i \in Nat
           /\ Len(rows) \in Nat /\ DOMAIN rows = 1..Len(rows)
           /\ \A k \in DOMAIN rows : rows[k] \in Rows /\ k \in Nat
<1>1. events \in Seq(Events) /\ rows \in Seq(Rows)
  BY DEF SubscriptionsTypeOK
<1>2. Len(events) \in Nat /\ DOMAIN events = 1..Len(events)
  BY <1>1, LenProperties
<1>3. Len(rows) \in Nat /\ DOMAIN rows = 1..Len(rows)
  BY <1>1, LenProperties
<1>4. \A i \in 1..Len(events) : events[i] \in Events
  BY <1>1, ElementOfSeq
<1>5. \A i \in 1..Len(rows) : rows[i] \in Rows
  BY <1>1, ElementOfSeq
<1>. QED
  BY <1>2, <1>3, <1>4, <1>5

\* An event is of the block of one base, and follows one.
LEMMA OneLeads ==
    ASSUME SubscriptionsTypeOK, NEW i \in DOMAIN events, NEW b, NEW c, Leads(b, i), Leads(c, i)
    PROVE  b = c
<1>1. b \in DOMAIN events /\ c \in DOMAIN events
  BY DEF Leads
<1>2. ~(b < c) /\ ~(c < b)
  BY <1>1 DEF Leads
<1>. QED
  BY <1>1, <1>2, Positions

\* An event goes on from one event only.
LEMMA OneSucceeded ==
    ASSUME SubscriptionsTypeOK, NEW i \in DOMAIN events, NEW b, NEW c, Succeeds(i, b), Succeeds(i, c)
    PROVE  b = c
<1>1. b \in DOMAIN events /\ c \in DOMAIN events
  BY DEF Succeeds
<1>2. ~(b < c) /\ ~(c < b)
  BY <1>1 DEF Succeeds
<1>. QED
  BY <1>1, <1>2, Positions

\* What an event more changes of those before it: nothing but what happened since the latest.
LEMMA OneMore ==
    ASSUME SubscriptionsTypeOK, NEW e \in Events, events' = Append(events, e),
           NEW n, n = Len(events) + 1
    PROVE  /\ n \in DOMAIN events' /\ events'[n] = e /\ DOMAIN events' = DOMAIN events \cup {n}
           /\ \A i \in DOMAIN events : events'[i] = events[i] /\ i < n
           /\ \A b \in DOMAIN events : Base(b)' <=> Base(b)
           /\ \A b, i \in DOMAIN events : (Leads(b, i)' <=> Leads(b, i)) /\ (Succeeds(i, b)' <=> Succeeds(i, b))
           /\ \A i \in DOMAIN events : First(i)' <=> First(i)
           /\ \A b \in DOMAIN events :
                 Since(b)' = IF Leads(b, n)' THEN Since(b) \cup {e.kind} ELSE Since(b)
           /\ \A b, i \in DOMAIN events : Succeeds(i, b) => ~Leads(b, n)'
<1>1. /\ Len(events) \in Nat /\ DOMAIN events = 1..Len(events) /\ n \in Nat
      /\ \A i \in DOMAIN events : events[i] \in Events /\ i \in Nat
  BY Positions
<1>2. events \in Seq(Events)
  BY DEF SubscriptionsTypeOK
<1>3. /\ events' \in Seq(Events) /\ Len(events') = n /\ events'[n] = e
      /\ \A i \in DOMAIN events : events'[i] = events[i]
  BY <1>1, <1>2, AppendProperties
<1>4. DOMAIN events' = 1..n
  BY <1>3, LenProperties
<1>5. DOMAIN events' = DOMAIN events \cup {n} /\ \A i \in DOMAIN events : i < n
  BY <1>1, <1>4
<1>6. \A b \in DOMAIN events : Base(b)' <=> Base(b)
  BY <1>3 DEF Base
<1>7. ASSUME NEW b \in DOMAIN events, NEW i \in DOMAIN events
      PROVE  (Leads(b, i)' <=> Leads(b, i)) /\ (Succeeds(i, b)' <=> Succeeds(i, b))
  <2>1. \A k \in DOMAIN events' : (k < i \/ k <= i) => k \in DOMAIN events
    BY <1>1, <1>5
  <2>2. DOMAIN events \subseteq DOMAIN events'
    BY <1>5
  <2>3. Leads(b, i)' <=> Leads(b, i)
    BY <1>3, <1>6, <2>1, <2>2 DEF Leads
  <2>4. Succeeds(i, b)' <=> Succeeds(i, b)
    BY <1>3, <1>6, <2>1, <2>2 DEF Succeeds
  <2>. QED
    BY <2>3, <2>4
<1>8. ASSUME NEW i \in DOMAIN events PROVE First(i)' <=> First(i)
  <2>1. \A k \in DOMAIN events' : k < i => k \in DOMAIN events
    BY <1>1, <1>5
  <2>. QED
    BY <1>3, <1>5, <2>1 DEF First
<1>9. ASSUME NEW b \in DOMAIN events
      PROVE  Since(b)' = IF Leads(b, n)' THEN Since(b) \cup {e.kind} ELSE Since(b)
  <2>1. \A i \in DOMAIN events' :
           (b < i /\ Leads(b, i)') <=> \/ i \in DOMAIN events /\ b < i /\ Leads(b, i)
                                       \/ i = n /\ Leads(b, n)'
    BY <1>1, <1>5, <1>7
  <2>2. Since(b) = {events[k].kind : k \in {i \in DOMAIN events : b < i /\ Leads(b, i)}}
    BY DEF Since
  <2>3. Since(b)' = {events'[k].kind : k \in {i \in DOMAIN events' : b < i /\ Leads(b, i)'}}
    BY DEF Since
  <2>4. CASE Leads(b, n)'
    <3>1. {i \in DOMAIN events' : b < i /\ Leads(b, i)'} = {i \in DOMAIN events : b < i /\ Leads(b, i)} \cup {n}
      BY <1>5, <2>1, <2>4
    <3>2. \A k \in {i \in DOMAIN events : b < i /\ Leads(b, i)} : events'[k] = events[k]
      BY <1>3
    <3>. QED
      BY <1>3, <2>2, <2>3, <2>4, <3>1, <3>2
  <2>5. CASE ~Leads(b, n)'
    <3>1. {i \in DOMAIN events' : b < i /\ Leads(b, i)'} = {i \in DOMAIN events : b < i /\ Leads(b, i)}
      BY <1>5, <2>1, <2>5
    <3>2. \A k \in {i \in DOMAIN events : b < i /\ Leads(b, i)} : events'[k] = events[k]
      BY <1>3
    <3>. QED
      BY <1>3, <2>2, <2>3, <2>5, <3>1, <3>2
  <2>. QED
    BY <2>4, <2>5
<1>10. ASSUME NEW b \in DOMAIN events, NEW i \in DOMAIN events, Succeeds(i, b)
       PROVE  ~Leads(b, n)'
  <2>1. events'[i].sub = events'[b].sub /\ b < i /\ i <= n /\ Base(i)' /\ i \in DOMAIN events'
    BY <1>1, <1>3, <1>5, <1>6, <1>10 DEF Succeeds
  <2>2. ASSUME Leads(b, n)' PROVE FALSE
    <3>1. events'[n].sub = events'[b].sub /\ \A k \in DOMAIN events' : b < k /\ k <= n /\ events'[k].sub = events'[n].sub => ~Base(k)'
      BY <2>2 DEF Leads
    <3>. QED
      BY <2>1, <3>1
  <2>. QED
    BY <2>2
<1>. QED
  BY <1>3, <1>4, <1>5, <1>6, <1>7, <1>8, <1>9, <1>10

\* What a store does: it sets what the subscription is, or says what happened to it.
Opens(e, old, new) ==
    /\ new.phase = "on" /\ new.cancelled = FALSE /\ new.renews = TRUE
    /\ \/ e.kind = "INITIAL_PURCHASE" /\ old.phase \in {"none", "off"}
       \/ e.kind = "RENEWAL" /\ old.phase # "none" /\ e.product = old.product
       \/ /\ e.kind = "PRODUCT_CHANGE" /\ old.phase = "on"
          /\ e.former = old.product /\ e.former # e.product

\* A step of a store that is something that happened to the subscription.
Happens(e, old, new) ==
    /\ old.phase # "none" /\ SameTerms(new, old)
    /\ \/ /\ e.kind = "CANCELLATION" /\ old.phase # "off"
          /\ new.phase = old.phase /\ new.cancelled = TRUE /\ new.renews = FALSE
       \/ /\ e.kind = "BILLING_ISSUE_DETECTED" /\ old.phase = "on"
          /\ new.phase = "issue" /\ new.cancelled = old.cancelled /\ new.renews = old.renews
       \/ /\ e.kind = "EXPIRATION"
          /\ new.phase = "off" /\ new.cancelled = old.cancelled /\ new.renews = FALSE

\* The states of a store.
StoreRows == [phase : Phases, product : Plans \cup {NoPlan}, plan : Plans \cup {NoPlan}, until : Days,
              renews : BOOLEAN, cancelled : BOOLEAN]

\* A store that sold something has the terms of the latest event.
LEMMA StoreTerms ==
    ASSUME SubscriptionsTypeOK, StoreFits, NEW s \in Subs, store[s].phase # "none"
    PROVE  \E b \in DOMAIN events :
              /\ Latest(b, s) /\ SameTerms(store[s], events[b])
              /\ store[s].product \in Plans /\ store[s].plan \in Plans /\ store[s].until \in Days
<1>1. PICK b \in DOMAIN events : Latest(b, s) /\ SameTerms(store[s], events[b])
  BY DEF StoreFits, StoreSays
<1>2. events[b] \in Events
  BY Positions
<1>. QED
  BY <1>1, <1>2 DEF Events, SameTerms

\* What Emit puts at the end.
EventOf(s, kind, former, new) ==
    [sub |-> s, kind |-> kind, former |-> former, product |-> new.product, plan |-> new.plan,
     until |-> new.until]

\* It has the terms of the store.
LEMMA EmittedEvent ==
    ASSUME NEW s \in Subs, NEW kind \in Kinds, NEW former \in Plans \cup {NoPlan}, NEW new \in StoreRows,
           new.product \in Plans, new.plan \in Plans, NEW e, e = EventOf(s, kind, former, new)
    PROVE  e \in Events /\ e.sub = s /\ SameTerms(new, e) /\ e.kind = kind /\ e.former = former
  BY DEF EventOf, Events, StoreRows, SameTerms

\* Every step of a store opens a period or is something that happened in it.
LEMMA StoreMoves ==
    ASSUME SubscriptionsTypeOK, StoreFits, NEW s \in Subs, StoreStep(s)
    PROVE  \E e \in Events, new \in StoreRows :
              /\ events' = Append(events, e) /\ e.sub = s
              /\ store' = [store EXCEPT ![s] = new] /\ SameTerms(new, e)
              /\ Opens(e, store[s], new) \/ Happens(e, store[s], new)
<1>. DEFINE Moves == \E e \in Events, new \in StoreRows :
              /\ events' = Append(events, e) /\ e.sub = s
              /\ store' = [store EXCEPT ![s] = new] /\ SameTerms(new, e)
              /\ Opens(e, store[s], new) \/ Happens(e, store[s], new)
<1>0. /\ store \in [Subs -> StoreRows] /\ today \in Nat /\ today + 1 \in Days
  BY SubscriptionsAssumption DEF SubscriptionsTypeOK, StoreRows, Days
<1>1. /\ store[s] \in StoreRows
      /\ store[s].phase # "none" => /\ store[s].product \in Plans /\ store[s].plan \in Plans
                                    /\ store[s].until \in Days
  BY <1>0, StoreTerms
<1>2. \A plan \in Plans :
         /\ Bought(plan) \in StoreRows /\ Bought(plan).product \in Plans /\ Bought(plan).plan \in Plans
         /\ Bought(plan).product = plan
  BY <1>0 DEF Bought, StoreRows, Phases
<1>3. \A new : store' = [store EXCEPT ![s] = new] => store'[s] = new
  BY <1>0
<1>4. ASSUME NEW plan \in Plans, Buy(s, plan) PROVE Moves
  <2>1. PICK e \in Events : /\ events' = Append(events, e) /\ e.sub = s /\ SameTerms(Bought(plan), e)
                            /\ e.kind = "INITIAL_PURCHASE"
    <3>1. /\ store' = [store EXCEPT ![s] = Bought(plan)] /\ Emit("INITIAL_PURCHASE", s, NoPlan)
          /\ "INITIAL_PURCHASE" \in Kinds
      BY <1>4 DEF Buy, Kinds
    <3>2. store'[s] = Bought(plan)
      BY <1>3, <3>1
    <3>3. events' = Append(events, EventOf(s, "INITIAL_PURCHASE", NoPlan, Bought(plan)))
      BY <3>1, <3>2 DEF Emit, EventOf
    <3>. QED
      BY <1>2, <3>1, <3>3, EmittedEvent
  <2>2. Opens(e, store[s], Bought(plan))
    BY <1>4, <2>1 DEF Buy, Bought, Opens
  <2>. QED
    BY <1>2, <1>4, <2>1, <2>2 DEF Buy
<1>5. ASSUME NEW plan \in Plans, ChangeProduct(s, plan) PROVE Moves
  <2>1. PICK new \in StoreRows :
           /\ store' = [store EXCEPT ![s] = new] /\ new.product = plan /\ new.plan \in Plans
           /\ new.phase = "on" /\ new.cancelled = FALSE /\ new.renews = TRUE
    <3>1. PICK p \in {plan, store[s].plan} :
             store' = [store EXCEPT ![s] = [store[s] EXCEPT !.product = plan, !.plan = p,
                                                            !.renews = TRUE, !.cancelled = FALSE]]
      BY <1>5 DEF ChangeProduct
    <3>2. p \in Plans /\ store[s].phase = "on"
      BY <1>1, <1>5 DEF ChangeProduct
    <3>. DEFINE new == [store[s] EXCEPT !.product = plan, !.plan = p, !.renews = TRUE, !.cancelled = FALSE]
    <3>3. /\ new \in StoreRows /\ new.product = plan /\ new.plan = p
          /\ new.phase = "on" /\ new.cancelled = FALSE /\ new.renews = TRUE
      BY <1>1, <3>2 DEF StoreRows
    <3>. HIDE DEF new
    <3>. QED
      BY <3>1, <3>2, <3>3 DEF new
  <2>2. store[s].phase = "on" /\ store[s].product \in Plans /\ plan # store[s].product
    BY <1>1, <1>5 DEF ChangeProduct
  <2>3. PICK e \in Events : /\ events' = Append(events, e) /\ e.sub = s /\ SameTerms(new, e)
                            /\ e.kind = "PRODUCT_CHANGE" /\ e.former = store[s].product
    <3>1. Emit("PRODUCT_CHANGE", s, store[s].product) /\ "PRODUCT_CHANGE" \in Kinds
      BY <1>5 DEF ChangeProduct, Kinds
    <3>2. store'[s] = new
      BY <1>3, <2>1
    <3>3. events' = Append(events, EventOf(s, "PRODUCT_CHANGE", store[s].product, new))
      BY <3>1, <3>2 DEF Emit, EventOf
    <3>. QED
      BY <2>1, <2>2, <3>1, <3>3, EmittedEvent
  <2>4. Opens(e, store[s], new)
    BY <2>1, <2>2, <2>3 DEF Opens, SameTerms
  <2>. QED
    BY <2>1, <2>3, <2>4
<1>6. ASSUME Renew(s) PROVE Moves
  <2>1. store[s].phase # "none" /\ store[s].product \in Plans
    BY <1>1, <1>6 DEF Renew
  <2>2. PICK e \in Events : /\ events' = Append(events, e) /\ e.sub = s
                            /\ SameTerms(Bought(store[s].product), e) /\ e.kind = "RENEWAL"
    <3>1. /\ store' = [store EXCEPT ![s] = Bought(store[s].product)] /\ Emit("RENEWAL", s, NoPlan)
          /\ "RENEWAL" \in Kinds
      BY <1>6 DEF Renew, Kinds
    <3>2. store'[s] = Bought(store[s].product)
      BY <1>3, <3>1
    <3>3. events' = Append(events, EventOf(s, "RENEWAL", NoPlan, Bought(store[s].product)))
      BY <3>1, <3>2 DEF Emit, EventOf
    <3>. QED
      BY <1>2, <2>1, <3>1, <3>3, EmittedEvent
  <2>3. Opens(e, store[s], Bought(store[s].product))
    BY <2>1, <2>2 DEF Bought, Opens, SameTerms
  <2>. QED
    BY <1>2, <1>6, <2>1, <2>2, <2>3 DEF Renew
<1>7. ASSUME NEW kind \in Kinds, NEW new \in StoreRows, store' = [store EXCEPT ![s] = new],
             Emit(kind, s, NoPlan), SameTerms(new, store[s]), store[s].phase # "none",
             \A e \in Events : e.kind = kind => Happens(e, store[s], new)
      PROVE  Moves
  <2>1. new.product \in Plans /\ new.plan \in Plans
    BY <1>1, <1>7 DEF SameTerms
  <2>2. PICK e \in Events : events' = Append(events, e) /\ e.sub = s /\ SameTerms(new, e) /\ e.kind = kind
    <3>2. store'[s] = new
      BY <1>3, <1>7
    <3>3. events' = Append(events, EventOf(s, kind, NoPlan, new))
      BY <1>7, <3>2 DEF Emit, EventOf
    <3>. QED
      BY <1>7, <2>1, <3>3, EmittedEvent
  <2>. QED
    BY <1>7, <2>2
<1>8. ASSUME Cancel(s) PROVE Moves
  <2>. DEFINE new == [store[s] EXCEPT !.renews = FALSE, !.cancelled = TRUE]
  <2>1. new \in StoreRows /\ SameTerms(new, store[s])
    BY <1>1 DEF StoreRows, SameTerms
  <2>2. /\ store[s].phase \in {"on", "issue"} /\ store' = [store EXCEPT ![s] = new]
        /\ Emit("CANCELLATION", s, NoPlan)
    BY <1>8 DEF Cancel
  <2>3. new.phase = store[s].phase /\ new.cancelled = TRUE /\ new.renews = FALSE
    BY <1>1 DEF StoreRows
  <2>. HIDE DEF new
  <2>4. \A e \in Events : e.kind = "CANCELLATION" => Happens(e, store[s], new)
    BY <2>1, <2>2, <2>3 DEF Happens
  <2>. QED
    BY <1>7, <2>1, <2>2, <2>4 DEF Kinds
<1>9. ASSUME PaymentFails(s) PROVE Moves
  <2>. DEFINE new == [store[s] EXCEPT !.phase = "issue"]
  <2>1. new \in StoreRows /\ SameTerms(new, store[s])
    BY <1>1 DEF StoreRows, SameTerms, Phases
  <2>2. /\ store[s].phase = "on" /\ store' = [store EXCEPT ![s] = new]
        /\ Emit("BILLING_ISSUE_DETECTED", s, NoPlan)
    BY <1>9 DEF PaymentFails
  <2>3. new.phase = "issue" /\ new.cancelled = store[s].cancelled /\ new.renews = store[s].renews
    BY <1>1 DEF StoreRows
  <2>. HIDE DEF new
  <2>4. \A e \in Events : e.kind = "BILLING_ISSUE_DETECTED" => Happens(e, store[s], new)
    BY <2>1, <2>2, <2>3 DEF Happens
  <2>. QED
    BY <1>7, <2>1, <2>2, <2>4 DEF Kinds
<1>10. ASSUME Expire(s) PROVE Moves
  <2>. DEFINE new == [store[s] EXCEPT !.phase = "off", !.renews = FALSE]
  <2>1. new \in StoreRows /\ SameTerms(new, store[s])
    BY <1>1 DEF StoreRows, SameTerms, Phases
  <2>2. /\ store[s].phase # "none" /\ store' = [store EXCEPT ![s] = new]
        /\ Emit("EXPIRATION", s, NoPlan)
    BY <1>10 DEF Expire
  <2>3. new.phase = "off" /\ new.cancelled = store[s].cancelled /\ new.renews = FALSE
    BY <1>1 DEF StoreRows
  <2>. HIDE DEF new
  <2>4. \A e \in Events : e.kind = "EXPIRATION" => Happens(e, store[s], new)
    BY <2>1, <2>2, <2>3 DEF Happens
  <2>. QED
    BY <1>7, <2>1, <2>2, <2>4 DEF Kinds
<1>. HIDE DEF Moves
<1>11. Moves
  BY <1>4, <1>5, <1>6, <1>8, <1>9, <1>10 DEF StoreStep
<1>. QED
  BY <1>11 DEF Moves

\* A step of a store keeps the types ...
LEMMA StoreKeepsTypes ==
    ASSUME SubscriptionsTypeOK, StoreFits, NEW s \in Subs, StoreStep(s)
    PROVE  SubscriptionsTypeOK'
<1>1. PICK e \in Events, new \in StoreRows :
         events' = Append(events, e) /\ store' = [store EXCEPT ![s] = new]
  BY StoreMoves
<1>2. events \in Seq(Events)
  BY DEF SubscriptionsTypeOK
<1>3. events' \in Seq(Events)
  BY <1>1, <1>2, AppendProperties
<1>4. DOMAIN events \subseteq DOMAIN events'
  BY <1>1, OneMore
<1>5. store' \in [Subs -> StoreRows]
  BY <1>1 DEF SubscriptionsTypeOK, StoreRows
<1>6. UNCHANGED <<today, recorded, rows, delivery, wild>>
  BY DEF StoreStep
<1>. QED
  BY <1>3, <1>4, <1>5, <1>6 DEF SubscriptionsTypeOK, StoreRows

\* ... what the events and the stores say ...
LEMMA StoreKeepsHistory ==
    ASSUME SubscriptionsTypeOK, HistoryFits, StoreFits, NEW s \in Subs, StoreStep(s)
    PROVE  HistoryFits' /\ StoreFits'
<1>1. PICK e \in Events, new \in StoreRows :
         /\ events' = Append(events, e) /\ e.sub = s
         /\ store' = [store EXCEPT ![s] = new] /\ SameTerms(new, e)
         /\ Opens(e, store[s], new) \/ Happens(e, store[s], new)
  BY StoreMoves
<1>2. PICK n : n = Len(events) + 1
  OBVIOUS
<1>3. /\ n \in DOMAIN events' /\ events'[n] = e /\ DOMAIN events' = DOMAIN events \cup {n}
      /\ \A i \in DOMAIN events : events'[i] = events[i] /\ i < n
      /\ \A b \in DOMAIN events : Base(b)' <=> Base(b)
      /\ \A b, i \in DOMAIN events : (Leads(b, i)' <=> Leads(b, i)) /\ (Succeeds(i, b)' <=> Succeeds(i, b))
      /\ \A i \in DOMAIN events : First(i)' <=> First(i)
      /\ \A b \in DOMAIN events :
            Since(b)' = IF Leads(b, n)' THEN Since(b) \cup {e.kind} ELSE Since(b)
      /\ \A b, i \in DOMAIN events : Succeeds(i, b) => ~Leads(b, n)'
  BY <1>1, <1>2, OneMore
<1>4. /\ store'[s] = new /\ \A q \in Subs \ {s} : store'[q] = store[q]
  BY <1>1 DEF SubscriptionsTypeOK
<1>5. Base(n)' <=> e.kind \notin Unordered
  BY <1>3 DEF Base
<1>6. \A i \in DOMAIN events : i \in Nat /\ n \in Nat /\ ~(n < i)
  BY <1>2, Positions
<1>7. ASSUME NEW i \in DOMAIN events PROVE EventFits(i)'
  <2>0. EventFits(i)
    BY DEF HistoryFits
  <2>1. ASSUME First(i), events[i].kind = "INITIAL_PURCHASE" PROVE EventFits(i)'
    BY <1>3, <2>1 DEF EventFits
  <2>2. ASSUME ~Base(i), NEW b \in DOMAIN events, b < i, Leads(b, i), SameTerms(events[i], events[b])
        PROVE  EventFits(i)'
    <3>1. b \in DOMAIN events' /\ ~Base(i)' /\ Leads(b, i)' /\ SameTerms(events[i], events[b])'
      BY <1>3, <2>2 DEF SameTerms
    <3>. QED
      BY <2>2, <3>1 DEF EventFits
  <2>3. ASSUME NEW b \in DOMAIN events, Follows(i, b) PROVE EventFits(i)'
    <3>1. /\ b \in DOMAIN events' /\ Succeeds(i, b)' /\ Since(b)' = Since(b)
          /\ events'[i] = events[i] /\ events'[b] = events[b]
      BY <1>3, <2>3 DEF Follows
    <3>2. Follows(i, b)'
      BY <2>3, <3>1 DEF Follows
    <3>. QED
      BY <3>1, <3>2 DEF EventFits
  <2>. QED
    BY <2>0, <2>1, <2>2, <2>3 DEF EventFits
<1>8. ASSUME NEW b \in DOMAIN events, Latest(b, s)
      PROVE  IF Base(n)' THEN Succeeds(n, b)' /\ ~Leads(b, n)' ELSE Leads(b, n)' /\ Latest(b, s)'
  <2>1. /\ b \in DOMAIN events' /\ b < n /\ b <= n /\ n <= n /\ events'[b].sub = s /\ events'[n].sub = s /\ Base(b)'
        /\ n \in Nat
    BY <1>1, <1>3, <1>6, <1>8 DEF Latest
  <2>2. \A k \in DOMAIN events' : b < k /\ events'[k].sub = s /\ k # n => ~Base(k)'
    BY <1>3, <1>8 DEF Latest
  <2>3. CASE Base(n)'
    <3>1. Succeeds(n, b)'
      BY <1>6, <2>1, <2>2, <2>3 DEF Succeeds
    <3>2. ~Leads(b, n)'
      BY <1>3, <2>1, <2>3 DEF Leads
    <3>. QED
      BY <2>3, <3>1, <3>2
  <2>4. CASE ~Base(n)'
    <3>1. Leads(b, n)'
      BY <2>1, <2>2, <2>4 DEF Leads
    <3>2. Latest(b, s)'
      BY <2>1, <2>2, <2>4 DEF Latest
    <3>. QED
      BY <2>4, <3>1, <3>2
  <2>. QED
    BY <2>3, <2>4
<1>9. EventFits(n)'
  <2>1. ASSUME store[s].phase = "none", \A i \in DOMAIN events : events[i].sub # s PROVE EventFits(n)'
    <3>1. e.kind = "INITIAL_PURCHASE"
      BY <1>1, <2>1 DEF Opens, Happens
    <3>2. First(n)'
      BY <1>1, <1>3, <1>6, <2>1 DEF First
    <3>. QED
      BY <1>3, <3>1, <3>2 DEF EventFits
  <2>2. ASSUME NEW b \in DOMAIN events, StoreSays(s, b) PROVE EventFits(n)'
    <3>0. Latest(b, s) /\ b \in DOMAIN events' /\ b < n /\ events'[b] = events[b] /\ events'[n] = e
      BY <1>3, <2>2 DEF StoreSays
    <3>1. ASSUME Opens(e, store[s], new) PROVE EventFits(n)'
      <4>1. Base(n)'
        BY <1>5, <3>1 DEF Opens, Unordered
      <4>2. Succeeds(n, b)' /\ Since(b)' = Since(b)
        BY <1>3, <1>8, <3>0, <4>1
      <4>3. Follows(n, b)'
        BY <2>2, <3>0, <3>1, <4>2 DEF Follows, Opens, StoreSays, SameTerms, PhaseBy
      <4>. QED
        BY <3>0, <4>3 DEF EventFits
    <3>2. ASSUME Happens(e, store[s], new) PROVE EventFits(n)'
      <4>1. ~Base(n)'
        BY <1>5, <3>2 DEF Happens, Unordered
      <4>2. Leads(b, n)' /\ SameTerms(events[n], events[b])'
        BY <1>1, <1>8, <2>2, <3>0, <3>2, <4>1 DEF Happens, StoreSays, SameTerms
      <4>. QED
        BY <3>0, <4>1, <4>2 DEF EventFits
    <3>. QED
      BY <1>1, <3>1, <3>2
  <2>. QED
    BY <2>1, <2>2 DEF StoreFits
<1>10. HistoryFits'
  BY <1>3, <1>7, <1>9 DEF HistoryFits
<1>11. ASSUME NEW q \in Subs \ {s}
       PROVE  \/ store'[q].phase = "none" /\ \A i \in DOMAIN events' : events'[i].sub # q
              \/ \E b \in DOMAIN events' : StoreSays(q, b)'
  <2>1. CASE store[q].phase = "none" /\ \A i \in DOMAIN events : events[i].sub # q
    BY <1>1, <1>3, <1>4, <2>1
  <2>2. ASSUME NEW b \in DOMAIN events, StoreSays(q, b) PROVE b \in DOMAIN events' /\ StoreSays(q, b)'
    <3>1. /\ b \in DOMAIN events' /\ events'[b] = events[b] /\ events[b].sub = q /\ Base(b)
      BY <1>3, <2>2 DEF StoreSays, Latest
    <3>2. ~Leads(b, n)'
      BY <1>1, <1>3, <3>1 DEF Leads
    <3>3. Latest(b, q)'
      BY <1>1, <1>3, <2>2, <3>1 DEF StoreSays, Latest
    <3>4. Since(b)' = Since(b)
      BY <1>3, <3>2
    <3>. QED
      BY <1>4, <2>2, <3>1, <3>3, <3>4 DEF StoreSays
  <2>. QED
    BY <2>1, <2>2 DEF StoreFits
<1>12. \E b \in DOMAIN events' : StoreSays(s, b)'
  <2>1. ASSUME Opens(e, store[s], new) PROVE StoreSays(s, n)'
    <3>1. Base(n)'
      BY <1>5, <2>1 DEF Opens, Unordered
    <3>2. Since(n)' = {}
      <4>1. \A i \in DOMAIN events' : ~(n < i)
        BY <1>3, <1>6, <1>2, Positions
      <4>2. Since(n)' = {events'[k].kind : k \in {i \in DOMAIN events' : n < i /\ Leads(n, i)'}}
        BY DEF Since
      <4>. QED
        BY <4>1, <4>2
    <3>3. Latest(n, s)'
      BY <1>1, <1>3, <1>6, <3>1 DEF Latest
    <3>. QED
      <4>1. SameTerms(store[s], events[n])'
        BY <1>1, <1>3, <1>4 DEF SameTerms
      <4>2. PhaseBy({}) = "on" /\ RenewsBy({}) /\ "CANCELLATION" \notin {}
        BY DEF PhaseBy, RenewsBy
      <4>3. store'[s].phase = "on" /\ store'[s].cancelled = FALSE /\ store'[s].renews = TRUE
        BY <1>4, <2>1 DEF Opens
      <4>. QED
        BY <3>2, <3>3, <4>1, <4>2, <4>3 DEF StoreSays
  <2>2. ASSUME Happens(e, store[s], new) PROVE \E b \in DOMAIN events' : StoreSays(s, b)'
    <3>1. PICK b \in DOMAIN events : StoreSays(s, b)
      BY <2>2 DEF Happens, StoreFits
    <3>2. ~Base(n)' /\ Latest(b, s)
      BY <1>5, <2>2, <3>1 DEF Happens, Unordered, StoreSays
    <3>3. /\ Leads(b, n)' /\ Latest(b, s)' /\ b \in DOMAIN events' /\ events'[b] = events[b]
          /\ Since(b)' = Since(b) \cup {e.kind}
      BY <1>3, <1>8, <3>2
    <3>4. SameTerms(store[s], events[b])'
      BY <1>4, <2>2, <3>1, <3>3 DEF StoreSays, Happens, SameTerms
    <3>5. /\ new.phase = PhaseBy(Since(b) \cup {e.kind})
          /\ (new.cancelled <=> "CANCELLATION" \in Since(b) \cup {e.kind})
          /\ (new.renews <=> RenewsBy(Since(b) \cup {e.kind}))
      BY <2>2, <3>1 DEF StoreSays, Happens, PhaseBy, RenewsBy
    <3>. QED
      BY <1>4, <3>3, <3>4, <3>5 DEF StoreSays
  <2>. QED
    BY <1>1, <1>3, <2>1, <2>2
<1>. QED
  BY <1>10, <1>11, <1>12 DEF StoreFits

\* What the stores emit changes nothing of what was processed.
LEMMA StoreKeepsTune ==
    ASSUME SubscriptionsTypeOK, StoreFits, RowsAgree, NEW s \in Subs, StoreStep(s)
    PROVE  RowsAgree' /\ \A q \in Subs : InTune(q) => InTune(q)'
<1>1. PICK e \in Events : events' = Append(events, e)
  BY StoreMoves
<1>2. PICK n : n = Len(events) + 1
  OBVIOUS
<1>3. /\ n \in DOMAIN events' /\ DOMAIN events' = DOMAIN events \cup {n} /\ n \notin DOMAIN events
      /\ \A i \in DOMAIN events : events'[i] = events[i] /\ i < n /\ ~(n < i)
      /\ \A b \in DOMAIN events : (Base(b)' <=> Base(b)) /\ Since(b) \subseteq Since(b)'
      /\ \A b, i \in DOMAIN events : (Leads(b, i)' <=> Leads(b, i)) /\ (Succeeds(i, b)' <=> Succeeds(i, b))
      /\ \A i \in DOMAIN events : First(i)' <=> First(i)
  BY <1>1, <1>2, OneMore, Positions
<1>4. /\ rows' = rows /\ recorded' = recorded /\ delivery' = delivery /\ recorded \subseteq DOMAIN events
  BY DEF StoreStep, SubscriptionsTypeOK
<1>5. \A d \in Deliveries : /\ (Busy(d)' <=> Busy(d))
                            /\ Busy(d) => delivery[d].event \in DOMAIN events /\ Handling(d)' = Handling(d)
                            /\ \A pc : DeliveryAt(d, pc)' <=> DeliveryAt(d, pc)
  BY <1>3, <1>4 DEF RowsAgree, Busy, Handling, DeliveryAt
<1>6. \A d \in Deliveries, q \in Subs : Handles(d, q)' <=> Handles(d, q)
  BY <1>5 DEF Handles
<1>7. \A r, kinds : \A b \in DOMAIN events : Says(r, b, kinds)' <=> Says(r, b, kinds)
  BY <1>3 DEF Says, SameTerms
<1>8. \A r : RowFits(r) => RowFits(r)'
  BY <1>3 DEF RowFits
<1>9. RowsAgree'
  <2>1. \A d \in Deliveries : DeliveryAt(d, "write") => Busy(d)
    BY DEF DeliveryAt, Busy
  <2>. QED
    BY <1>3, <1>4, <1>5, <1>8, <2>1 DEF RowsAgree
<1>10. ASSUME NEW q \in Subs, InTune(q) PROVE InTune(q)'
  <2>1. Alone(q)'
    BY <1>6, <1>10 DEF InTune, Alone
  <2>2. ASSUME Untouched(q) PROVE Untouched(q)'
    <3>1. \A k \in DOMAIN rows' : rows'[k].store # q
      BY <1>4, <2>2 DEF Untouched
    <3>2. \A i \in recorded' : events'[i].sub # q
      BY <1>3, <1>4, <2>2 DEF Untouched
    <3>3. ASSUME NEW d \in Deliveries, Handles(d, q)'
          PROVE  /\ delivery'[d].pc \in {"read", "write"} /\ First(delivery[d].event)'
                 /\ DeliveryAt(d, "write")' => Says(delivery[d].row, delivery[d].event, {})'
      <4>1. /\ delivery[d].pc \in {"read", "write"} /\ First(delivery[d].event)
            /\ DeliveryAt(d, "write") => Says(delivery[d].row, delivery[d].event, {})
            /\ delivery[d].event \in DOMAIN events
        BY <1>5, <1>6, <2>2, <3>3 DEF Untouched, Handles
      <4>2. delivery'[d] = delivery[d]
        BY <1>4
      <4>. QED
        BY <1>3, <1>5, <1>7, <4>1, <4>2
    <3>. QED
      BY <3>1, <3>2, <3>3 DEF Untouched
  <2>3. ASSUME NEW b \in DOMAIN events, NEW kinds \in SUBSET Unordered, NEW k \in DOMAIN rows, Tells(q, b, kinds, k)
        PROVE  Tells(q, b, kinds, k)'
    <3>1. RowSays(q, b, kinds, k)'
      BY <1>4, <1>7, <2>3 DEF Tells, RowSays, LatestRow
    <3>2. Processed(q, b, kinds)'
      BY <1>3, <1>4, <2>3 DEF Tells, Processed
    <3>3. ASSUME NEW d \in Deliveries, Handles(d, q)' PROVE Continues(d, b, kinds, k)'
      <4>. DEFINE i == delivery[d].event
      <4>1. i \in DOMAIN events /\ Continues(d, b, kinds, k) /\ Handling(d)' = Handling(d) /\ delivery'[d] = delivery[d]
        BY <1>4, <1>5, <1>6, <2>3, <3>3 DEF Tells, Handles
      <4>2. Repeats(d, b, kinds, k) => Repeats(d, b, kinds, k)'
        BY <1>4, <1>5, <1>7, <4>1 DEF Repeats
      <4>3. Adds(d, b, kinds, k) => Adds(d, b, kinds, k)'
        BY <1>3, <1>4, <1>5, <1>7, <4>1 DEF Adds
      <4>4. GoesOn(d, b, k) => GoesOn(d, b, k)'
        <5>. SUFFICES ASSUME GoesOn(d, b, k) PROVE GoesOn(d, b, k)'
          OBVIOUS
        <5>1. Succeeds(i, b)' /\ delivery'[d].pc \in {"read", "write"}
          BY <1>3, <4>1 DEF GoesOn
        <5>2. \A j \in DOMAIN events' : j < i /\ events'[j].sub = events'[i].sub => j \in recorded'
          BY <1>3, <1>4, <4>1 DEF GoesOn
        <5>. QED
          BY <1>3, <1>4, <1>5, <1>7, <4>1, <5>1, <5>2 DEF GoesOn
      <4>. QED
        BY <4>1, <4>2, <4>3, <4>4 DEF Continues
    <3>. QED
      BY <3>1, <3>2, <3>3 DEF Tells
  <2>. QED
    BY <1>3, <1>4, <1>10, <2>1, <2>2, <2>3 DEF InTune
<1>. QED
  BY <1>9, <1>10

\* What happens to the rows of a subscription that a request of another one writes beside:
\* they may move, and keep their order.
Moved(q, m) ==
    /\ \A k \in DOMAIN rows' : rows'[k].store = q => m[k] \in DOMAIN rows /\ rows[m[k]] = rows'[k]
    /\ \A j \in DOMAIN rows : rows[j].store = q => \E k \in DOMAIN rows' : m[k] = j /\ rows'[k] = rows[j]
    /\ \A j, k \in DOMAIN rows' :
          rows'[j].store = q /\ rows'[k].store = q /\ j < k => m[j] < m[k]

\* A put moves the rows of the other subscriptions, in their order ...
LEMMA PutBeside ==
    ASSUME SubscriptionsTypeOK, RowsAgree, NEW q \in Subs, NEW new \in Rows, NEW m, RowFits(new),
           rows' \in Seq(Rows), Len(rows') \in Nat \ {0}, rows'[Len(rows')] = new,
           Reordered(new, m), new.store # q
    PROVE  Moved(q, m)
<1>1. DOMAIN rows' = 1..Len(rows')
  BY LenProperties
<1>2. \A k \in DOMAIN rows' : rows'[k].store = q => k \in 1..Len(rows') - 1
  BY <1>1
<1>3. \A j \in DOMAIN rows : rows[j].store = q => rows[j].id # new.id
  BY DEF RowsAgree, RowFits
<1>4. 1..Len(rows') - 1 \subseteq DOMAIN rows'
  BY <1>1
<1>. QED
  BY <1>2, <1>3, <1>4 DEF Moved, Reordered

\* ... and where nothing is put they stay.
LEMMA StillBeside ==
    ASSUME SubscriptionsTypeOK, NEW q, rows' = rows
    PROVE  \E m : Moved(q, m)
<1>1. PICK m : m = [k \in DOMAIN rows |-> k]
  OBVIOUS
<1>2. Moved(q, m)
  BY <1>1 DEF Moved
<1>. QED
  BY <1>2

\* A request of one subscription leaves the others as they were.
LEMMA OthersKeepTune ==
    ASSUME SubscriptionsTypeOK, RowsAgree, NEW d \in Deliveries, NEW q \in Subs, InTune(q), NEW m,
           events' = events, rows' \in Seq(Rows), Moved(q, m), recorded \subseteq DOMAIN events,
           \A i \in DOMAIN events : events[i].sub = q => (i \in recorded' <=> i \in recorded),
           recorded' \subseteq DOMAIN events,
           \A c \in Deliveries \ {d} : delivery'[c] = delivery[c],
           ~Handles(d, q)'
    PROVE  InTune(q)'
<1>1. \A b, i : /\ (Leads(b, i)' <=> Leads(b, i)) /\ (Succeeds(i, b)' <=> Succeeds(i, b))
                /\ (First(i)' <=> First(i)) /\ (Base(i)' <=> Base(i)) /\ Since(b)' = Since(b)
  BY DEF Leads, Succeeds, First, Base, Since
<1>2. \A r, b, kinds : Says(r, b, kinds)' <=> Says(r, b, kinds)
  BY DEF Says, SameTerms
<1>3. \A c \in Deliveries : Handles(c, q)' =>
         /\ c # d /\ delivery'[c] = delivery[c] /\ Handling(c)' = Handling(c) /\ Handles(c, q)
         /\ \A pc : DeliveryAt(c, pc)' <=> DeliveryAt(c, pc)
  BY DEF Handles, Handling, Busy, DeliveryAt
<1>4. Alone(q)'
  BY <1>3 DEF Alone, InTune
<1>5. ASSUME Untouched(q) PROVE Untouched(q)'
  <2>1. \A k \in DOMAIN rows' : rows'[k].store # q
    BY <1>5 DEF Untouched, Moved
  <2>2. \A i \in recorded' : events'[i].sub # q
    BY <1>5 DEF Untouched
  <2>. QED
    BY <1>1, <1>2, <1>3, <1>5, <2>1, <2>2 DEF Untouched
<1>6. ASSUME NEW b \in DOMAIN events, NEW kinds \in SUBSET Unordered, NEW j \in DOMAIN rows, Tells(q, b, kinds, j)
      PROVE  \E k \in DOMAIN rows' : Tells(q, b, kinds, k)'
  <2>1. rows[j].store = q /\ LatestRow(j, q)
    BY <1>6 DEF Tells, RowSays, LatestRow
  <2>2. PICK k \in DOMAIN rows' : m[k] = j /\ rows'[k] = rows[j]
    BY <2>1 DEF Moved
  <2>3. \A i \in DOMAIN rows' : rows'[i].store = q =>
           m[i] \in DOMAIN rows /\ rows[m[i]] = rows'[i] /\ (i > k => m[i] > j) /\ (i < k => m[i] < j)
    BY <2>1, <2>2 DEF Moved
  <2>4. DOMAIN rows' = 1..Len(rows') /\ Len(rows') \in Nat
    BY LenProperties
  <2>5. DOMAIN rows \subseteq Nat
    BY Positions
  <2>6. \A i \in DOMAIN rows' : rows'[i].store = q /\ i # k => m[i] # j
    BY <2>3, <2>4, <2>5
  <2>7. RowSays(q, b, kinds, k)'
    <3>1. LatestRow(k, q)'
      BY <2>1, <2>2, <2>3 DEF LatestRow
    <3>2. \A i \in DOMAIN rows' : rows'[i].store = q /\ i # k => rows'[i].status = "expired"
      BY <1>6, <2>3, <2>6 DEF Tells, RowSays
    <3>. QED
      BY <1>2, <1>6, <2>2, <3>1, <3>2 DEF Tells, RowSays
  <2>8. Processed(q, b, kinds)'
    <3>1. b \in recorded => b \in recorded'
      BY <1>6 DEF Tells, Processed
    <3>. QED
      BY <1>1, <1>6, <3>1 DEF Tells, Processed
  <2>9. ASSUME NEW c \in Deliveries, Handles(c, q)' PROVE Continues(c, b, kinds, k)'
    <3>1. Continues(c, b, kinds, j)
      BY <1>3, <1>6, <2>9 DEF Tells
    <3>2. /\ delivery'[c] = delivery[c] /\ Handling(c)' = Handling(c) /\ Handling(c).sub = q
          /\ \A pc : DeliveryAt(c, pc)' <=> DeliveryAt(c, pc)
      BY <1>3, <2>9 DEF Handles
    <3>3. delivery[c].event \in DOMAIN events
      BY <1>3, <2>9 DEF Handles, RowsAgree
    <3>4. Repeats(c, b, kinds, j) => Repeats(c, b, kinds, k)'
      BY <1>2, <2>2, <3>2 DEF Repeats
    <3>5. Adds(c, b, kinds, j) => Adds(c, b, kinds, k)'
      <4>1. events[b].sub = q
        BY <1>6 DEF Tells, Processed
      <4>. QED
        BY <1>1, <1>2, <2>2, <3>2, <4>1 DEF Adds
    <3>6. ASSUME GoesOn(c, b, j) PROVE GoesOn(c, b, k)'
      <4>. DEFINE i == delivery[c].event
      <4>1. Succeeds(i, b)' /\ delivery'[c].pc \in {"read", "write"} /\ events[i].sub = q
        BY <1>1, <3>2, <3>6 DEF GoesOn, Handling
      <4>2. \A h \in DOMAIN events' : h < i /\ events'[h].sub = events'[i].sub => h \in recorded'
        BY <3>6, <4>1 DEF GoesOn
      <4>3. DeliveryAt(c, "read")' /\ Handling(c)'.kind = "PRODUCT_CHANGE" /\ Handling(c)'.sub \notin Named =>
              \A h \in DOMAIN rows' : rows'[h].store = Handling(c)'.sub => rows'[h].product # Handling(c)'.product
        BY <2>3, <3>2, <3>6 DEF GoesOn
      <4>4. DeliveryAt(c, "write")' =>
              /\ Says(delivery[c].row, delivery[c].event, {})'
              /\ Handling(c)'.kind # "INITIAL_PURCHASE" => delivery'[c].row.id = rows'[k].id
        BY <1>2, <2>2, <3>2, <3>6 DEF GoesOn
      <4>. QED
        BY <3>2, <4>1, <4>2, <4>3, <4>4 DEF GoesOn
    <3>. QED
      BY <3>1, <3>4, <3>5, <3>6 DEF Continues
  <2>. QED
    BY <2>7, <2>8, <2>9 DEF Tells
<1>7. DOMAIN events' = DOMAIN events
  OBVIOUS
<1>8. \/ Untouched(q)
      \/ \E b \in DOMAIN events, kinds \in SUBSET Unordered, k \in DOMAIN rows : Tells(q, b, kinds, k)
  BY DEF InTune
<1>9. \/ Untouched(q)'
      \/ \E b \in DOMAIN events', kinds \in SUBSET Unordered, k \in DOMAIN rows' : Tells(q, b, kinds, k)'
  BY <1>5, <1>6, <1>7, <1>8
<1>. QED
  BY <1>4, <1>9 DEF InTune

\* An event taken up in its turn repeats, adds to or goes on from what the row says.
LEMMA CheckFits ==
    ASSUME SubscriptionsTypeOK, HistoryFits, NEW d \in Deliveries, NEW s \in Subs, NEW i \in DOMAIN events,
           events[i].sub = s, ~OutOfTurn(d, i), ~Returns(events[i]), DeliveryAt(d, "idle"),
           delivery' = [delivery EXCEPT ![d] = [pc |-> "read", event |-> i, row |-> NoRowYet]],
           events' = events, recorded' = recorded, rows' = rows, InTune(s)
    PROVE  InTune(s)'
<1>1. /\ \A j \in DOMAIN events : i \in Nat /\ j \in Nat
      /\ \A k \in DOMAIN rows : k \in Nat
      /\ delivery \in [Deliveries -> [pc : {"idle", "read", "write", "record"}, event : Nat,
                                      row : Rows \cup {NoRowYet}]]
  BY Positions DEF SubscriptionsTypeOK
<1>2. \A j \in DOMAIN events :
         events[j].sub = s /\ (Base(i) \/ Base(j)) => (j < i => j \in recorded) /\ (j > i => i \notin recorded)
  BY DEF OutOfTurn, Commute, Base
<1>3. \A o \in Deliveries : ~Handles(o, s)
  BY DEF OutOfTurn, Handles, Busy, DeliveryAt
<1>4. /\ delivery'[d] = [pc |-> "read", event |-> i, row |-> NoRowYet]
      /\ \A o \in Deliveries \ {d} : delivery'[o] = delivery[o]
  BY <1>1
<1>5. /\ delivery'[d].pc = "read" /\ delivery'[d].event = i /\ Handling(d)' = events[i]
      /\ ~DeliveryAt(d, "write")' /\ ~DeliveryAt(d, "record")' /\ DeliveryAt(d, "read")'
  BY <1>4 DEF Handling, DeliveryAt
<1>6. \A o \in Deliveries : Handles(o, s)' => o = d
  BY <1>3, <1>4 DEF Handles, Handling, Busy
<1>7. \A c, j : /\ (Leads(c, j)' <=> Leads(c, j)) /\ (Succeeds(j, c)' <=> Succeeds(j, c))
                /\ (First(j)' <=> First(j)) /\ (Base(j)' <=> Base(j)) /\ Since(c)' = Since(c)
  BY DEF Leads, Succeeds, First, Base, Since
<1>8. \A r, c, kinds : Says(r, c, kinds)' <=> Says(r, c, kinds)
  BY DEF Says, SameTerms
<1>9. Alone(s)'
  BY <1>6 DEF Alone
<1>10. EventFits(i)
  BY DEF HistoryFits
<1>11. ASSUME Untouched(s) PROVE Untouched(s)'
  <2>1. First(i)
    <3>1. \A c \in DOMAIN events : c < i /\ events[c].sub = s => ~Base(c)
      BY <1>2, <1>11 DEF Untouched
    <3>. QED
      BY <1>10, <3>1 DEF EventFits, Follows, Leads, Succeeds
  <2>2. /\ \A k \in DOMAIN rows' : rows'[k].store # s
        /\ \A j \in recorded' : events'[j].sub # s
    BY <1>11 DEF Untouched
  <2>3. \A o \in Deliveries : Handles(o, s)' =>
           /\ delivery'[o].pc = "read" /\ First(delivery[o].event)' /\ ~DeliveryAt(o, "write")'
    <3>1. First(delivery[d].event)'
      BY <1>5, <2>1 DEF First
    <3>. QED
      BY <1>5, <1>6, <3>1
  <2>. QED
    BY <2>2, <2>3 DEF Untouched
<1>12. ASSUME NEW b \in DOMAIN events, NEW kinds \in SUBSET Unordered, NEW k \in DOMAIN rows, Tells(s, b, kinds, k)
       PROVE  Tells(s, b, kinds, k)'
  <2>1. /\ events[b].sub = s /\ Base(b) /\ kinds \subseteq Since(b) /\ (kinds # {} => b \in recorded)
        /\ \A j \in DOMAIN events : events[j].sub = s =>
              /\ j < b => j \in recorded
              /\ b < j /\ j \in recorded => Leads(b, j)
        /\ RowSays(s, b, kinds, k)
    BY <1>12 DEF Tells, Processed
  <2>2. RowSays(s, b, kinds, k)'
    BY <1>8, <2>1 DEF RowSays, LatestRow
  <2>3. Processed(s, b, kinds)'
    BY <1>7, <1>12 DEF Tells, Processed
  <2>4. ~(i < b)
    BY <1>2, <2>1
  <2>5. i = b => kinds = {}
    <3>1. ASSUME NEW x \in kinds PROVE \E j \in DOMAIN events : b < j /\ events[j].sub = s
      BY <2>1, <3>1 DEF Since, Leads
    <3>. QED
      BY <1>2, <2>1, <3>1
  <2>6. CASE i = b
    <3>1. Repeats(d, b, kinds, k)'
      BY <1>5, <2>5, <2>6 DEF Repeats
    <3>. QED
      BY <1>6, <2>2, <2>3, <3>1 DEF Tells, Continues
  <2>7. CASE i > b
    <3>1. \A c \in DOMAIN events : b < c /\ c < i /\ events[c].sub = s => ~Base(c)
      <4>1. \A c \in DOMAIN events : Leads(b, c) /\ b < c => ~Base(c)
        BY <1>1 DEF Leads
      <4>. QED
        BY <1>2, <2>1, <4>1
    <3>2. b \in recorded
      BY <1>2, <2>1, <2>7
    <3>3. CASE ~Base(i)
      <4>1. Leads(b, i)
        BY <1>1, <2>1, <2>7, <3>1, <3>3 DEF Leads
      <4>2. Adds(d, b, kinds, k)'
        <5>1. Leads(b, delivery[d].event)'
          BY <1>5, <4>1 DEF Leads, Base
        <5>. QED
          BY <1>5, <2>7, <3>2, <5>1 DEF Adds
      <4>. QED
        BY <1>6, <2>2, <2>3, <4>2 DEF Tells, Continues
    <3>4. CASE Base(i)
      <4>1. Succeeds(i, b)
        BY <1>1, <2>1, <2>7, <3>1, <3>4 DEF Succeeds
      <4>2. \A j \in DOMAIN events : j < i /\ events[j].sub = s => j \in recorded
        BY <1>2, <3>4
      <4>3. ASSUME events[i].kind = "PRODUCT_CHANGE", s \notin Named,
                   NEW j \in DOMAIN rows, rows[j].store = s
            PROVE  rows[j].product # events[i].product
        <5>1. Follows(i, b)
          <6>1. ~First(i)
            BY <2>1, <2>7 DEF First
          <6>2. PICK c \in DOMAIN events : Follows(i, c)
            BY <1>10, <3>4, <6>1 DEF EventFits
          <6>3. c = b
            BY <4>1, <6>2, OneSucceeded DEF Follows
          <6>. QED
            BY <6>2, <6>3
        <5>2. rows[k].product # events[i].product /\ rows[k].store = s
          BY <2>1, <4>3, <5>1 DEF Follows, RowSays, Says, SameTerms, LatestRow
        <5>3. j = k \/ j < k
          BY <1>1, <2>1, <4>3 DEF RowSays, LatestRow
        <5>4. \A h \in DOMAIN rows : h < k /\ rows[h].store = s => rows[h].product # events[i].product
          BY <4>3, <5>2 DEF Returns, ByProduct
        <5>. QED
          BY <4>3, <5>2, <5>3, <5>4
      <4>4. GoesOn(d, b, k)'
        <5>1. Succeeds(delivery[d].event, b)'
          BY <1>5, <4>1 DEF Succeeds, Base
        <5>2. \A j \in DOMAIN events' : j < i /\ events'[j].sub = events'[i].sub => j \in recorded'
          BY <4>2
        <5>3. Handling(d)'.kind = "PRODUCT_CHANGE" /\ Handling(d)'.sub \notin Named =>
                 \A j \in DOMAIN rows' : rows'[j].store = Handling(d)'.sub => rows'[j].product # Handling(d)'.product
          BY <1>5, <4>3
        <5>. QED
          BY <1>5, <5>1, <5>2, <5>3 DEF GoesOn
      <4>. QED
        BY <1>6, <2>2, <2>3, <4>4 DEF Tells, Continues
    <3>. QED
      BY <3>3, <3>4
  <2>. QED
    BY <1>1, <2>4, <2>6, <2>7
<1>13. \/ Untouched(s)
       \/ \E b \in DOMAIN events, kinds \in SUBSET Unordered, k \in DOMAIN rows : Tells(s, b, kinds, k)
  BY DEF InTune
<1>14. \/ Untouched(s)'
       \/ \E b \in DOMAIN events', kinds \in SUBSET Unordered, k \in DOMAIN rows' : Tells(s, b, kinds, k)'
  BY <1>11, <1>12, <1>13
<1>. QED
  BY <1>9, <1>14 DEF InTune

\* A check of an event, whichever it is, keeps the types and the rows ...
LEMMA CheckKeepsRows ==
    ASSUME SubscriptionsTypeOK, RowsAgree, NEW d \in Deliveries, CheckEvent(d)
    PROVE  RowsAgree' /\ SubscriptionsTypeOK'
<1>1. PICK i \in DOMAIN events :
         /\ delivery' = [delivery EXCEPT ![d] = [pc |-> "read", event |-> i, row |-> NoRowYet]]
         /\ wild' = IF OutOfTurn(d, i) \/ Returns(events[i]) THEN wild \cup {events[i].sub} ELSE wild
  BY DEF CheckEvent
<1>2. DeliveryAt(d, "idle") /\ UNCHANGED <<today, store, events, recorded, rows>>
  BY DEF CheckEvent
<1>3. /\ i \in Nat /\ events[i].sub \in Subs
      /\ delivery \in [Deliveries -> [pc : {"idle", "read", "write", "record"}, event : Nat,
                                      row : Rows \cup {NoRowYet}]]
  BY Positions DEF SubscriptionsTypeOK, Events
<1>4. /\ delivery'[d] = [pc |-> "read", event |-> i, row |-> NoRowYet]
      /\ \A o \in Deliveries \ {d} : delivery'[o] = delivery[o]
  BY <1>1, <1>3
<1>5. SubscriptionsTypeOK'
  <2>1. wild' \subseteq Subs
    BY <1>1, <1>3 DEF SubscriptionsTypeOK
  <2>2. delivery' \in [Deliveries -> [pc : {"idle", "read", "write", "record"}, event : Nat,
                                      row : Rows \cup {NoRowYet}]]
    BY <1>1, <1>3
  <2>. QED
    BY <1>2, <2>1, <2>2 DEF SubscriptionsTypeOK
<1>6. RowsAgree'
  <2>1. /\ delivery'[d].row = NoRowYet /\ delivery'[d].event = i /\ ~DeliveryAt(d, "write")'
    BY <1>4 DEF DeliveryAt
  <2>2. \A r : RowFits(r)' <=> RowFits(r)
    BY <1>2 DEF RowFits
  <2>3. \A o \in Deliveries \ {d} : (Busy(o)' <=> Busy(o)) /\ Handling(o)' = Handling(o)
                                    /\ (DeliveryAt(o, "write")' <=> DeliveryAt(o, "write"))
    BY <1>2, <1>4 DEF Busy, Handling, DeliveryAt
  <2>4. \A k \in DOMAIN rows' : RowFits(rows[k])'
    BY <1>2, <2>2 DEF RowsAgree
  <2>5. \A j, k \in DOMAIN rows' : rows'[j].id = rows'[k].id => j = k
    BY <1>2 DEF RowsAgree
  <2>6. ASSUME NEW o \in Deliveries
        PROVE  /\ Busy(o)' => delivery'[o].event \in DOMAIN events'
               /\ DeliveryAt(o, "write")' <=> delivery'[o].row # NoRowYet
               /\ DeliveryAt(o, "write")' => RowFits(delivery[o].row)' /\ delivery'[o].row.store = Handling(o)'.sub
    <3>1. CASE o = d
      BY <1>2, <2>1, <3>1
    <3>2. CASE o # d
      <4>1. delivery'[o] = delivery[o] /\ (RowFits(delivery[o].row)' <=> RowFits(delivery[o].row))
        BY <1>2, <1>4, <3>2 DEF RowFits
      <4>. QED
        BY <1>2, <2>3, <3>2, <4>1 DEF RowsAgree
    <3>. QED
      BY <3>1, <3>2
  <2>7. \A o \in Deliveries :
           /\ Busy(o)' => delivery'[o].event \in DOMAIN events'
           /\ DeliveryAt(o, "write")' <=> delivery'[o].row # NoRowYet
           /\ DeliveryAt(o, "write")' => RowFits(delivery[o].row)' /\ delivery'[o].row.store = Handling(o)'.sub
    BY <2>6
  <2>. QED
    BY <2>4, <2>5, <2>7 DEF RowsAgree
<1>. QED
  BY <1>5, <1>6

\* ... and the tune of all that it does not make wild.
LEMMA CheckKeepsTune ==
    ASSUME SubscriptionsTypeOK, HistoryFits, RowsAgree, NEW d \in Deliveries, CheckEvent(d),
           \A s \in Subs \ wild : InTune(s)
    PROVE  RowsAgree' /\ SubscriptionsTypeOK' /\ \A s \in Subs \ wild' : InTune(s)'
<1>1. PICK i \in DOMAIN events :
         /\ delivery' = [delivery EXCEPT ![d] = [pc |-> "read", event |-> i, row |-> NoRowYet]]
         /\ wild' = IF OutOfTurn(d, i) \/ Returns(events[i]) THEN wild \cup {events[i].sub} ELSE wild
  BY DEF CheckEvent
<1>2. DeliveryAt(d, "idle") /\ UNCHANGED <<today, store, events, recorded, rows>>
  BY DEF CheckEvent
<1>3. /\ i \in Nat /\ events[i].sub \in Subs
      /\ delivery \in [Deliveries -> [pc : {"idle", "read", "write", "record"}, event : Nat,
                                      row : Rows \cup {NoRowYet}]]
  BY Positions DEF SubscriptionsTypeOK, Events
<1>4. /\ delivery'[d] = [pc |-> "read", event |-> i, row |-> NoRowYet]
      /\ \A o \in Deliveries \ {d} : delivery'[o] = delivery[o]
  BY <1>1, <1>3
<1>5. SubscriptionsTypeOK' /\ RowsAgree'
  BY CheckKeepsRows
<1>7. ASSUME NEW s \in Subs \ wild' PROVE InTune(s)'
  <2>1. InTune(s)
    BY <1>1, <1>7
  <2>2. CASE s = events[i].sub
    <3>1. ~OutOfTurn(d, i) /\ ~Returns(events[i])
      BY <1>1, <1>7, <2>2
    <3>. QED
      BY <1>1, <1>2, <2>1, <2>2, <3>1, CheckFits
  <2>3. CASE s # events[i].sub
    <3>1. ~Handles(d, s)'
      BY <1>2, <1>4, <2>3 DEF Handles, Handling
    <3>2. PICK m : Moved(s, m)
      BY <1>2, StillBeside
    <3>3. rows' \in Seq(Rows) /\ recorded \subseteq DOMAIN events /\ recorded' \subseteq DOMAIN events
      BY <1>2 DEF SubscriptionsTypeOK
    <3>4. \A j \in DOMAIN events : events[j].sub = s => (j \in recorded' <=> j \in recorded)
      BY <1>2
    <3>. QED
      BY <1>2, <1>4, <1>7, <2>1, <3>1, <3>2, <3>3, <3>4, OthersKeepTune
  <2>. QED
    BY <2>2, <2>3
<1>. QED
  BY <1>5, <1>7

-----------------------------------------------------------------------------
(* What a webhook request reads                                            *)

\* A row that matches is one of the event's subscription.
LEMMA MatchesOwn ==
    ASSUME SubscriptionsTypeOK, NEW e \in Events
    PROVE  \/ Match(e) = NoRowYet
           \/ \E j \in DOMAIN rows : Match(e) = rows[j] /\ rows[j].store = e.sub
<1>1. Answering(e) \subseteq {j \in DOMAIN rows : rows[j].store = e.sub}
  BY DEF Answering, ByIdentifier, ByProduct, ByFormer
<1>2. DOMAIN rows = 1..Len(rows) /\ Len(rows) \in Nat
  BY Positions
<1>3. CASE Answering(e) # {}
  <2>1. Max(Answering(e)) \in Answering(e)
    BY <1>1, <1>2, <1>3, MaxOfPositions
  <2>. QED
    BY <1>1, <1>3, <2>1 DEF Match
<1>. QED
  BY <1>3 DEF Match

\* The latest row is matched by its identifier, its product, or what a change leaves.
LEMMA MatchesLatest ==
    ASSUME SubscriptionsTypeOK, RowsAgree, NEW e \in Events, NEW k, LatestRow(k, e.sub),
           \/ e.sub \in Named
           \/ rows[k].product = e.product
           \/ /\ rows[k].product = e.former
              /\ \A j \in DOMAIN rows : rows[j].store = e.sub => rows[j].product # e.product
    PROVE  Match(e) = rows[k]
<1>1. k \in Answering(e)
  BY DEF Answering, ByIdentifier, ByProduct, ByFormer, RowsAgree, RowFits, LatestRow
<1>2. Answering(e) \subseteq {j \in DOMAIN rows : rows[j].store = e.sub}
  BY DEF Answering, ByIdentifier, ByProduct, ByFormer
<1>3. DOMAIN rows \subseteq Int /\ \A j \in Answering(e) : j <= k
  BY <1>2, Positions DEF LatestRow
<1>4. Max(Answering(e)) = k
  BY <1>1, <1>2, <1>3, MaxIs
<1>. QED
  BY <1>1, <1>4 DEF Match

\* Without a row of the subscription nothing matches.
LEMMA MatchesNone ==
    ASSUME SubscriptionsTypeOK, NEW e \in Events, \A j \in DOMAIN rows : rows[j].store # e.sub
    PROVE  Match(e) = NoRowYet
  BY MatchesOwn

\* No handler changes the key of a row, its store or that it was named.
LEMMA HandledKeeps ==
    ASSUME NEW r \in Rows, NEW e \in Events, NEW h, h = WithIdentity(Handled(r, e), e)
    PROVE  h \in Rows /\ h.id = r.id /\ h.store = r.store /\ (r.named => h.named)
<1>1. PICK g : g = Handled(r, e)
  OBVIOUS
<1>2. g \in Rows /\ g.id = r.id /\ g.store = r.store /\ g.named = r.named
  <2>1. CASE e.kind = "INITIAL_PURCHASE" \/ e.kind = "RENEWAL"
    BY <1>1, <2>1 DEF Handled, Purchased, Renewed, Rows, Statuses, Events
  <2>2. CASE e.kind = "CANCELLATION"
    BY <1>1, <2>2 DEF Handled, Cancelled, Rows, Statuses
  <2>3. CASE e.kind = "EXPIRATION"
    BY <1>1, <2>3 DEF Handled, Expired, Rows, Statuses
  <2>4. CASE e.kind = "BILLING_ISSUE_DETECTED"
    BY <1>1, <2>4 DEF Handled, BillingFailed, Rows, Statuses
  <2>5. CASE e.kind = "PRODUCT_CHANGE"
    BY <1>1, <2>5 DEF Handled, ProductChanged, Rows, Statuses, Events
  <2>. QED
    BY <2>1, <2>2, <2>3, <2>4, <2>5 DEF Events, Kinds
<1>3. h = [g EXCEPT !.named = g.named \/ e.sub \in Named]
  BY <1>1 DEF WithIdentity
<1>4. (g.named \/ e.sub \in Named) \in BOOLEAN
  BY <1>2 DEF Rows
<1>5. h \in Rows /\ h.id = g.id /\ h.store = g.store /\ h.named = (g.named \/ e.sub \in Named)
  <2>. HIDE DEF Rows
  <2>1. \A x \in BOOLEAN : /\ [g EXCEPT !.named = x] \in Rows
                           /\ [g EXCEPT !.named = x].id = g.id
                           /\ [g EXCEPT !.named = x].store = g.store
                           /\ [g EXCEPT !.named = x].named = x
    BY <1>2 DEF Rows
  <2>. QED
    BY <1>3, <1>4, <2>1
<1>. QED
  BY <1>2, <1>5

\* An event that says what the subscription is, on any row but one that has expired.
LEMMA HandledOpens ==
    ASSUME NEW r \in Rows, NEW i \in DOMAIN events, events[i] \in Events, Base(i),
           events[i].kind = "PRODUCT_CHANGE" => r.status # "expired",
           NEW h, h = WithIdentity(Handled(r, events[i]), events[i])
    PROVE  Says(h, i, {})
<1>1. PICK g : g = Handled(r, events[i])
  OBVIOUS
<1>2. /\ SameTerms(g, events[i]) /\ g.status = "active" /\ g.cancels = FALSE /\ g.renews = TRUE
  <2>1. CASE events[i].kind = "INITIAL_PURCHASE" \/ events[i].kind = "RENEWAL"
    BY <1>1, <2>1 DEF Handled, Purchased, Renewed, Rows, SameTerms
  <2>2. CASE events[i].kind = "PRODUCT_CHANGE"
    BY <1>1, <2>2 DEF Handled, ProductChanged, Rows, SameTerms
  <2>. QED
    BY <2>1, <2>2 DEF Events, Kinds, Base, Unordered
<1>3. /\ SameTerms(h, events[i]) /\ h.status = "active" /\ h.cancels = FALSE /\ h.renews = TRUE
  BY <1>1, <1>2 DEF WithIdentity, SameTerms
<1>. QED
  BY <1>3 DEF Says, StatusBy, RenewsBy

\* The others, on a row in tune: it says one thing more.
LEMMA HandledAdds ==
    ASSUME NEW r \in Rows, NEW e \in Events, e.kind \in Unordered,
           NEW b \in DOMAIN events, NEW kinds \in SUBSET Unordered, Says(r, b, kinds),
           NEW h, h = WithIdentity(Handled(r, e), e)
    PROVE  Says(h, b, kinds \cup {e.kind})
<1>1. PICK g : g = Handled(r, e)
  OBVIOUS
<1>2. Says(g, b, kinds \cup {e.kind})
  <2>1. SameTerms(r, events[b]) /\ r.status = StatusBy(kinds)
        /\ (r.cancels <=> "CANCELLATION" \in kinds) /\ (r.renews <=> RenewsBy(kinds))
    BY DEF Says
  <2>2. CASE e.kind = "CANCELLATION"
    <3>1. g = Cancelled(r, e)
      BY <1>1, <2>2 DEF Handled
    <3>2. /\ SameTerms(g, r) /\ g.cancels = TRUE /\ g.renews = FALSE
          /\ g.status = IF r.status # "expired" THEN "canceled" ELSE r.status
      BY <3>1 DEF Cancelled, Rows, SameTerms
    <3>. QED
      BY <2>1, <2>2, <3>2 DEF Says, SameTerms, StatusBy, RenewsBy
  <2>3. CASE e.kind = "EXPIRATION"
    <3>1. g = Expired(r, e)
      BY <1>1, <2>3 DEF Handled
    <3>2. /\ SameTerms(g, r) /\ g.cancels = r.cancels /\ g.renews = FALSE /\ g.status = "expired"
      BY <3>1 DEF Expired, Rows, SameTerms
    <3>. QED
      BY <2>1, <2>3, <3>2 DEF Says, SameTerms, StatusBy, RenewsBy
  <2>4. CASE e.kind = "BILLING_ISSUE_DETECTED"
    <3>1. g = BillingFailed(r, e)
      BY <1>1, <2>4 DEF Handled
    <3>2. /\ SameTerms(g, r) /\ g.cancels = r.cancels /\ g.renews = r.renews
          /\ g.status = IF r.status = "active" THEN "grace_period" ELSE r.status
      BY <3>1 DEF BillingFailed, Rows, SameTerms
    <3>. QED
      BY <2>1, <2>4, <3>2 DEF Says, SameTerms, StatusBy, RenewsBy
  <2>. QED
    BY <2>2, <2>3, <2>4 DEF Unordered
<1>3. /\ SameTerms(h, g) /\ h.status = g.status /\ h.cancels = g.cancels /\ h.renews = g.renews
  BY <1>1 DEF WithIdentity, SameTerms
<1>. QED
  BY <1>2, <1>3 DEF Says, SameTerms

\* What a request goes on with: a row to write, or nothing but the event's record.
Taken(d, h) ==
    LET e == Handling(d) IN
    /\ h \in Rows /\ RowFits(h) /\ h.store = e.sub
    /\ \/ Match(e) # NoRowYet /\ h = WithIdentity(Handled(Match(e), e), e) /\ h.id = Match(e).id
       \/ /\ Match(e) = NoRowYet /\ e.kind = "INITIAL_PURCHASE"
          /\ h = NewRow(<<delivery[d].event, d>>, e)

\* A delivery whose step and row are set.
LEMMA Fields ==
    ASSUME SubscriptionsTypeOK, NEW d \in Deliveries, NEW pc, NEW r
    PROVE  [delivery[d] EXCEPT !.pc = pc, !.row = r] = [pc |-> pc, event |-> delivery[d].event, row |-> r]
<1>1. PICK x : x = delivery[d]
  OBVIOUS
<1>2. PICK R : R = Rows \cup {NoRowYet}
  OBVIOUS
<1>3. x \in [pc : {"idle", "read", "write", "record"}, event : Nat, row : R]
  BY <1>1, <1>2 DEF SubscriptionsTypeOK
<1>4. PICK y : y = [x EXCEPT !.pc = pc]
  OBVIOUS
<1>5. y = [pc |-> pc, event |-> x.event, row |-> x.row]
  BY <1>3, <1>4
<1>6. PICK z : z = [y EXCEPT !.row = r]
  OBVIOUS
<1>7. z = [pc |-> pc, event |-> x.event, row |-> r]
  BY <1>5, <1>6
<1>8. [delivery[d] EXCEPT !.pc = pc, !.row = r] = z
  BY <1>1, <1>4, <1>6, Zenon
<1>. QED
  BY <1>1, <1>7, <1>8, Zenon

\* What ReadSubscriptions does: the event is dropped, or a row taken to be written.
LEMMA ReadShape ==
    ASSUME SubscriptionsTypeOK, RowsAgree, NEW d \in Deliveries, ReadSubscriptions(d)
    PROVE  \/ /\ Match(Handling(d)) = NoRowYet /\ Handling(d).kind # "INITIAL_PURCHASE"
              /\ delivery' = [delivery EXCEPT ![d] = [pc |-> "record", event |-> delivery[d].event, row |-> NoRowYet]]
           \/ \E h \in Rows : /\ Taken(d, h)
                 /\ delivery' = [delivery EXCEPT ![d] = [pc |-> "write", event |-> delivery[d].event, row |-> h]]
<1>. DEFINE e == Handling(d)
<1>. DEFINE i == delivery[d].event
<1>. DEFINE r == Match(e)
<1>0. /\ delivery[d] \in [pc : {"idle", "read", "write", "record"}, event : Nat, row : Rows \cup {NoRowYet}]
      /\ i \in DOMAIN events /\ e = events[i] /\ e \in Events /\ i \in Nat
  BY Positions DEF SubscriptionsTypeOK, ReadSubscriptions, DeliveryAt, RowsAgree, Busy, Handling
<1>2. CASE r = NoRowYet /\ e.kind # "INITIAL_PURCHASE"
  <2>1. delivery' = [delivery EXCEPT ![d] = [delivery[d] EXCEPT !.pc = "record", !.row = NoRowYet]]
    BY <1>2 DEF ReadSubscriptions
  <2>2. [delivery[d] EXCEPT !.pc = "record", !.row = NoRowYet] = [pc |-> "record", event |-> i, row |-> NoRowYet]
    BY Fields, Zenon
  <2>. QED
    BY <1>2, <2>1, <2>2
<1>3. CASE r # NoRowYet
  <2>1. PICK h : h = WithIdentity(Handled(r, e), e)
    OBVIOUS
  <2>2. delivery' = [delivery EXCEPT ![d] = [delivery[d] EXCEPT !.pc = "write", !.row = h]]
    BY <1>3, <2>1 DEF ReadSubscriptions
  <2>3. [delivery[d] EXCEPT !.pc = "write", !.row = h] = [pc |-> "write", event |-> i, row |-> h]
    BY Fields, Zenon
  <2>4. PICK j \in DOMAIN rows : r = rows[j] /\ rows[j].store = e.sub
    BY <1>0, <1>3, MatchesOwn
  <2>5. r \in Rows /\ RowFits(r)
    BY <2>4, Positions DEF RowsAgree
  <2>6. h \in Rows /\ h.id = r.id /\ h.store = r.store /\ (r.named => h.named)
    BY <1>0, <2>1, <2>5, HandledKeeps
  <2>7. RowFits(h) /\ h.store = e.sub
    BY <2>4, <2>5, <2>6 DEF RowFits
  <2>. QED
    BY <1>3, <2>1, <2>2, <2>3, <2>6, <2>7 DEF Taken
<1>4. CASE r = NoRowYet /\ e.kind = "INITIAL_PURCHASE"
  <2>1. PICK h : h = NewRow(<<i, d>>, e)
    OBVIOUS
  <2>2. delivery' = [delivery EXCEPT ![d] = [delivery[d] EXCEPT !.pc = "write", !.row = h]]
    BY <1>4, <2>1 DEF ReadSubscriptions
  <2>3. [delivery[d] EXCEPT !.pc = "write", !.row = h] = [pc |-> "write", event |-> i, row |-> h]
    BY Fields, Zenon
  <2>4. h \in Rows /\ h.store = e.sub /\ h.id = <<i, d>> /\ (h.store \in Named => h.named)
    <3>1. \A x \in BOOLEAN, y \in Subs, p, q \in Plans, t \in Days, n \in Nat :
             LET new == [id |-> <<n, d>>, store |-> y, named |-> x, product |-> p, plan |-> q, until |-> t,
                         status |-> "active", cancels |-> FALSE, renews |-> TRUE]
             IN new \in Rows /\ new.store = y /\ new.id = <<n, d>> /\ new.named = x
      BY DEF Rows, RowIds, Statuses
    <3>2. (e.sub \in Named) \in BOOLEAN /\ e.sub \in Subs /\ e.product \in Plans /\ e.plan \in Plans /\ e.until \in Days
      BY <1>0 DEF Events
    <3>3. h \in Rows /\ h.store = e.sub /\ h.id = <<i, d>> /\ h.named = (e.sub \in Named)
      BY <1>0, <2>1, <3>1, <3>2, Zenon DEF NewRow
    <3>. QED
      BY <3>3
  <2>5. RowFits(h)
    BY <1>0, <2>4 DEF RowFits
  <2>. QED
    BY <1>4, <2>1, <2>2, <2>3, <2>4, <2>5 DEF Taken
<1>. QED
  BY <1>2, <1>3, <1>4

\* A base event is a purchase, a renewal or a change; an event that is not the first
\* of its subscription follows another.
LEMMA NextFollows ==
    ASSUME SubscriptionsTypeOK, HistoryFits, NEW i \in DOMAIN events, NEW b, Succeeds(i, b)
    PROVE  Follows(i, b)
<1>1. ~First(i) /\ Base(i)
  BY DEF First, Succeeds
<1>2. PICK c \in DOMAIN events : Follows(i, c)
  BY <1>1 DEF HistoryFits, EventFits
<1>3. c = b
  BY <1>2, OneSucceeded DEF Follows
<1>. QED
  BY <1>2, <1>3

\* An event that is led has the terms of its leader.
LEMMA LedSaysTheSame ==
    ASSUME SubscriptionsTypeOK, HistoryFits, NEW i \in DOMAIN events, NEW b, b < i, Leads(b, i)
    PROVE  SameTerms(events[i], events[b]) /\ events[i].kind \in Unordered
<1>1. ~First(i) /\ ~Base(i) /\ i \in Nat /\ b \in DOMAIN events
  BY Positions DEF First, Leads
<1>2. PICK c \in DOMAIN events : Leads(c, i) /\ SameTerms(events[i], events[c])
  BY <1>1 DEF HistoryFits, EventFits, Follows, Succeeds
<1>3. c = b
  BY <1>2, OneLeads
<1>. QED
  BY <1>1, <1>2, <1>3 DEF Base

\* The kinds that say what the subscription is.
LEMMA BaseKinds ==
    ASSUME NEW i \in DOMAIN events, events[i] \in Events, Base(i)
    PROVE  events[i].kind \in {"INITIAL_PURCHASE", "RENEWAL", "PRODUCT_CHANGE"}
  BY DEF Base, Unordered, Events, Kinds

\* The row a request reads in its turn, and what it makes of it.
LEMMA ReadFits ==
    ASSUME SubscriptionsTypeOK, HistoryFits, RowsAgree, NEW d \in Deliveries, NEW i, i = delivery[d].event,
           NEW s \in Subs, NEW b \in DOMAIN events, NEW kinds \in SUBSET Unordered, NEW k \in DOMAIN rows,
           Tells(s, b, kinds, k), Handles(d, s), DeliveryAt(d, "read")
    PROVE  /\ (GoesOn(d, b, k) /\ events[i].kind = "INITIAL_PURCHASE") \/ Match(events[i]) = rows[k]
           /\ Continues(d, b, kinds, k)
           /\ \A h : Taken(d, h) =>
                 /\ Repeats(d, b, kinds, k) => Says(h, b, {})
                 /\ Adds(d, b, kinds, k) => Says(h, b, kinds \cup {events[i].kind})
                 /\ GoesOn(d, b, k) => Says(h, i, {})
<1>1. /\ i \in DOMAIN events /\ events[i] \in Events /\ Handling(d) = events[i] /\ events[i].sub = s
      /\ i \in Nat /\ b \in Nat /\ rows[k] \in Rows
  BY Positions DEF RowsAgree, Handles, Handling
<1>2. Continues(d, b, kinds, k)
  BY DEF Tells
<1>3. LatestRow(k, s) /\ Says(rows[k], b, kinds) /\ Base(b) /\ kinds \subseteq Since(b)
  BY DEF Tells, RowSays, Processed
<1>4. rows[k].product = events[b].product /\ rows[k].store = s /\ rows[k] # NoRowYet
  BY <1>1, <1>3 DEF Says, SameTerms, LatestRow, Rows, Statuses, NoRowYet
<1>5. ASSUME Repeats(d, b, kinds, k) PROVE Match(events[i]) = rows[k]
  BY <1>1, <1>3, <1>4, <1>5, MatchesLatest DEF Repeats
<1>6. ASSUME Adds(d, b, kinds, k) PROVE Match(events[i]) = rows[k] /\ events[i].kind \in Unordered
  <2>1. SameTerms(events[i], events[b]) /\ events[i].kind \in Unordered
    BY <1>1, <1>6, LedSaysTheSame DEF Adds
  <2>. QED
    BY <1>1, <1>3, <1>4, <2>1, MatchesLatest DEF SameTerms
<1>7. ASSUME GoesOn(d, b, k)
      PROVE  /\ Base(i)
             /\ events[i].kind = "INITIAL_PURCHASE" \/ Match(events[i]) = rows[k]
             /\ events[i].kind = "PRODUCT_CHANGE" => rows[k].status # "expired"
  <2>1. Follows(i, b) /\ Base(i)
    BY <1>1, <1>7, NextFollows DEF GoesOn, Succeeds
  <2>2. events[i].kind = "RENEWAL" => Match(events[i]) = rows[k]
    BY <1>1, <1>3, <1>4, <2>1, MatchesLatest DEF Follows
  <2>3. events[i].kind = "PRODUCT_CHANGE" => Match(events[i]) = rows[k] /\ rows[k].status # "expired"
    <3>1. SUFFICES ASSUME events[i].kind = "PRODUCT_CHANGE"
                   PROVE  Match(events[i]) = rows[k] /\ rows[k].status # "expired"
      OBVIOUS
    <3>2. events[i].former = events[b].product /\ "EXPIRATION" \notin Since(b)
      BY <2>1, <3>1 DEF Follows
    <3>3. s \in Named \/ \A j \in DOMAIN rows : rows[j].store = s => rows[j].product # events[i].product
      BY <1>1, <1>7, <3>1 DEF GoesOn
    <3>4. Match(events[i]) = rows[k]
      BY <1>1, <1>3, <1>4, <3>2, <3>3, MatchesLatest
    <3>5. "EXPIRATION" \notin kinds
      BY <1>3, <3>2
    <3>6. StatusBy(kinds) # "expired"
      BY <3>5 DEF StatusBy
    <3>. QED
      BY <1>3, <3>4, <3>6 DEF Says
  <2>. QED
    BY <1>1, <2>1, <2>2, <2>3, BaseKinds
<1>8. ASSUME NEW h, Taken(d, h)
      PROVE  /\ Repeats(d, b, kinds, k) => Says(h, b, {})
             /\ Adds(d, b, kinds, k) => Says(h, b, kinds \cup {events[i].kind})
             /\ GoesOn(d, b, k) => Says(h, i, {})
  <2>1. \/ Match(events[i]) # NoRowYet /\ h = WithIdentity(Handled(Match(events[i]), events[i]), events[i])
        \/ Match(events[i]) = NoRowYet /\ events[i].kind = "INITIAL_PURCHASE" /\ h = NewRow(<<i, d>>, events[i])
    BY <1>1, <1>8 DEF Taken
  <2>2. ASSUME Repeats(d, b, kinds, k) PROVE Says(h, b, {})
    <3>1. i = b /\ kinds = {} /\ h = WithIdentity(Handled(rows[k], events[i]), events[i])
      BY <1>4, <1>5, <2>1, <2>2 DEF Repeats
    <3>2. rows[k].status # "expired"
      BY <1>3, <3>1 DEF Says, StatusBy
    <3>. QED
      BY <1>1, <1>3, <3>1, <3>2, HandledOpens
  <2>3. ASSUME Adds(d, b, kinds, k) PROVE Says(h, b, kinds \cup {events[i].kind})
    <3>1. h = WithIdentity(Handled(rows[k], events[i]), events[i]) /\ events[i].kind \in Unordered
      BY <1>4, <1>6, <2>1, <2>3
    <3>. QED
      BY <1>1, <1>3, <3>1, HandledAdds
  <2>4. ASSUME GoesOn(d, b, k) PROVE Says(h, i, {})
    <3>1. CASE Match(events[i]) # NoRowYet
      <4>1. h = WithIdentity(Handled(Match(events[i]), events[i]), events[i]) /\ Match(events[i]) \in Rows
        <5>1. h = WithIdentity(Handled(Match(events[i]), events[i]), events[i])
          BY <2>1, <3>1
        <5>2. Match(events[i]) \in Rows
          BY <1>1, <3>1, MatchesOwn, Positions
        <5>. QED
          BY <5>1, <5>2
      <4>2. /\ Base(i)
            /\ events[i].kind = "PRODUCT_CHANGE" => Match(events[i]).status # "expired"
        <5>1. events[i].kind = "PRODUCT_CHANGE" => events[i].kind # "INITIAL_PURCHASE"
          OBVIOUS
        <5>. QED
          BY <1>7, <2>4, <5>1
      <4>. QED
        BY <1>1, <4>1, <4>2, HandledOpens
    <3>2. CASE Match(events[i]) = NoRowYet
      <4>1. h = NewRow(<<i, d>>, events[i])
        BY <2>1, <3>2
      <4>. QED
        BY <4>1 DEF NewRow, Says, SameTerms, StatusBy, RenewsBy
    <3>. QED
      BY <3>1, <3>2
  <2>. QED
    BY <2>2, <2>3, <2>4
<1>9. (GoesOn(d, b, k) /\ events[i].kind = "INITIAL_PURCHASE") \/ Match(events[i]) = rows[k]
  BY <1>2, <1>5, <1>6, <1>7 DEF Continues
<1>. QED
  BY <1>2, <1>8, <1>9

\* What a step of one request leaves as it was in all the others.
LEMMA OthersKeepRows ==
    ASSUME SubscriptionsTypeOK, RowsAgree, NEW d \in Deliveries, events' = events, rows' = rows,
           \A o \in Deliveries \ {d} : delivery'[o] = delivery[o],
           Busy(d)' => delivery'[d].event \in DOMAIN events,
           DeliveryAt(d, "write")' <=> delivery'[d].row # NoRowYet,
           DeliveryAt(d, "write")' => RowFits(delivery[d].row)' /\ delivery'[d].row.store = Handling(d)'.sub
    PROVE  RowsAgree'
<1>1. \A k \in DOMAIN rows' : RowFits(rows[k])'
  BY DEF RowsAgree, RowFits
<1>2. \A j, k \in DOMAIN rows' : rows'[j].id = rows'[k].id => j = k
  BY DEF RowsAgree
<1>3. ASSUME NEW o \in Deliveries
      PROVE  /\ Busy(o)' => delivery'[o].event \in DOMAIN events'
             /\ DeliveryAt(o, "write")' <=> delivery'[o].row # NoRowYet
             /\ DeliveryAt(o, "write")' => RowFits(delivery[o].row)' /\ delivery'[o].row.store = Handling(o)'.sub
  <2>1. CASE o = d
    BY <2>1
  <2>2. CASE o # d
    <3>1. /\ delivery'[o] = delivery[o] /\ (Busy(o)' <=> Busy(o)) /\ Handling(o)' = Handling(o)
          /\ (DeliveryAt(o, "write")' <=> DeliveryAt(o, "write"))
          /\ (RowFits(delivery[o].row)' <=> RowFits(delivery[o].row))
      BY <2>2 DEF RowFits, Busy, Handling, DeliveryAt
    <3>. QED
      BY <3>1 DEF RowsAgree
  <2>. QED
    BY <2>1, <2>2
<1>4. \A o \in Deliveries :
         /\ Busy(o)' => delivery'[o].event \in DOMAIN events'
         /\ DeliveryAt(o, "write")' <=> delivery'[o].row # NoRowYet
         /\ DeliveryAt(o, "write")' => RowFits(delivery[o].row)' /\ delivery'[o].row.store = Handling(o)'.sub
  BY <1>3
<1>. QED
  BY <1>1, <1>2, <1>4 DEF RowsAgree

\* Reading keeps the types and the rows ...
LEMMA ReadKeepsRows ==
    ASSUME SubscriptionsTypeOK, RowsAgree, NEW d \in Deliveries, ReadSubscriptions(d)
    PROVE  SubscriptionsTypeOK' /\ RowsAgree'
<1>0. /\ UNCHANGED <<today, store, events, recorded, rows, wild>>
      /\ delivery[d].event \in DOMAIN events
  BY DEF ReadSubscriptions, DeliveryAt, RowsAgree, Busy
<1>1. /\ delivery \in [Deliveries -> [pc : {"idle", "read", "write", "record"}, event : Nat,
                                      row : Rows \cup {NoRowYet}]]
      /\ delivery[d].event \in Nat
  BY <1>0, Positions DEF SubscriptionsTypeOK
<1>2. ASSUME NEW x, delivery' = [delivery EXCEPT ![d] = x],
             x \in [pc : {"idle", "read", "write", "record"}, event : Nat, row : Rows \cup {NoRowYet}],
             x.event = delivery[d].event, x.pc = "write" <=> x.row # NoRowYet,
             x.pc = "write" => RowFits(x.row) /\ x.row.store = Handling(d).sub
      PROVE  SubscriptionsTypeOK' /\ RowsAgree'
  <2>1. delivery'[d] = x /\ \A o \in Deliveries \ {d} : delivery'[o] = delivery[o]
    BY <1>1, <1>2
  <2>2. SubscriptionsTypeOK'
    <3>1. delivery' \in [Deliveries -> [pc : {"idle", "read", "write", "record"}, event : Nat,
                                        row : Rows \cup {NoRowYet}]]
      BY <1>1, <1>2
    <3>. QED
      BY <1>0, <3>1 DEF SubscriptionsTypeOK
  <2>3. /\ Busy(d)' => delivery'[d].event \in DOMAIN events
        /\ DeliveryAt(d, "write")' <=> delivery'[d].row # NoRowYet
        /\ DeliveryAt(d, "write")' => RowFits(delivery[d].row)' /\ delivery'[d].row.store = Handling(d)'.sub
    BY <1>0, <1>2, <2>1 DEF Handling, DeliveryAt, RowFits
  <2>4. RowsAgree'
    BY <1>0, <2>1, <2>3, OthersKeepRows
  <2>. QED
    BY <2>2, <2>4
<1>3. CASE delivery' = [delivery EXCEPT ![d] = [pc |-> "record", event |-> delivery[d].event, row |-> NoRowYet]]
  <2>1. PICK x : x = [pc |-> "record", event |-> delivery[d].event, row |-> NoRowYet]
    OBVIOUS
  <2>2. x \in [pc : {"idle", "read", "write", "record"}, event : Nat, row : Rows \cup {NoRowYet}]
    BY <1>1, <2>1
  <2>3. x.pc = "record" /\ x.event = delivery[d].event /\ x.row = NoRowYet
    BY <2>1
  <2>. QED
    BY <1>2, <1>3, <2>1, <2>2, <2>3
<1>4. ASSUME NEW h \in Rows, Taken(d, h),
             delivery' = [delivery EXCEPT ![d] = [pc |-> "write", event |-> delivery[d].event, row |-> h]]
      PROVE  SubscriptionsTypeOK' /\ RowsAgree'
  <2>1. PICK x : x = [pc |-> "write", event |-> delivery[d].event, row |-> h]
    OBVIOUS
  <2>2. x \in [pc : {"idle", "read", "write", "record"}, event : Nat, row : Rows \cup {NoRowYet}]
    BY <1>1, <2>1
  <2>3. x.pc = "write" /\ x.event = delivery[d].event /\ x.row = h
    BY <2>1
  <2>4. h # NoRowYet /\ RowFits(h) /\ h.store = Handling(d).sub
    <3>1. h.status # "none"
      BY DEF Rows, Statuses
    <3>. QED
      BY <1>4, <3>1 DEF Taken, NoRowYet
  <2>. QED
    BY <1>2, <1>4, <2>1, <2>2, <2>3, <2>4
<1>. QED
  BY <1>3, <1>4, ReadShape

\* ... and the tune: the row it takes is the one its event goes on from, repeats or adds to.
LEMMA ReadKeepsTune ==
    ASSUME SubscriptionsTypeOK, HistoryFits, RowsAgree, NEW d \in Deliveries, ReadSubscriptions(d),
           NEW s \in Subs, InTune(s)
    PROVE  InTune(s)'
<1>. DEFINE i == delivery[d].event
<1>0. /\ UNCHANGED <<today, store, events, recorded, rows, wild>>
      /\ DeliveryAt(d, "read") /\ Busy(d)
      /\ i \in DOMAIN events /\ Handling(d) = events[i] /\ events[i] \in Events
  BY Positions DEF ReadSubscriptions, DeliveryAt, RowsAgree, Busy, Handling
<1>1. /\ delivery \in [Deliveries -> [pc : {"idle", "read", "write", "record"}, event : Nat,
                                      row : Rows \cup {NoRowYet}]]
  BY DEF SubscriptionsTypeOK
<1>2. PICK x :
         /\ delivery' = [delivery EXCEPT ![d] = x] /\ x.event = i
         /\ \/ /\ Match(events[i]) = NoRowYet /\ events[i].kind # "INITIAL_PURCHASE" /\ x.pc = "record"
            \/ x.pc = "write" /\ Taken(d, x.row)
  <2>1. CASE /\ Match(Handling(d)) = NoRowYet /\ Handling(d).kind # "INITIAL_PURCHASE"
             /\ delivery' = [delivery EXCEPT ![d] = [pc |-> "record", event |-> i, row |-> NoRowYet]]
    <3>1. PICK x : x = [pc |-> "record", event |-> i, row |-> NoRowYet]
      OBVIOUS
    <3>2. x.pc = "record" /\ x.event = i
      BY <3>1
    <3>. QED
      BY <1>0, <2>1, <3>1, <3>2
  <2>2. ASSUME NEW h, Taken(d, h),
               delivery' = [delivery EXCEPT ![d] = [pc |-> "write", event |-> i, row |-> h]]
        PROVE  \E x : /\ delivery' = [delivery EXCEPT ![d] = x] /\ x.event = i
                      /\ x.pc = "write" /\ Taken(d, x.row)
    <3>1. PICK x : x = [pc |-> "write", event |-> i, row |-> h]
      OBVIOUS
    <3>2. x.pc = "write" /\ x.event = i /\ x.row = h
      BY <3>1
    <3>. QED
      BY <2>2, <3>1, <3>2
  <2>. QED
    BY <2>1, <2>2, ReadShape
<1>3. delivery'[d] = x /\ \A o \in Deliveries \ {d} : delivery'[o] = delivery[o]
  BY <1>1, <1>2
<1>4. CASE s # events[i].sub
  <2>1. ~Handles(d, s)'
    BY <1>0, <1>2, <1>3, <1>4 DEF Handles, Handling
  <2>2. PICK m : Moved(s, m)
    BY <1>0, StillBeside
  <2>3. rows' \in Seq(Rows) /\ recorded \subseteq DOMAIN events /\ recorded' \subseteq DOMAIN events
    BY <1>0 DEF SubscriptionsTypeOK
  <2>4. \A j \in DOMAIN events : events[j].sub = s => (j \in recorded' <=> j \in recorded)
    BY <1>0
  <2>. QED
    BY <1>0, <1>3, <2>1, <2>2, <2>3, <2>4, OthersKeepTune
<1>5. CASE s = events[i].sub
  <2>0. Handles(d, s) /\ \A o \in Deliveries : Handles(o, s) => o = d
    BY <1>0, <1>5 DEF Handles, InTune, Alone
  <2>1. \A o \in Deliveries : Handles(o, s)' => o = d
    BY <1>0, <1>3, <2>0 DEF Handles, Handling, Busy
  <2>2. Alone(s)'
    BY <2>1 DEF Alone
  <2>3. /\ delivery'[d].event = i /\ Handling(d)' = events[i]
        /\ ~DeliveryAt(d, "read")'
        /\ \/ /\ Match(events[i]) = NoRowYet /\ events[i].kind # "INITIAL_PURCHASE" /\ ~DeliveryAt(d, "write")'
           \/ DeliveryAt(d, "write")' /\ ~DeliveryAt(d, "record")' /\ Taken(d, x.row)
    BY <1>0, <1>2, <1>3 DEF Handling, DeliveryAt
  <2>4. \A c, j : /\ (Leads(c, j)' <=> Leads(c, j)) /\ (Succeeds(j, c)' <=> Succeeds(j, c))
                  /\ (First(j)' <=> First(j)) /\ (Base(j)' <=> Base(j)) /\ Since(c)' = Since(c)
    BY <1>0 DEF Leads, Succeeds, First, Base, Since
  <2>5. \A r, c, kinds : Says(r, c, kinds)' <=> Says(r, c, kinds)
    BY <1>0 DEF Says, SameTerms
  <2>6. ASSUME Untouched(s) PROVE Untouched(s)'
    <3>1. First(i) /\ events[i].kind = "INITIAL_PURCHASE"
      <4>1. First(i)
        BY <2>0, <2>6 DEF Untouched
      <4>2. EventFits(i)
        BY <1>0 DEF HistoryFits
      <4>. QED
        BY <4>1, <4>2 DEF EventFits, Follows, First, Leads, Succeeds
    <3>2. Match(events[i]) = NoRowYet
      BY <1>0, <1>5, <2>6, MatchesNone DEF Untouched
    <3>3. DeliveryAt(d, "write")' /\ Says(x.row, i, {})
      <4>1. x.row = NewRow(<<i, d>>, events[i]) /\ DeliveryAt(d, "write")'
        BY <1>0, <2>3, <3>1, <3>2 DEF Taken
      <4>. QED
        BY <4>1 DEF NewRow, Says, SameTerms, StatusBy, RenewsBy
    <3>4. \A o \in Deliveries : Handles(o, s)' =>
             /\ delivery'[o].pc \in {"read", "write"} /\ First(delivery[o].event)'
             /\ DeliveryAt(o, "write")' => Says(delivery[o].row, delivery[o].event, {})'
      <4>1. delivery'[d].pc = "write" /\ First(delivery[d].event)'
        BY <1>0, <2>3, <3>1, <3>3 DEF DeliveryAt, First
      <4>2. Says(delivery[d].row, delivery[d].event, {})'
        BY <1>0, <1>3, <2>3, <3>3 DEF Says, SameTerms
      <4>. QED
        BY <2>1, <4>1, <4>2
    <3>. QED
      BY <1>0, <2>6, <3>4 DEF Untouched
  <2>7. ASSUME NEW b \in DOMAIN events, NEW kinds \in SUBSET Unordered, NEW k \in DOMAIN rows, Tells(s, b, kinds, k)
        PROVE  Tells(s, b, kinds, k)'
    <3>1. RowSays(s, b, kinds, k)'
      BY <1>0, <2>5, <2>7 DEF Tells, RowSays, LatestRow
    <3>2. Processed(s, b, kinds)'
      BY <1>0, <2>4, <2>7 DEF Tells, Processed
    <3>3. rows[k] # NoRowYet
      BY Positions DEF Rows, Statuses, NoRowYet
    <3>4. /\ (GoesOn(d, b, k) /\ events[i].kind = "INITIAL_PURCHASE") \/ Match(events[i]) = rows[k]
          /\ Continues(d, b, kinds, k)
          /\ \A h : Taken(d, h) =>
                /\ Repeats(d, b, kinds, k) => Says(h, b, {})
                /\ Adds(d, b, kinds, k) => Says(h, b, kinds \cup {events[i].kind})
                /\ GoesOn(d, b, k) => Says(h, i, {})
      BY <1>0, <2>0, <2>7, ReadFits
    <3>5. DeliveryAt(d, "write")' /\ ~DeliveryAt(d, "record")' /\ Taken(d, x.row)
      BY <2>3, <3>3, <3>4
    <3>6. Match(events[i]) = rows[k] => x.row.id = rows[k].id
      BY <1>0, <3>3, <3>5 DEF Taken
    <3>7. \A r : Says(delivery[d].row, b, r)' <=> Says(x.row, b, r)
      BY <1>0, <1>3 DEF Says, SameTerms
    <3>8. Continues(d, b, kinds, k)'
      <4>1. ASSUME Repeats(d, b, kinds, k), Match(events[i]) = rows[k] PROVE Repeats(d, b, kinds, k)'
        BY <1>0, <1>3, <2>3, <3>4, <3>5, <3>6, <3>7, <4>1 DEF Repeats
      <4>2. ASSUME Adds(d, b, kinds, k), Match(events[i]) = rows[k] PROVE Adds(d, b, kinds, k)'
        <5>1. Leads(b, delivery[d].event)'
          BY <1>0, <2>3, <4>2 DEF Adds, Leads, Base
        <5>. QED
          BY <1>0, <1>3, <2>3, <3>4, <3>5, <3>6, <3>7, <4>2, <5>1 DEF Adds
      <4>3. ASSUME GoesOn(d, b, k) PROVE GoesOn(d, b, k)'
        <5>1. Succeeds(delivery[d].event, b)'
          BY <1>0, <2>3, <4>3 DEF GoesOn, Succeeds, Base
        <5>2. \A j \in DOMAIN events' : j < i /\ events'[j].sub = events'[i].sub => j \in recorded'
          BY <1>0, <4>3 DEF GoesOn
        <5>3. Says(delivery[d].row, delivery[d].event, {})'
          BY <1>0, <1>3, <2>3, <3>4, <3>5, <4>3 DEF Says, SameTerms
        <5>4. events[i].kind # "INITIAL_PURCHASE" => delivery'[d].row.id = rows'[k].id
          BY <1>0, <1>3, <3>4, <3>6
        <5>5. delivery'[d].pc = "write"
          BY <3>5 DEF DeliveryAt
        <5>. QED
          BY <2>3, <5>1, <5>2, <5>3, <5>4, <5>5 DEF GoesOn
      <4>4. \/ Repeats(d, b, kinds, k) /\ Match(events[i]) = rows[k]
            \/ Adds(d, b, kinds, k) /\ Match(events[i]) = rows[k]
            \/ GoesOn(d, b, k)
        BY <3>4 DEF Continues
      <4>. QED
        BY <4>1, <4>2, <4>3, <4>4 DEF Continues
    <3>. QED
      BY <2>1, <3>1, <3>2, <3>8 DEF Tells
  <2>8. \/ Untouched(s)
        \/ \E b \in DOMAIN events, kinds \in SUBSET Unordered, k \in DOMAIN rows : Tells(s, b, kinds, k)
    BY DEF InTune
  <2>9. \/ Untouched(s)'
        \/ \E b \in DOMAIN events', kinds \in SUBSET Unordered, k \in DOMAIN rows' : Tells(s, b, kinds, k)'
    BY <1>0, <2>6, <2>7, <2>8
  <2>. QED
    BY <2>2, <2>9 DEF InTune
<1>. QED
  BY <1>4, <1>5

-----------------------------------------------------------------------------
(* What it writes                                                          *)

\* What WriteSubscription does to the requests and the rows.
LEMMA WriteShape ==
    ASSUME SubscriptionsTypeOK, RowsAgree, NEW d \in Deliveries, WriteSubscription(d)
    PROVE  /\ SubscriptionsTypeOK'
           /\ delivery[d].event \in DOMAIN events /\ Handling(d) = events[delivery[d].event]
           /\ Handling(d) \in Events
           /\ delivery[d].row \in Rows /\ RowFits(delivery[d].row) /\ delivery[d].row.store = Handling(d).sub
           /\ delivery'[d] = [pc |-> "record", event |-> delivery[d].event, row |-> NoRowYet]
           /\ \A o \in Deliveries \ {d} : delivery'[o] = delivery[o]
           /\ Len(rows') \in Nat \ {0} /\ DOMAIN rows' = 1..Len(rows') /\ rows'[Len(rows')] = delivery[d].row
           /\ \E m : Reordered(delivery[d].row, m)
<1>0. /\ UNCHANGED <<today, store, events, recorded, wild>> /\ DeliveryAt(d, "write") /\ Busy(d)
      /\ delivery' = [delivery EXCEPT ![d] = [delivery[d] EXCEPT !.pc = "record", !.row = NoRowYet]]
      /\ rows' = Append(Without(delivery[d].row.id), delivery[d].row)
  BY DEF WriteSubscription, DeliveryAt, Busy
<1>1. /\ delivery \in [Deliveries -> [pc : {"idle", "read", "write", "record"}, event : Nat,
                                      row : Rows \cup {NoRowYet}]]
  BY DEF SubscriptionsTypeOK
<1>2. /\ delivery[d].event \in DOMAIN events /\ Handling(d) = events[delivery[d].event]
      /\ Handling(d) \in Events
  BY <1>0, Positions DEF RowsAgree, Handling
<1>3. delivery[d].row \in Rows /\ RowFits(delivery[d].row) /\ delivery[d].row.store = Handling(d).sub
  BY <1>0, <1>1 DEF RowsAgree
<1>4. PICK x : x = [pc |-> "record", event |-> delivery[d].event, row |-> NoRowYet]
  OBVIOUS
<1>5. delivery' = [delivery EXCEPT ![d] = x]
  BY <1>0, <1>4, Fields, Zenon
<1>6. x \in [pc : {"idle", "read", "write", "record"}, event : Nat, row : Rows \cup {NoRowYet}]
  BY <1>1, <1>4
<1>7. /\ delivery' \in [Deliveries -> [pc : {"idle", "read", "write", "record"}, event : Nat,
                                       row : Rows \cup {NoRowYet}]]
      /\ delivery'[d] = x /\ \A o \in Deliveries \ {d} : delivery'[o] = delivery[o]
  BY <1>1, <1>5, <1>6
<1>8. /\ rows' \in Seq(Rows) /\ Len(rows') \in Nat \ {0} /\ rows'[Len(rows')] = delivery[d].row
      /\ \E m : Reordered(delivery[d].row, m)
  BY <1>0, <1>3, Put DEF SubscriptionsTypeOK, RowsAgree
<1>9. DOMAIN rows' = 1..Len(rows')
  BY <1>8, LenProperties
<1>10. SubscriptionsTypeOK'
  BY <1>0, <1>7, <1>8 DEF SubscriptionsTypeOK
<1>. QED
  BY <1>2, <1>3, <1>4, <1>7, <1>8, <1>9, <1>10

\* The put keeps the rows' keys apart ...
LEMMA WriteKeepsRows ==
    ASSUME SubscriptionsTypeOK, RowsAgree, NEW d \in Deliveries, WriteSubscription(d)
    PROVE  RowsAgree'
<1>. DEFINE new == delivery[d].row
<1>. DEFINE n == Len(rows')
<1>1. /\ delivery[d].event \in DOMAIN events /\ RowFits(new)
      /\ delivery'[d] = [pc |-> "record", event |-> delivery[d].event, row |-> NoRowYet]
      /\ \A o \in Deliveries \ {d} : delivery'[o] = delivery[o]
      /\ n \in Nat \ {0} /\ DOMAIN rows' = 1..n /\ rows'[n] = new
      /\ events' = events
  BY WriteShape DEF WriteSubscription
<1>2. PICK m : Reordered(new, m)
  BY WriteShape
<1>3. /\ m \in [1..n - 1 -> DOMAIN rows]
      /\ \A j, k \in 1..n - 1 : j < k => m[j] < m[k]
      /\ \A k \in 1..n - 1 : rows'[k] = rows[m[k]] /\ rows[m[k]].id # new.id
  BY <1>2 DEF Reordered
<1>4. \A r : RowFits(r)' <=> RowFits(r)
  BY <1>1 DEF RowFits
<1>5. \A k \in DOMAIN rows' : k = n \/ k \in 1..n - 1
  BY <1>1
<1>6. \A k \in DOMAIN rows' : RowFits(rows[k])'
  <2>1. \A r : (\E k \in DOMAIN rows' : r = rows'[k]) => RowFits(r)
    BY <1>1, <1>3, <1>5 DEF RowsAgree
  <2>2. \A r : (\E k \in DOMAIN rows' : r = rows'[k]) => RowFits(r)'
    BY <1>4, <2>1
  <2>3. ASSUME NEW k \in DOMAIN rows' PROVE RowFits(rows[k])'
    <3>1. PICK r : r = rows'[k]
      OBVIOUS
    <3>2. /\ r.id[1] \in DOMAIN events' /\ events'[r.id[1]].sub = r.store
          /\ r.store \in Named => r.named
      BY <2>2, <3>1 DEF RowFits
    <3>. QED
      BY <3>1, <3>2 DEF RowFits
  <2>. QED
    BY <2>3
<1>7. \A j, k \in DOMAIN rows' : rows'[j].id = rows'[k].id => j = k
  <2>1. \A j, k \in 1..n - 1 : rows'[j].id = rows'[k].id => j = k
    <3>1. \A j, k \in 1..n - 1 : rows'[j].id = rows'[k].id => m[j] = m[k]
      BY <1>3 DEF RowsAgree
    <3>2. \A j \in 1..n - 1 : m[j] \in Nat
      BY <1>3, Positions
    <3>. QED
      BY <1>1, <1>3, <3>1, <3>2
  <2>. QED
    BY <1>1, <1>3, <1>5, <2>1
<1>8. ASSUME NEW o \in Deliveries
      PROVE  /\ Busy(o)' => delivery'[o].event \in DOMAIN events'
             /\ DeliveryAt(o, "write")' <=> delivery'[o].row # NoRowYet
             /\ DeliveryAt(o, "write")' => RowFits(delivery[o].row)' /\ delivery'[o].row.store = Handling(o)'.sub
  <2>1. CASE o = d
    BY <1>1, <2>1 DEF DeliveryAt
  <2>2. CASE o # d
    <3>1. /\ delivery'[o] = delivery[o] /\ (Busy(o)' <=> Busy(o)) /\ Handling(o)' = Handling(o)
          /\ (DeliveryAt(o, "write")' <=> DeliveryAt(o, "write"))
          /\ (RowFits(delivery[o].row)' <=> RowFits(delivery[o].row))
      BY <1>1, <2>2 DEF RowFits, Busy, Handling, DeliveryAt
    <3>. QED
      BY <1>1, <3>1 DEF RowsAgree
  <2>. QED
    BY <2>1, <2>2
<1>9. \A o \in Deliveries :
         /\ Busy(o)' => delivery'[o].event \in DOMAIN events'
         /\ DeliveryAt(o, "write")' <=> delivery'[o].row # NoRowYet
         /\ DeliveryAt(o, "write")' => RowFits(delivery[o].row)' /\ delivery'[o].row.store = Handling(o)'.sub
  BY <1>8
<1>. QED
  BY <1>6, <1>7, <1>9 DEF RowsAgree

\* The row put is the latest of its subscription, and the others are over if they
\* were or if it took the place of the one that was not.
LEMMA PutLeads ==
    ASSUME SubscriptionsTypeOK, RowsAgree, NEW s, NEW n \in Nat \ {0}, NEW new, NEW m, NEW b, NEW kinds,
           n = Len(rows'), DOMAIN rows' = 1..n, rows'[n] = new, Reordered(new, m), new.store = s,
           events' = events, Says(new, b, kinds),
           \A j \in DOMAIN rows : rows[j].store = s /\ rows[j].id # new.id => rows[j].status = "expired"
    PROVE  /\ \A k : k = n => RowSays(s, b, kinds, k)'
           /\ n \in DOMAIN rows'
<1>1. /\ m \in [1..n - 1 -> DOMAIN rows]
      /\ \A k \in 1..n - 1 : rows'[k] = rows[m[k]] /\ rows[m[k]].id # new.id
  BY DEF Reordered
<1>2. \A k \in DOMAIN rows' : k # n => k \in 1..n - 1
  OBVIOUS
<1>3. \A k \in DOMAIN rows' : rows'[k].store = s /\ k # n => rows'[k].status = "expired"
  BY <1>1, <1>2
<1>4. ASSUME NEW k, k = n PROVE RowSays(s, b, kinds, k)'
  <2>1. LatestRow(k, s)'
    BY <1>4 DEF LatestRow
  <2>2. Says(rows[k], b, kinds)'
    BY <1>4 DEF Says, SameTerms
  <2>. QED
    BY <1>3, <1>4, <2>1, <2>2 DEF RowSays
<1>. QED
  BY <1>4

\* ... and the tune: what was under way is now what the latest row says.
LEMMA WriteKeepsTune ==
    ASSUME SubscriptionsTypeOK, HistoryFits, RowsAgree, NEW d \in Deliveries, WriteSubscription(d),
           NEW s \in Subs, InTune(s)
    PROVE  InTune(s)'
<1>1. PICK i : i = delivery[d].event
  OBVIOUS
<1>2. PICK new : new = delivery[d].row
  OBVIOUS
<1>3. PICK n : n = Len(rows')
  OBVIOUS
<1>4. /\ i \in DOMAIN events /\ i \in Nat /\ Handling(d) = events[i]
      /\ new \in Rows /\ RowFits(new) /\ new.store = events[i].sub
      /\ delivery'[d] = [pc |-> "record", event |-> i, row |-> NoRowYet]
      /\ \A o \in Deliveries \ {d} : delivery'[o] = delivery[o]
      /\ n \in Nat \ {0} /\ DOMAIN rows' = 1..n /\ rows'[n] = new
      /\ rows' \in Seq(Rows)
  BY <1>1, <1>2, <1>3, WriteShape, Positions DEF SubscriptionsTypeOK
<1>5. PICK m : Reordered(new, m)
  BY <1>2, WriteShape
<1>6. DeliveryAt(d, "write") /\ Busy(d) /\ UNCHANGED <<today, store, events, recorded, wild>>
  BY DEF WriteSubscription, DeliveryAt, Busy
<1>7. delivery'[d].pc = "record" /\ delivery'[d].event = i /\ Handling(d)' = events[i]
  BY <1>4, <1>6 DEF Handling
<1>8. CASE s # events[i].sub
  <2>1. ~Handles(d, s)'
    BY <1>7, <1>8 DEF Handles
  <2>2. Moved(s, m)
    BY <1>3, <1>4, <1>5, <1>8, PutBeside
  <2>3. recorded \subseteq DOMAIN events /\ recorded' \subseteq DOMAIN events
    BY <1>6 DEF SubscriptionsTypeOK
  <2>4. \A j \in DOMAIN events : events[j].sub = s => (j \in recorded' <=> j \in recorded)
    BY <1>6
  <2>. QED
    BY <1>4, <1>6, <2>1, <2>2, <2>3, <2>4, OthersKeepTune
<1>9. CASE s = events[i].sub
  <2>0. Handles(d, s) /\ \A o \in Deliveries : Handles(o, s) => o = d
    BY <1>4, <1>6, <1>9 DEF Handles, InTune, Alone
  <2>1. \A o \in Deliveries : Handles(o, s)' => o = d
    BY <1>4, <1>6, <2>0 DEF Handles, Handling, Busy
  <2>2. Alone(s)'
    BY <2>1 DEF Alone
  <2>3. ~DeliveryAt(d, "read")' /\ ~DeliveryAt(d, "write")' /\ DeliveryAt(d, "record")'
    BY <1>7 DEF DeliveryAt
  <2>4. \A c, j : /\ (Leads(c, j)' <=> Leads(c, j)) /\ (Succeeds(j, c)' <=> Succeeds(j, c))
                  /\ (First(j)' <=> First(j)) /\ (Base(j)' <=> Base(j)) /\ Since(c)' = Since(c)
    BY <1>6 DEF Leads, Succeeds, First, Base, Since
  <2>5. ASSUME NEW kinds, Says(new, i, kinds), kinds = {}, Base(i),
               \A j \in DOMAIN rows : rows[j].store = s /\ rows[j].id # new.id => rows[j].status = "expired",
               \A j \in DOMAIN events : events[j].sub = s =>
                  /\ j < i => j \in recorded
                  /\ i < j => j \notin recorded
        PROVE  Tells(s, i, {}, n)'
    <3>1. \A k : k = n => RowSays(s, i, {}, k)'
      BY <1>3, <1>4, <1>5, <1>6, <1>9, <2>5, PutLeads
    <3>2. Processed(s, i, {})'
      BY <1>6, <1>9, <2>4, <2>5 DEF Processed
    <3>3. Repeats(d, i, {}, n)'
      BY <1>7, <2>3 DEF Repeats
    <3>. QED
      BY <1>3, <2>1, <3>1, <3>2, <3>3 DEF Tells, Continues
  <2>6. CASE Untouched(s)
    <3>1. First(i) /\ Says(new, i, {})
      BY <1>1, <1>2, <1>6, <2>0, <2>6 DEF Untouched
    <3>2. Base(i)
      <4>1. EventFits(i)
        BY <1>4 DEF HistoryFits
      <4>. QED
        BY <3>1, <4>1 DEF EventFits, Follows, First, Leads, Succeeds, Base, Unordered
    <3>3. \A j \in DOMAIN rows : rows[j].store = s /\ rows[j].id # new.id => rows[j].status = "expired"
      BY <2>6 DEF Untouched
    <3>4. \A j \in DOMAIN events : events[j].sub = s => (j < i => j \in recorded) /\ (i < j => j \notin recorded)
      BY <1>9, <2>6, <3>1 DEF Untouched, First
    <3>5. Tells(s, i, {}, n)'
      BY <2>5, <3>1, <3>2, <3>3, <3>4
    <3>. QED
      BY <1>4, <1>6, <2>2, <3>5 DEF InTune
  <2>7. ASSUME NEW b \in DOMAIN events, NEW kinds \in SUBSET Unordered, NEW k \in DOMAIN rows, Tells(s, b, kinds, k)
        PROVE  InTune(s)'
    <3>1. /\ Continues(d, b, kinds, k) /\ Says(rows[k], b, kinds) /\ Processed(s, b, kinds)
          /\ \A j \in DOMAIN rows : rows[j].store = s /\ j # k => rows[j].status = "expired"
      BY <2>0, <2>7 DEF Tells, RowSays
    <3>2. \A j \in DOMAIN rows : rows[j].id = rows[k].id => j = k
      BY DEF RowsAgree
    <3>3. CASE Repeats(d, b, kinds, k)
      <4>1. i = b /\ kinds = {} /\ Says(new, i, {}) /\ new.id = rows[k].id
        BY <1>1, <1>2, <1>6, <3>3 DEF Repeats
      <4>2. \A j \in DOMAIN rows : rows[j].store = s /\ rows[j].id # new.id => rows[j].status = "expired"
        BY <3>1, <4>1
      <4>3. /\ Base(i)
            /\ \A j \in DOMAIN events : events[j].sub = s => (j < i => j \in recorded) /\ (i < j => j \notin recorded)
        BY <3>1, <4>1 DEF Processed
      <4>4. Tells(s, i, {}, n)'
        BY <2>5, <4>1, <4>2, <4>3
      <4>. QED
        BY <1>4, <1>6, <2>2, <4>4 DEF InTune
    <3>4. CASE Adds(d, b, kinds, k)
      <4>0. PICK more : more = kinds \cup {events[i].kind}
        OBVIOUS
      <4>1. b < i /\ Leads(b, i) /\ b \in recorded /\ Says(new, b, more) /\ new.id = rows[k].id
        BY <1>1, <1>2, <1>4, <1>6, <3>4, <4>0 DEF Adds
      <4>2. events[i].kind \in Unordered
        BY <1>4, <4>1, LedSaysTheSame
      <4>3. events[i].kind \in Since(b)
        BY <1>4, <4>1 DEF Since
      <4>4. Processed(s, b, more)'
        <5>1. more \subseteq Since(b) /\ kinds \subseteq more
          BY <3>1, <4>0, <4>3 DEF Processed
        <5>. QED
          BY <1>6, <2>4, <3>1, <4>1, <5>1 DEF Processed
      <4>5. \A j \in DOMAIN rows : rows[j].store = s /\ rows[j].id # new.id => rows[j].status = "expired"
        BY <3>1, <4>1
      <4>6. \A h : h = n => RowSays(s, b, more, h)'
        BY <1>3, <1>4, <1>5, <1>6, <1>9, <4>1, <4>5, PutLeads
      <4>7. Adds(d, b, more, n)'
        <5>1. Leads(b, delivery[d].event)'
          BY <1>6, <1>7, <4>1 DEF Leads, Base
        <5>. QED
          BY <1>6, <1>7, <2>3, <4>0, <4>1, <5>1 DEF Adds
      <4>8. Tells(s, b, more, n)'
        BY <1>3, <2>1, <4>4, <4>6, <4>7 DEF Tells, Continues
      <4>9. more \in SUBSET Unordered
        BY <4>0, <4>2
      <4>. QED
        BY <1>4, <1>6, <2>2, <4>8, <4>9 DEF InTune
    <3>5. CASE GoesOn(d, b, k)
      <4>1. /\ Succeeds(i, b) /\ Says(new, i, {})
            /\ events[i].kind # "INITIAL_PURCHASE" => new.id = rows[k].id
            /\ \A j \in DOMAIN events : j < i /\ events[j].sub = s => j \in recorded
        BY <1>1, <1>2, <1>4, <1>6, <1>9, <3>5 DEF GoesOn
      <4>2. Follows(i, b) /\ Base(i) /\ b < i /\ b \in Nat
        BY <1>4, <4>1, NextFollows, Positions DEF Succeeds
      <4>3. events[i].kind = "INITIAL_PURCHASE" => rows[k].status = "expired"
        <5>1. SUFFICES ASSUME events[i].kind = "INITIAL_PURCHASE" PROVE rows[k].status = "expired"
          OBVIOUS
        <5>2. PICK j \in DOMAIN events : b < j /\ Leads(b, j) /\ events[j].kind = "EXPIRATION"
          BY <4>2, <5>1 DEF Follows, Since
        <5>3. events[j].sub = s /\ j \in Nat
          BY <3>1, <5>2, Positions DEF Leads, Processed
        <5>4. j < i
          BY <1>4, <1>9, <4>1, <4>2, <5>2, <5>3, <5>1 DEF Leads, Succeeds, Base, Unordered
        <5>5. "EXPIRATION" \in kinds
          BY <3>1, <4>1, <5>2, <5>3, <5>4 DEF Processed
        <5>. QED
          BY <3>1, <5>5 DEF Says, StatusBy
      <4>4. \A j \in DOMAIN rows : rows[j].store = s /\ rows[j].id # new.id => rows[j].status = "expired"
        BY <3>1, <4>1, <4>3
      <4>5. \A j \in DOMAIN events : events[j].sub = s => (j < i => j \in recorded) /\ (i < j => j \notin recorded)
        <5>1. ASSUME NEW j \in DOMAIN events, events[j].sub = s, i < j, j \in recorded PROVE FALSE
          <6>1. j \in Nat /\ b < j
            BY <1>4, <4>2, <5>1, Positions
          <6>2. Leads(b, j)
            BY <3>1, <5>1, <6>1 DEF Processed
          <6>. QED
            BY <1>4, <1>9, <4>2, <5>1, <6>1, <6>2 DEF Leads
        <5>. QED
          BY <4>1, <5>1
      <4>6. Tells(s, i, {}, n)'
        BY <2>5, <4>1, <4>2, <4>4, <4>5
      <4>. QED
        BY <1>4, <1>6, <2>2, <4>6 DEF InTune
    <3>. QED
      BY <3>1, <3>3, <3>4, <3>5 DEF Continues
  <2>. QED
    BY <2>6, <2>7 DEF InTune
<1>. QED
  BY <1>8, <1>9

\* A request that ends, with the event's record or without.
LEMMA EndKeepsTune ==
    ASSUME SubscriptionsTypeOK, HistoryFits, RowsAgree, NEW d \in Deliveries, RecordEvent(d) \/ DeliveryRaises(d)
    PROVE  SubscriptionsTypeOK' /\ RowsAgree' /\ \A s \in Subs : InTune(s) => InTune(s)'
<1>1. PICK i : i = delivery[d].event
  OBVIOUS
<1>2. /\ Busy(d) /\ UNCHANGED <<today, store, events, rows, wild>>
      /\ delivery' = [delivery EXCEPT ![d] = NoDelivery]
      /\ \/ recorded' = recorded
         \/ recorded' = recorded \cup {i} /\ DeliveryAt(d, "record")
  BY <1>1 DEF RecordEvent, DeliveryRaises, Busy, DeliveryAt
<1>3. /\ i \in DOMAIN events /\ Handling(d) = events[i]
      /\ delivery \in [Deliveries -> [pc : {"idle", "read", "write", "record"}, event : Nat,
                                      row : Rows \cup {NoRowYet}]]
  BY <1>1, <1>2 DEF RowsAgree, Handling, SubscriptionsTypeOK
<1>4. delivery'[d] = NoDelivery /\ \A o \in Deliveries \ {d} : delivery'[o] = delivery[o]
  BY <1>2, <1>3
<1>5. recorded \subseteq DOMAIN events /\ recorded' \subseteq DOMAIN events
  BY <1>2, <1>3 DEF SubscriptionsTypeOK
<1>6. SubscriptionsTypeOK'
  <2>1. NoDelivery \in [pc : {"idle", "read", "write", "record"}, event : Nat, row : Rows \cup {NoRowYet}]
    BY DEF NoDelivery
  <2>2. delivery' \in [Deliveries -> [pc : {"idle", "read", "write", "record"}, event : Nat,
                                      row : Rows \cup {NoRowYet}]]
    BY <1>2, <1>3, <2>1
  <2>. QED
    BY <1>2, <1>5, <2>2 DEF SubscriptionsTypeOK
<1>7. ~Busy(d)' /\ delivery'[d].row = NoRowYet /\ ~DeliveryAt(d, "write")'
  BY <1>4 DEF Busy, NoDelivery, DeliveryAt
<1>8. RowsAgree'
  BY <1>2, <1>4, <1>7, OthersKeepRows
<1>9. ASSUME NEW s \in Subs, InTune(s) PROVE InTune(s)'
  <2>1. ~Handles(d, s)'
    BY <1>7 DEF Handles
  <2>2. CASE s # events[i].sub
    <3>1. PICK m : Moved(s, m)
      BY <1>2, StillBeside
    <3>2. \A j \in DOMAIN events : events[j].sub = s => (j \in recorded' <=> j \in recorded)
      BY <1>2, <2>2
    <3>3. rows' \in Seq(Rows)
      BY <1>6 DEF SubscriptionsTypeOK
    <3>. QED
      BY <1>2, <1>4, <1>5, <1>9, <2>1, <3>1, <3>2, <3>3, OthersKeepTune
  <2>3. CASE s = events[i].sub
    <3>0. Handles(d, s) /\ \A o \in Deliveries : Handles(o, s) => o = d
      BY <1>2, <1>3, <1>9, <2>3 DEF Handles, InTune, Alone
    <3>1. \A o \in Deliveries : ~Handles(o, s)'
      BY <1>2, <1>4, <2>1, <3>0 DEF Handles, Handling, Busy
    <3>2. Alone(s)'
      BY <3>1 DEF Alone
    <3>3. \A c, j : (Leads(c, j)' <=> Leads(c, j)) /\ (Base(j)' <=> Base(j)) /\ Since(c)' = Since(c)
      BY <1>2 DEF Leads, Base, Since
    <3>4. \A r, c, kinds : Says(r, c, kinds)' <=> Says(r, c, kinds)
      BY <1>2 DEF Says, SameTerms
    <3>5. ASSUME Untouched(s) PROVE Untouched(s)'
      <4>1. recorded' = recorded
        BY <1>2, <3>0, <3>5 DEF Untouched, DeliveryAt
      <4>. QED
        BY <1>2, <3>1, <3>5, <4>1 DEF Untouched
    <3>6. ASSUME NEW b \in DOMAIN events, NEW kinds \in SUBSET Unordered, NEW k \in DOMAIN rows, Tells(s, b, kinds, k)
          PROVE  Tells(s, b, kinds, k)'
      <4>1. RowSays(s, b, kinds, k)'
        BY <1>2, <3>4, <3>6 DEF Tells, RowSays, LatestRow
      <4>2. recorded' = recorded \/ i = b \/ (Leads(b, i) /\ events[i].kind \in kinds /\ b < i)
        BY <1>1, <1>2, <1>3, <3>0, <3>6 DEF Tells, Continues, Repeats, Adds, GoesOn, DeliveryAt
      <4>3. Processed(s, b, kinds)'
        <5>1. recorded \subseteq recorded'
          BY <1>2
        <5>2. \A j \in DOMAIN events : events[j].sub = s /\ b < j /\ j \in recorded' => Leads(b, j) /\ events[j].kind \in kinds
          <6>1. b \in Nat
            BY Positions
          <6>2. ~(b < b)
            BY <6>1
          <6>. QED
            BY <1>2, <3>6, <4>2, <6>2 DEF Tells, Processed
        <5>. QED
          BY <1>2, <3>3, <3>6, <5>1, <5>2 DEF Tells, Processed
      <4>. QED
        BY <3>1, <4>1, <4>3 DEF Tells
    <3>7. \/ Untouched(s)
          \/ \E b \in DOMAIN events, kinds \in SUBSET Unordered, k \in DOMAIN rows : Tells(s, b, kinds, k)
      BY <1>9 DEF InTune
    <3>8. \/ Untouched(s)'
          \/ \E b \in DOMAIN events', kinds \in SUBSET Unordered, k \in DOMAIN rows' : Tells(s, b, kinds, k)'
      BY <1>2, <3>5, <3>6, <3>7
    <3>. QED
      BY <3>2, <3>8 DEF InTune
  <2>. QED
    BY <2>2, <2>3
<1>. QED
  BY <1>6, <1>8, <1>9

-----------------------------------------------------------------------------
(* The subscriptions' invariant                                            *)

\* It holds at first.
LEMMA SubscriptionsStart == Init => SubscriptionsInv
<1>. SUFFICES ASSUME SubscriptionsInit PROVE SubscriptionsInv
  BY DEF Init
<1>. USE DEF SubscriptionsInit
<1>1. SubscriptionsTypeOK
  BY SubscriptionsAssumption DEF SubscriptionsTypeOK, Phases, Days, NoDelivery
<1>2. DOMAIN events = {} /\ DOMAIN rows = {} /\ recorded = {}
  OBVIOUS
<1>3. HistoryFits /\ StoreFits
  BY <1>2 DEF HistoryFits, StoreFits
<1>4. \A d \in Deliveries : ~Busy(d) /\ ~DeliveryAt(d, "write") /\ delivery[d].row = NoRowYet
  BY DEF NoDelivery, Busy, DeliveryAt
<1>5. RowsAgree
  BY <1>2, <1>4 DEF RowsAgree
<1>6. \A s \in Subs : InTune(s)
  BY <1>2, <1>4 DEF InTune, Alone, Untouched, Handles
<1>. QED
  BY <1>1, <1>3, <1>5, <1>6 DEF SubscriptionsInv

\* What the invariant speaks of, but for the erasure.
LEMMA Undisturbed ==
    ASSUME HistoryFits, StoreFits, RowsAgree, UNCHANGED <<store, events, recorded, rows, delivery>>
    PROVE  HistoryFits' /\ StoreFits' /\ RowsAgree' /\ \A s \in Subs : InTune(s) => InTune(s)'
<1>1. \A b, i : /\ (Leads(b, i)' <=> Leads(b, i)) /\ (Succeeds(i, b)' <=> Succeeds(i, b))
                /\ (First(i)' <=> First(i)) /\ (Base(i)' <=> Base(i)) /\ Since(b)' = Since(b)
                /\ (Follows(i, b)' <=> Follows(i, b))
  BY DEF Leads, Succeeds, First, Base, Since, Follows
<1>2. \A r, b, kinds : Says(r, b, kinds)' <=> Says(r, b, kinds)
  BY DEF Says, SameTerms
<1>3. \A d, pc : /\ (DeliveryAt(d, pc)' <=> DeliveryAt(d, pc)) /\ (Busy(d)' <=> Busy(d))
                 /\ Handling(d)' = Handling(d)
  BY DEF DeliveryAt, Busy, Handling
<1>4. \A d, s : Handles(d, s)' <=> Handles(d, s)
  BY <1>3 DEF Handles
<1>5. HistoryFits'
  <2>1. \A i : EventFits(i)' <=> EventFits(i)
    BY <1>1 DEF EventFits, SameTerms
  <2>. QED
    BY <2>1 DEF HistoryFits
<1>6. StoreFits'
  <2>1. \A s, b : StoreSays(s, b)' <=> StoreSays(s, b)
    BY <1>1 DEF StoreSays, Latest, SameTerms
  <2>. QED
    BY <2>1 DEF StoreFits
<1>7. RowsAgree'
  BY <1>3 DEF RowsAgree, RowFits
<1>8. ASSUME NEW s \in Subs, InTune(s) PROVE InTune(s)'
  <2>1. Alone(s)'
    BY <1>4, <1>8 DEF InTune, Alone
  <2>2. Untouched(s) => Untouched(s)'
    BY <1>1, <1>2, <1>3, <1>4 DEF Untouched
  <2>3. ASSUME NEW b, NEW kinds, NEW k, Tells(s, b, kinds, k) PROVE Tells(s, b, kinds, k)'
    <3>1. RowSays(s, b, kinds, k)' /\ Processed(s, b, kinds)'
      BY <1>1, <1>2, <2>3 DEF Tells, RowSays, LatestRow, Processed
    <3>2. ASSUME NEW d \in Deliveries, Handles(d, s)' PROVE Continues(d, b, kinds, k)'
      <4>1. Continues(d, b, kinds, k)
        BY <1>4, <2>3, <3>2 DEF Tells
      <4>2. Repeats(d, b, kinds, k) => Repeats(d, b, kinds, k)'
        BY <1>2, <1>3 DEF Repeats
      <4>3. Adds(d, b, kinds, k) => Adds(d, b, kinds, k)'
        BY <1>1, <1>2, <1>3 DEF Adds
      <4>4. GoesOn(d, b, k) => GoesOn(d, b, k)'
        BY <1>1, <1>2, <1>3 DEF GoesOn
      <4>. QED
        BY <4>1, <4>2, <4>3, <4>4 DEF Continues
    <3>. QED
      BY <3>1, <3>2 DEF Tells
  <2>4. \/ Untouched(s)
        \/ \E b \in DOMAIN events, kinds \in SUBSET Unordered, k \in DOMAIN rows : Tells(s, b, kinds, k)
    BY <1>8 DEF InTune
  <2>5. \/ Untouched(s)'
        \/ \E b \in DOMAIN events', kinds \in SUBSET Unordered, k \in DOMAIN rows' : Tells(s, b, kinds, k)'
    BY <2>2, <2>3, <2>4
  <2>. QED
    BY <2>1, <2>5 DEF InTune
<1>. QED
  BY <1>5, <1>6, <1>7, <1>8

\* The steps of the webhook keep it ...
LEMMA WebhookKeepsTune ==
    ASSUME SubscriptionsInv, NEW d \in Deliveries, WebhookStep(d), UNCHANGED sessionVars
    PROVE  SubscriptionsInv'
<1>0. /\ SubscriptionsTypeOK /\ HistoryFits /\ StoreFits /\ RowsAgree
      /\ ~Erasing => \A s \in Subs \ wild : InTune(s)
  BY DEF SubscriptionsInv
<1>1. Erasing' <=> Erasing
  BY DEF Erasing, sessionVars
<1>2. UNCHANGED <<store, events>>
  BY DEF WebhookStep, CheckEvent, ReadSubscriptions, WriteSubscription, RecordEvent, DeliveryRaises
<1>3. HistoryFits' /\ StoreFits'
  <2>1. \A b, i : /\ (Leads(b, i)' <=> Leads(b, i)) /\ (Succeeds(i, b)' <=> Succeeds(i, b))
                  /\ (First(i)' <=> First(i)) /\ (Base(i)' <=> Base(i)) /\ Since(b)' = Since(b)
                  /\ (Follows(i, b)' <=> Follows(i, b))
    BY <1>2 DEF Leads, Succeeds, First, Base, Since, Follows
  <2>2. \A i : EventFits(i)' <=> EventFits(i)
    BY <1>2, <2>1 DEF EventFits, SameTerms
  <2>3. \A s, b : StoreSays(s, b)' <=> StoreSays(s, b)
    BY <1>2, <2>1 DEF StoreSays, Latest, SameTerms
  <2>. QED
    BY <1>0, <1>2, <2>2, <2>3 DEF HistoryFits, StoreFits
<1>4. /\ SubscriptionsTypeOK' /\ RowsAgree'
      /\ ~Erasing => \A s \in Subs \ wild' : InTune(s)'
  <2>1. CASE CheckEvent(d)
    <3>1. CASE ~Erasing
      BY <1>0, <2>1, <3>1, CheckKeepsTune
    <3>2. CASE Erasing
      BY <1>0, <2>1, <3>2, CheckKeepsRows
    <3>. QED
      BY <3>1, <3>2
  <2>2. CASE ReadSubscriptions(d)
    <3>1. wild' = wild
      BY <2>2 DEF ReadSubscriptions
    <3>. QED
      BY <1>0, <2>2, <3>1, ReadKeepsRows, ReadKeepsTune
  <2>3. CASE WriteSubscription(d)
    <3>1. wild' = wild
      BY <2>3 DEF WriteSubscription
    <3>. QED
      BY <1>0, <2>3, <3>1, WriteShape, WriteKeepsRows, WriteKeepsTune
  <2>4. CASE RecordEvent(d) \/ DeliveryRaises(d)
    <3>1. wild' = wild
      BY <2>4 DEF RecordEvent, DeliveryRaises
    <3>. QED
      BY <1>0, <2>4, <3>1, EndKeepsTune
  <2>. QED
    BY <2>1, <2>2, <2>3, <2>4 DEF WebhookStep
<1>. QED
  BY <1>1, <1>3, <1>4 DEF SubscriptionsInv

\* ... and those of the stores and of the clock ...
LEMMA StoresKeepTune ==
    ASSUME SubscriptionsInv, UNCHANGED sessionVars, NEW s \in Subs, StoreStep(s) \/ DayPasses
    PROVE  SubscriptionsInv'
<1>0. /\ SubscriptionsTypeOK /\ HistoryFits /\ StoreFits /\ RowsAgree
      /\ ~Erasing => \A q \in Subs \ wild : InTune(q)
  BY DEF SubscriptionsInv
<1>1. Erasing' <=> Erasing
  BY DEF Erasing, sessionVars
<1>2. CASE StoreStep(s)
  <2>1. wild' = wild
    BY <1>2 DEF StoreStep
  <2>. QED
    BY <1>0, <1>1, <1>2, <2>1, StoreKeepsTypes, StoreKeepsHistory, StoreKeepsTune DEF SubscriptionsInv
<1>3. CASE DayPasses
  <2>1. /\ UNCHANGED <<store, events, recorded, rows, delivery>> /\ wild' = wild
    BY <1>3 DEF DayPasses
  <2>2. SubscriptionsTypeOK'
    BY <1>0, <1>3, SubscriptionsAssumption DEF SubscriptionsTypeOK, DayPasses
  <2>. QED
    BY <1>0, <1>1, <2>1, <2>2, Undisturbed DEF SubscriptionsInv
<1>. QED
  BY <1>2, <1>3

\* An erasure, once begun, is never over: what it deletes the rows need not say any more.
LEMMA SessionsKeepTune ==
    ASSUME SubscriptionsInv, IInv, NEW c \in Calls, RequestMoves(c),
           \/ UNCHANGED subscriptionVars
           \/ Erases(c)
    PROVE  SubscriptionsInv'
<1>0. /\ SubscriptionsTypeOK /\ HistoryFits /\ StoreFits /\ RowsAgree
      /\ ~Erasing => \A s \in Subs \ wild : InTune(s)
  BY DEF SubscriptionsInv
<1>1. Shaped /\ TokenTypes /\ CallTypes /\ CallFits /\ RowsFit /\ SetTypes
  BY DEF IInv, SetTypes, Shaped, SessionsTypeOK, TokenTypes, CallTypes, CallRows, Tokens
<1>2. OthersStay(c)
  BY <1>1, RequestsKeepCallTypes
<1>3. Erasing => Erasing'
  BY <1>1, <1>2, RequestsGoOn DEF Erasing, OthersStay
<1>4. CASE UNCHANGED subscriptionVars
  <2>1. UNCHANGED <<today, store, events, recorded, rows, delivery, wild>>
    BY <1>4 DEF subscriptionVars
  <2>2. SubscriptionsTypeOK'
    BY <1>0, <2>1 DEF SubscriptionsTypeOK
  <2>. QED
    BY <1>0, <1>3, <2>1, <2>2, Undisturbed DEF SubscriptionsInv
<1>5. CASE Erases(c)
  <2>1. Erasing
    BY <1>1, <1>5 DEF Erases, EraseRows, EraseEvents, At, CallFits, RequestFits, OperationFits, Erasing
  <2>2. /\ UNCHANGED <<today, store, events, delivery, wild>>
        /\ rows' = <<>> \/ rows' = rows
        /\ recorded' = {} \/ recorded' = recorded
    BY <1>5 DEF Erases
  <2>3. SubscriptionsTypeOK'
    <3>1. rows \in Seq(Rows) /\ <<>> \in Seq(Rows)
      BY <1>0 DEF SubscriptionsTypeOK
    <3>2. rows' \in Seq(Rows) /\ recorded' \subseteq DOMAIN events
      BY <1>0, <2>2, <3>1 DEF SubscriptionsTypeOK
    <3>. QED
      BY <1>0, <2>2, <3>2 DEF SubscriptionsTypeOK
  <2>4. HistoryFits' /\ StoreFits'
    <3>1. \A b, i : /\ (Leads(b, i)' <=> Leads(b, i)) /\ (Succeeds(i, b)' <=> Succeeds(i, b))
                    /\ (First(i)' <=> First(i)) /\ (Base(i)' <=> Base(i)) /\ Since(b)' = Since(b)
                    /\ (Follows(i, b)' <=> Follows(i, b))
      BY <2>2 DEF Leads, Succeeds, First, Base, Since, Follows
    <3>2. \A i : EventFits(i)' <=> EventFits(i)
      BY <2>2, <3>1 DEF EventFits, SameTerms
    <3>3. \A s, b : StoreSays(s, b)' <=> StoreSays(s, b)
      BY <2>2, <3>1 DEF StoreSays, Latest, SameTerms
    <3>. QED
      BY <1>0, <2>2, <3>2, <3>3 DEF HistoryFits, StoreFits
  <2>5. RowsAgree'
    <3>1. \A d : (Busy(d)' <=> Busy(d)) /\ Handling(d)' = Handling(d)
                 /\ (DeliveryAt(d, "write")' <=> DeliveryAt(d, "write"))
      BY <2>2 DEF Busy, Handling, DeliveryAt
    <3>2. CASE rows' = rows
      BY <1>0, <2>2, <3>1, <3>2 DEF RowsAgree, RowFits
    <3>3. CASE rows' = <<>>
      <4>1. DOMAIN rows' = {}
        BY <3>3
      <4>. QED
        BY <1>0, <2>2, <3>1, <4>1 DEF RowsAgree, RowFits
    <3>. QED
      BY <2>2, <3>2, <3>3
  <2>. QED
    BY <1>3, <2>1, <2>3, <2>4, <2>5 DEF SubscriptionsInv
<1>. QED
  BY <1>4, <1>5

\* ... and so does every step of the account.
LEMMA SubscriptionsStay ==
    ASSUME SubscriptionsInv, IInv, load \in Loads, [Next]_vars
    PROVE  SubscriptionsInv' /\ load' \in Loads
<1>1. load' = load
  BY DEF Next, Erases, vars
<1>2. load.sold \subseteq Subs
  BY LoadAssumption
<1>3. ASSUME Billing, UNCHANGED sessionVars PROVE SubscriptionsInv'
  <2>1. ASSUME NEW s \in load.sold, StoreStep(s) PROVE SubscriptionsInv'
    BY <1>2, <1>3, <2>1, StoresKeepTune
  <2>2. ASSUME DayPasses PROVE SubscriptionsInv'
    <3>1. CASE Subs # {}
      <4>1. PICK s \in Subs : TRUE
        BY <3>1
      <4>. QED
        BY <1>3, <2>2, <4>1, StoresKeepTune
    <3>2. CASE Subs = {}
      <4>1. /\ UNCHANGED <<store, events, recorded, rows, delivery>> /\ wild' = wild
        BY <2>2 DEF DayPasses
      <4>2. SubscriptionsTypeOK'
        BY <2>2, SubscriptionsAssumption DEF SubscriptionsInv, SubscriptionsTypeOK, DayPasses
      <4>. QED
        BY <3>2, <4>1, <4>2, Undisturbed DEF SubscriptionsInv
    <3>. QED
      BY <3>1, <3>2
  <2>3. ASSUME NEW d \in Deliveries, WebhookStep(d) PROVE SubscriptionsInv'
    BY <1>3, <2>3, WebhookKeepsTune
  <2>. QED
    BY <1>3, <2>1, <2>2, <2>3 DEF Billing
<1>4. ASSUME NEW t \in Tokens, GraceCloses(t), UNCHANGED subscriptionVars PROVE SubscriptionsInv'
  <2>1. call' = call
    BY <1>4 DEF GraceCloses
  <2>2. Erasing' <=> Erasing
    BY <2>1 DEF Erasing
  <2>3. UNCHANGED <<today, store, events, recorded, rows, delivery, wild>>
    BY <1>4 DEF subscriptionVars
  <2>4. SubscriptionsTypeOK'
    BY <2>3 DEF SubscriptionsInv, SubscriptionsTypeOK
  <2>. QED
    BY <2>2, <2>3, <2>4, Undisturbed DEF SubscriptionsInv
<1>5. ASSUME UNCHANGED <<sessionVars, subscriptionVars>> PROVE SubscriptionsInv'
  <2>1. Erasing' <=> Erasing
    BY <1>5 DEF Erasing, sessionVars
  <2>2. UNCHANGED <<today, store, events, recorded, rows, delivery, wild>>
    BY <1>5 DEF subscriptionVars
  <2>3. SubscriptionsTypeOK'
    BY <2>2 DEF SubscriptionsInv, SubscriptionsTypeOK
  <2>. QED
    BY <2>1, <2>2, <2>3, Undisturbed DEF SubscriptionsInv
<1>6. ASSUME NEW c \in Calls, CallStep(c), UNCHANGED subscriptionVars PROVE SubscriptionsInv'
  BY <1>6, SessionsKeepTune DEF RequestMoves
<1>7. ASSUME NEW c \in Calls, Erases(c) PROVE SubscriptionsInv'
  <2>1. RequestMoves(c)
    BY <1>7 DEF Erases, RequestMoves
  <2>. QED
    BY <1>7, <2>1, SessionsKeepTune
<1>8. \/ Sessional /\ UNCHANGED subscriptionVars
      \/ \E c \in Calls : Erases(c)
      \/ Billing /\ UNCHANGED sessionVars
      \/ UNCHANGED <<sessionVars, subscriptionVars>>
  BY DEF Next, vars
<1>. QED
  BY <1>1, <1>3, <1>4, <1>5, <1>6, <1>7, <1>8 DEF Sessional

\* The subscriptions' invariant holds of every behaviour of Spec.
THEOREM SubscriptionsHold == Spec => [](SubscriptionsInv /\ load \in Loads)
<1>1. Init => SubscriptionsInv /\ load \in Loads
  BY SubscriptionsStart DEF Init
<1>2. IInv /\ (SubscriptionsInv /\ load \in Loads) /\ [Next]_vars => (SubscriptionsInv /\ load \in Loads)'
  BY SubscriptionsStay
<1>. QED
  BY <1>1, <1>2, Invariance, PTL DEF Spec

-----------------------------------------------------------------------------
(* What is promised of subscriptions                                       *)

\* A settled subscription has taken in all that its store says.
LEMMA SettledSays ==
    ASSUME SubscriptionsInv, ~Erasing, NEW s \in Subs \ wild, Settled(s)
    PROVE  \E b \in DOMAIN events, k \in DOMAIN rows :
              StoreSays(s, b) /\ RowSays(s, b, Since(b), k)
<1>0. SubscriptionsTypeOK /\ StoreFits /\ InTune(s)
  BY DEF SubscriptionsInv
<1>1. PICK b \in DOMAIN events : StoreSays(s, b)
  BY <1>0 DEF StoreFits, Settled
<1>2. Latest(b, s) /\ b \in recorded
  BY <1>1 DEF StoreSays, Latest, Settled
<1>3. ~Untouched(s)
  BY <1>2 DEF Untouched, Latest
<1>4. PICK c \in DOMAIN events, kinds \in SUBSET Unordered, k \in DOMAIN rows : Tells(s, c, kinds, k)
  BY <1>0, <1>3 DEF InTune
<1>5. b \in Nat /\ c \in Nat
  BY <1>0, Positions
<1>6. events[c].sub = s /\ Base(c)
  BY <1>4 DEF Tells, Processed
<1>7. ~(c < b)
  <2>1. c < b => Leads(c, b)
    BY <1>2, <1>4 DEF Tells, Processed, Latest
  <2>. QED
    BY <1>2, <1>5, <2>1 DEF Leads, Latest
<1>8. c = b
  BY <1>2, <1>5, <1>6, <1>7 DEF Latest
<1>9. kinds = Since(b)
  <2>1. kinds \subseteq Since(b)
    BY <1>4, <1>8 DEF Tells, Processed
  <2>2. ASSUME NEW x \in Since(b) PROVE x \in kinds
    <3>1. PICK j \in DOMAIN events : b < j /\ Leads(b, j) /\ events[j].kind = x
      BY <2>2 DEF Since
    <3>2. events[j].sub = s
      BY <1>6, <1>8, <3>1 DEF Leads
    <3>3. j \in recorded
      BY <3>2 DEF Settled
    <3>. QED
      BY <1>4, <1>8, <3>1, <3>2, <3>3 DEF Tells, Processed
  <2>. QED
    BY <2>1, <2>2
<1>. QED
  BY <1>1, <1>4, <1>8, <1>9 DEF Tells

\* Whatever was repeated, broken off or delivered in an order that commutes, the row of a
\* settled subscription is in its store's state and no other of its rows entitles.
THEOREM RowsTellTheStore == Spec => []RowTellsTheStore
<1>1. SubscriptionsInv => RowTellsTheStore
  <2>. SUFFICES ASSUME SubscriptionsInv, ~Erasing, NEW s \in Subs \ wild, Settled(s),
                       NEW mine, mine = {i \in DOMAIN rows : rows[i].store = s}
                PROVE  /\ mine # {}
                       /\ rows[Max(mine)].status = ShownStatus(store[s])
                       /\ rows[Max(mine)].cancels = store[s].cancelled
                       /\ rows[Max(mine)].renews = store[s].renews
                       /\ rows[Max(mine)].product = store[s].product
                       /\ rows[Max(mine)].plan = store[s].plan
                       /\ rows[Max(mine)].until = store[s].until
                       /\ \A i \in mine \ {Max(mine)} : ~Entitles(rows[i])
    BY DEF RowTellsTheStore
  <2>1. PICK b \in DOMAIN events, k \in DOMAIN rows : StoreSays(s, b) /\ RowSays(s, b, Since(b), k)
    BY SettledSays
  <2>2. SubscriptionsTypeOK /\ \A i \in DOMAIN rows : rows[i] \in Rows /\ i \in Nat
    BY Positions DEF SubscriptionsInv
  <2>3. k \in mine /\ mine \subseteq Int /\ \A i \in mine : i <= k
    BY <2>1, <2>2 DEF RowSays, LatestRow
  <2>4. Max(mine) = k
    BY <2>3, MaxIs
  <2>5. PICK kinds : kinds = Since(b)
    OBVIOUS
  <2>6. /\ SameTerms(store[s], events[b]) /\ store[s].phase = PhaseBy(kinds)
        /\ (store[s].cancelled <=> "CANCELLATION" \in kinds) /\ (store[s].renews <=> RenewsBy(kinds))
    BY <2>1, <2>5 DEF StoreSays
  <2>7. /\ SameTerms(rows[k], events[b]) /\ rows[k].status = StatusBy(kinds)
        /\ (rows[k].cancels <=> "CANCELLATION" \in kinds) /\ (rows[k].renews <=> RenewsBy(kinds))
    BY <2>1, <2>5 DEF RowSays, Says
  <2>8. rows[k].status = ShownStatus(store[s])
    BY <2>6, <2>7 DEF ShownStatus, StatusBy, PhaseBy
  <2>9. rows[k].cancels = store[s].cancelled /\ rows[k].renews = store[s].renews
    <3>1. rows[k].cancels \in BOOLEAN /\ rows[k].renews \in BOOLEAN
      BY <2>2 DEF Rows
    <3>2. store[s].cancelled \in BOOLEAN /\ store[s].renews \in BOOLEAN
      BY <2>2 DEF SubscriptionsTypeOK
    <3>. QED
      BY <2>6, <2>7, <3>1, <3>2
  <2>10. \A i \in mine \ {k} : rows[i].status = "expired"
    BY <2>1 DEF RowSays
  <2>. QED
    BY <2>3, <2>4, <2>6, <2>7, <2>8, <2>9, <2>10 DEF SameTerms, Entitles
<1>. QED
  BY <1>1, SubscriptionsHold, PTL

-----------------------------------------------------------------------------
(* Which row decides                                                       *)

\* Among some positions one is beaten by none, if nothing beats itself, however long the way.
LEMMA Unbeaten ==
    ASSUME NEW n \in Nat, NEW S \in SUBSET (1..n), S # {}, NEW B,
           \A x \in S : <<x, x>> \notin B,
           \A x, y, z \in S : <<x, y>> \in B /\ <<y, z>> \in B => <<x, z>> \in B
    PROVE  \E m \in S : \A x \in S : <<x, m>> \notin B
<1>. DEFINE Less == OpToRel(<, Nat)
<1>. DEFINE Upto(k) == {x \in S : x <= k}
<1>1. \A j, k \in Nat : j < k => <<j, k>> \in Less
  BY DEF OpToRel
<1>2. IsWellFoundedOn(Less, Nat)
  BY NatLessThanWellFounded
<1>. HIDE DEF Less
<1>3. \A x \in S : x \in Nat /\ x >= 1 /\ x <= n
  OBVIOUS
<1>4. \A k : \A x : x \in Upto(k) <=> x \in S /\ x <= k
  OBVIOUS
<1>. HIDE DEF Upto
<1>5. PICK T \in SUBSET Nat :
         \A k \in Nat : k \in T <=> Upto(k) # {} /\ \A m \in Upto(k) : \E x \in Upto(k) : <<x, m>> \in B
  <2>1. {k \in Nat : Upto(k) # {} /\ \A m \in Upto(k) : \E x \in Upto(k) : <<x, m>> \in B} \in SUBSET Nat
    OBVIOUS
  <2>. QED
    BY <2>1
<1>6. ASSUME T # {} PROVE FALSE
  <2>1. PICK k \in T : \A j \in T : ~(<<j, k>> \in Less)
    BY <1>2, <1>6, WFMin
  <2>2. k \in Nat /\ Upto(k) # {} /\ \A m \in Upto(k) : \E x \in Upto(k) : <<x, m>> \in B
    BY <1>5, <2>1
  <2>3. k # 0
    <3>1. PICK x \in S : x <= k
      BY <1>4, <2>2
    <3>. QED
      BY <1>3, <2>2, <3>1
  <2>4. k - 1 \in Nat /\ k - 1 < k
    BY <2>2, <2>3
  <2>5. k - 1 \notin T
    BY <1>1, <2>1, <2>2, <2>4
  <2>6. \A x \in S : x \in Upto(k) <=> x \in Upto(k - 1) \/ x = k
    <3>1. \A x \in Nat : x <= k <=> x <= k - 1 \/ x = k
      BY <2>2, <2>4
    <3>. QED
      BY <1>3, <1>4, <3>1
  <2>7. Upto(k) \subseteq S /\ Upto(k - 1) \subseteq S
    BY <1>4
  <2>8. k \in S
    <3>1. SUFFICES ASSUME k \notin S PROVE FALSE
      OBVIOUS
    <3>2. \A x : x \in Upto(k - 1) <=> x \in Upto(k)
      BY <2>6, <2>7, <3>1
    <3>3. Upto(k - 1) = Upto(k)
      BY <3>2, Zenon
    <3>. QED
      BY <1>5, <2>2, <2>4, <2>5, <3>3
  <2>9. PICK y \in Upto(k) : <<y, k>> \in B
    BY <2>2, <2>6, <2>8
  <2>10. y \in S /\ y \in Upto(k - 1)
    BY <2>6, <2>7, <2>8, <2>9
  <2>11. PICK m \in Upto(k - 1) : \A x \in Upto(k - 1) : <<x, m>> \notin B
    BY <1>5, <2>4, <2>5, <2>10
  <2>12. m \in S /\ m \in Upto(k)
    BY <2>6, <2>7, <2>11
  <2>13. PICK x \in Upto(k) : <<x, m>> \in B
    BY <2>2, <2>12
  <2>14. x = k
    BY <2>6, <2>7, <2>11, <2>13
  <2>15. <<y, m>> \in B
    BY <2>8, <2>9, <2>10, <2>12, <2>13, <2>14
  <2>. QED
    BY <2>10, <2>11, <2>15
<1>7. Upto(n) = S
  BY <1>3, <1>4
<1>8. n \notin T
  BY <1>6
<1>. QED
  BY <1>5, <1>7, <1>8

\* The types of what a tier grants.
LEMMA Grants ==
    ASSUME NEW p \in Plans \cup {"trial"}
    PROVE  Grant(p).minutes \in Nat /\ Grant(p).cap \in Nat /\ Grant(p).minutes = Minutes[p] /\ Grant(p).cap = Cap[p]
  BY SubscriptionsAssumption DEF Grant

\* The order of the rows: the minutes, the cap, the end.
LEMMA OutranksIs ==
    ASSUME NEW q \in Rows, NEW r \in Rows
    PROVE  /\ Minutes[q.plan] \in Nat /\ Cap[q.plan] \in Nat /\ q.until \in Nat
           /\ Outranks(q, r) <=>
                 \/ Minutes[q.plan] > Minutes[r.plan]
                 \/ Minutes[q.plan] = Minutes[r.plan] /\ Cap[q.plan] > Cap[r.plan]
                 \/ /\ Minutes[q.plan] = Minutes[r.plan] /\ Cap[q.plan] = Cap[r.plan]
                    /\ q.until > r.until
<1>1. q.plan \in Plans /\ r.plan \in Plans /\ q.until \in Nat
  BY SubscriptionsAssumption DEF Rows, Days
<1>. QED
  BY <1>1, SubscriptionsAssumption DEF Outranks, Grant

\* Among some rows one is outranked by none.
LEMMA OneLeadsAll ==
    ASSUME NEW w, NEW n \in Nat, NEW S \in SUBSET (1..n), S # {}, \A x \in S : w[x] \in Rows
    PROVE  \E m \in S : \A x \in S : ~Outranks(w[x], w[m])
<1>1. PICK B \in SUBSET (S \X S) : \A x, y \in S : <<x, y>> \in B <=> Outranks(w[x], w[y])
  <2>1. {x \in S \X S : Outranks(w[x[1]], w[x[2]])} \in SUBSET (S \X S)
    OBVIOUS
  <2>2. \A x, y \in S : <<x, y>> \in {z \in S \X S : Outranks(w[z[1]], w[z[2]])} <=> Outranks(w[x], w[y])
    OBVIOUS
  <2>. QED
    BY <2>1, <2>2
<1>2. \A x \in S : <<x, x>> \notin B
  BY <1>1, OutranksIs
<1>3. \A x, y, z \in S : <<x, y>> \in B /\ <<y, z>> \in B => <<x, z>> \in B
  <2>1. ASSUME NEW x \in Rows, NEW y \in Rows, NEW z \in Rows, Outranks(x, y), Outranks(y, z) PROVE Outranks(x, z)
    <3>1. /\ Minutes[x.plan] \in Nat /\ Cap[x.plan] \in Nat /\ x.until \in Nat
          /\ Minutes[y.plan] \in Nat /\ Cap[y.plan] \in Nat /\ y.until \in Nat
          /\ Minutes[z.plan] \in Nat /\ Cap[z.plan] \in Nat /\ z.until \in Nat
      BY OutranksIs
    <3>. QED
      BY <2>1, <3>1, OutranksIs
  <2>. QED
    BY <1>1, <2>1
<1>4. PICK m \in S : \A x \in S : <<x, m>> \notin B
  <2>1. \E m \in S : \A x \in S : <<x, m>> \notin B
    BY <1>2, <1>3, Unbeaten
  <2>. QED
    BY <2>1
<1>. QED
  BY <1>1, <1>4

\* Among the rows that entitle, if there are any, one decides.
LEMMA SomeDecides ==
    ASSUME NEW w \in Seq(Rows), NEW day, NEW E,
           E = {w[i] : i \in {k \in DOMAIN w : \/ w[k].status \in {"active", "grace_period"}
                                               \/ w[k].status = "canceled" /\ w[k].until > day}},
           E # {}
    PROVE  \E r \in E : r \in Rows /\ \A q \in E : ~Outranks(q, r)
<1>1. PICK S : S = {k \in DOMAIN w : \/ w[k].status \in {"active", "grace_period"}
                                     \/ w[k].status = "canceled" /\ w[k].until > day}
  OBVIOUS
<1>2. Len(w) \in Nat /\ DOMAIN w = 1..Len(w) /\ \A k \in DOMAIN w : w[k] \in Rows
  BY LenProperties, ElementOfSeq
<1>3. S \in SUBSET (1..Len(w)) /\ S # {} /\ \A x \in S : w[x] \in Rows
  BY <1>1, <1>2
<1>4. E = {w[i] : i \in S}
  BY <1>1
<1>5. PICK m \in S : \A x \in S : ~Outranks(w[x], w[m])
  BY <1>2, <1>3, OneLeadsAll
<1>. QED
  BY <1>3, <1>4, <1>5

\* A plan of more minutes, or of as many and a higher cap, covers the other on both axes:
\* of the catalogue of pricing_config_service.py it is true, and 0, the widest cap, would
\* make it false.
PlansAreRanked ==
    \A p, q \in Plans :
        Minutes[p] > Minutes[q] \/ (Minutes[p] = Minutes[q] /\ Cap[p] > Cap[q]) => Covers(Grant(p), Grant(q))

\* The order of allowances.
Allowances == [minutes : Nat, cap : Nat]

\* To cover is an order, and RaisedBy the least that covers both.
LEMMA CoversIs ==
    ASSUME NEW a \in Allowances, NEW b \in Allowances
    PROVE  /\ Covers(a, a) /\ RaisedBy(a, b) \in Allowances
           /\ Covers(RaisedBy(a, b), a) /\ Covers(RaisedBy(a, b), b)
           /\ \A c \in Allowances : Covers(a, b) /\ Covers(b, c) => Covers(a, c)
           /\ \A c \in Allowances : Covers(c, a) /\ Covers(c, b) => Covers(c, RaisedBy(a, b))
<1>1. PICK x : x = RaisedBy(a, b)
  OBVIOUS
<1>2. /\ x.minutes = IF a.minutes >= b.minutes THEN a.minutes ELSE b.minutes
      /\ x.cap = IF CapCovers(a, b) THEN a.cap ELSE b.cap
      /\ x \in Allowances
  BY <1>1 DEF RaisedBy, Allowances
<1>3. a.minutes \in Nat /\ a.cap \in Nat /\ b.minutes \in Nat /\ b.cap \in Nat
  BY DEF Allowances
<1>4. Covers(a, a) /\ Covers(x, a) /\ Covers(x, b)
  BY <1>2, <1>3 DEF Covers, CapCovers
<1>5. ASSUME NEW c \in Allowances
      PROVE  /\ Covers(a, b) /\ Covers(b, c) => Covers(a, c)
             /\ Covers(c, a) /\ Covers(c, b) => Covers(c, x)
  <2>1. c.minutes \in Nat /\ c.cap \in Nat
    BY DEF Allowances
  <2>. QED
    BY <1>2, <1>3, <2>1 DEF Covers, CapCovers
<1>. QED
  BY <1>1, <1>2, <1>4, <1>5

\* What the deciding row is grows with the rows.
LEMMA MoreRowsDecideMore ==
    ASSUME PlansAreRanked, rows \in Seq(Rows), rows' \in Seq(Rows), Entitling # {},
           \A r \in Entitling : \E q \in Entitling' : q.plan = r.plan
    PROVE  /\ Covers(Grant(Deciding.plan)', Grant(Deciding.plan))
           /\ Deciding.plan \in Plans /\ (Deciding.plan)' \in Plans
<1>1. \E r \in Entitling : r \in Rows /\ \A q \in Entitling : ~Outranks(q, r)
  <2>1. Entitling = {rows[i] : i \in {k \in DOMAIN rows : \/ rows[k].status \in {"active", "grace_period"}
                                                          \/ rows[k].status = "canceled" /\ rows[k].until > today}}
    BY DEF Entitling, Entitles
  <2>. QED
    BY <2>1, SomeDecides
<1>2. \E r \in Entitling' : r \in Rows /\ \A q \in Entitling' : ~Outranks(q, r)
  <2>1. Entitling' = {rows'[i] : i \in {k \in DOMAIN rows' : \/ rows'[k].status \in {"active", "grace_period"}
                                                             \/ rows'[k].status = "canceled" /\ rows'[k].until > today'}}
    BY DEF Entitling, Entitles
  <2>2. Entitling' # {}
    OBVIOUS
  <2>. QED
    BY <2>1, <2>2, SomeDecides
<1>3. Deciding \in Entitling /\ \A q \in Entitling : ~Outranks(q, Deciding)
  BY <1>1, Zenon DEF Deciding
<1>4. PICK r : r = Deciding'
  OBVIOUS
<1>5. r = CHOOSE x \in Entitling' : \A q \in Entitling' : ~Outranks(q, x)
  BY <1>4 DEF Deciding
<1>6. r \in Entitling' /\ \A q \in Entitling' : ~Outranks(q, r)
  BY <1>2, <1>5, Zenon
<1>7. (\A x \in Entitling : x \in Rows) /\ (\A x \in Entitling' : x \in Rows)
  <2>1. \A k \in DOMAIN rows : rows[k] \in Rows
    BY LenProperties, ElementOfSeq
  <2>2. \A k \in DOMAIN rows' : rows'[k] \in Rows
    BY LenProperties, ElementOfSeq
  <2>. QED
    BY <2>1, <2>2 DEF Entitling
<1>8. PICK q \in Entitling' : q.plan = Deciding.plan
  BY <1>3
<1>9. q \in Rows /\ r \in Rows /\ q.plan \in Plans /\ r.plan \in Plans /\ ~Outranks(q, r)
  BY <1>6, <1>7, <1>8 DEF Rows
<1>10. /\ Minutes[q.plan] \in Nat /\ Minutes[r.plan] \in Nat /\ Cap[q.plan] \in Nat /\ Cap[r.plan] \in Nat
  BY <1>9, OutranksIs
<1>11. \/ Minutes[r.plan] > Minutes[q.plan] \/ (Minutes[r.plan] = Minutes[q.plan] /\ Cap[r.plan] > Cap[q.plan])
       \/ Minutes[r.plan] = Minutes[q.plan] /\ Cap[r.plan] = Cap[q.plan]
  BY <1>9, <1>10, OutranksIs
<1>12. Covers(Grant(r.plan), Grant(q.plan))
  <2>1. CASE Minutes[r.plan] > Minutes[q.plan] \/ (Minutes[r.plan] = Minutes[q.plan] /\ Cap[r.plan] > Cap[q.plan])
    BY <1>9, <2>1 DEF PlansAreRanked
  <2>2. CASE Minutes[r.plan] = Minutes[q.plan] /\ Cap[r.plan] = Cap[q.plan]
    BY <1>9, <1>10, <2>2 DEF Covers, CapCovers, Grant
  <2>. QED
    BY <1>11, <2>1, <2>2
<1>13. Grant(Deciding.plan)' = Grant(r.plan)
  BY <1>4 DEF Grant
<1>. QED
  BY <1>4, <1>8, <1>9, <1>12, <1>13

-----------------------------------------------------------------------------
(* Buying                                                                  *)

\* Of the rows that entitle, the put of a purchase replaces none but one of the same plan.
LEMMA PurchaseKeepsRows ==
    ASSUME SubscriptionsTypeOK, HistoryFits, RowsAgree, NEW d \in Deliveries, WriteSubscription(d),
           Handling(d).kind = "INITIAL_PURCHASE", InTune(Handling(d).sub)
    PROVE  /\ rows' \in Seq(Rows) /\ Entitling' # {}
           /\ \A r \in Entitling : \E q \in Entitling' : q.plan = r.plan
<1>1. PICK i : i = delivery[d].event
  OBVIOUS
<1>2. PICK new : new = delivery[d].row
  OBVIOUS
<1>3. PICK n : n = Len(rows')
  OBVIOUS
<1>4. /\ i \in DOMAIN events /\ i \in Nat /\ Handling(d) = events[i]
      /\ new \in Rows /\ RowFits(new) /\ new.store = events[i].sub
      /\ n \in Nat \ {0} /\ DOMAIN rows' = 1..n /\ rows'[n] = new
      /\ rows' \in Seq(Rows)
  BY <1>1, <1>2, <1>3, WriteShape, Positions DEF SubscriptionsTypeOK
<1>5. PICK m : Reordered(new, m)
  BY <1>2, WriteShape
<1>6. /\ DeliveryAt(d, "write") /\ Busy(d) /\ today' = today /\ Handles(d, new.store)
      /\ events[i].kind = "INITIAL_PURCHASE" /\ InTune(new.store)
  BY <1>4 DEF WriteSubscription, DeliveryAt, Busy, Handles
<1>7. \A r : Entitles(r)' <=> Entitles(r)
  BY <1>6 DEF Entitles
<1>8. PICK T : T = Entitling'
  OBVIOUS
<1>9. \A k \in DOMAIN rows' : Entitles(rows'[k]) => rows'[k] \in T
  <2>1. T = {rows'[j] : j \in {k \in DOMAIN rows' : \/ rows'[k].status \in {"active", "grace_period"}
                                                    \/ rows'[k].status = "canceled" /\ rows'[k].until > today'}}
    BY <1>8 DEF Entitling, Entitles
  <2>. QED
    BY <1>6, <2>1 DEF Entitles
<1>10. ASSUME NEW j \in DOMAIN rows, Entitles(rows[j]), rows[j].id # new.id PROVE rows[j] \in T
  <2>1. PICK k \in 1..n - 1 : m[k] = j
    BY <1>3, <1>5, <1>10 DEF Reordered
  <2>2. rows'[k] = rows[j] /\ k \in DOMAIN rows'
    BY <1>3, <1>4, <1>5, <2>1 DEF Reordered
  <2>. QED
    BY <1>9, <1>10, <2>2
<1>11. /\ new.status = "active"
       /\ \A j \in DOMAIN rows : rows[j].id = new.id /\ Entitles(rows[j]) => rows[j].plan = new.plan
  <2>1. \A j \in DOMAIN rows : rows[j].id = new.id => rows[j].store = new.store
    BY <1>4 DEF RowsAgree, RowFits
  <2>2. CASE Untouched(new.store)
    BY <1>1, <1>2, <1>6, <2>1, <2>2 DEF Untouched, Says, StatusBy
  <2>3. ASSUME NEW b \in DOMAIN events, NEW kinds \in SUBSET Unordered, NEW k \in DOMAIN rows,
               Tells(new.store, b, kinds, k)
        PROVE  /\ new.status = "active"
               /\ \A j \in DOMAIN rows : rows[j].id = new.id /\ Entitles(rows[j]) => rows[j].plan = new.plan
    <3>1. /\ Continues(d, b, kinds, k) /\ Says(rows[k], b, kinds) /\ Processed(new.store, b, kinds)
          /\ \A j \in DOMAIN rows : rows[j].store = new.store /\ j # k => rows[j].status = "expired"
      BY <1>6, <2>3 DEF Tells, RowSays
    <3>2. CASE Repeats(d, b, kinds, k)
      <4>1. Says(new, b, {}) /\ new.id = rows[k].id
        BY <1>1, <1>2, <1>6, <3>2 DEF Repeats
      <4>2. new.status = "active" /\ new.plan = rows[k].plan
        BY <3>1, <4>1 DEF Says, SameTerms, StatusBy
      <4>3. \A j \in DOMAIN rows : rows[j].id = new.id => j = k
        BY <4>1 DEF RowsAgree
      <4>. QED
        BY <4>2, <4>3
    <3>3. CASE Adds(d, b, kinds, k)
      <4>1. b < i /\ Leads(b, i)
        BY <1>1, <3>3 DEF Adds
      <4>2. events[i].kind \in Unordered
        BY <1>4, <4>1, LedSaysTheSame
      <4>. QED
        BY <1>6, <4>2 DEF Unordered
    <3>4. CASE GoesOn(d, b, k)
      <4>1. /\ Succeeds(i, b) /\ Says(new, i, {})
            /\ \A j \in DOMAIN events : j < i /\ events[j].sub = new.store => j \in recorded
        BY <1>1, <1>2, <1>4, <1>6, <3>4 DEF GoesOn
      <4>2. Follows(i, b) /\ Base(i) /\ b < i /\ b \in Nat
        BY <1>4, <4>1, NextFollows, Positions DEF Succeeds
      <4>3. PICK j \in DOMAIN events : b < j /\ Leads(b, j) /\ events[j].kind = "EXPIRATION"
        BY <1>6, <4>2 DEF Follows, Since
      <4>4. events[j].sub = new.store /\ j \in Nat
        BY <3>1, <4>3, Positions DEF Leads, Processed
      <4>5. j < i
        BY <1>4, <1>6, <4>1, <4>2, <4>3, <4>4 DEF Leads, Succeeds, Base, Unordered
      <4>6. "EXPIRATION" \in kinds
        BY <3>1, <4>1, <4>3, <4>4, <4>5 DEF Processed
      <4>7. rows[k].status = "expired"
        BY <3>1, <4>6 DEF Says, StatusBy
      <4>8. \A j_1 \in DOMAIN rows : rows[j_1].store = new.store => ~Entitles(rows[j_1])
        BY <3>1, <4>7 DEF Entitles
      <4>. QED
        BY <2>1, <4>1, <4>8 DEF Says, StatusBy
    <3>. QED
      BY <3>1, <3>2, <3>3, <3>4 DEF Continues
  <2>. QED
    BY <1>6, <2>2, <2>3 DEF InTune
<1>12. new \in T
  BY <1>4, <1>9, <1>11 DEF Entitles
<1>13. \A r \in Entitling : \E q \in T : q.plan = r.plan
  <2>1. ASSUME NEW j \in DOMAIN rows, Entitles(rows[j]) PROVE \E q \in T : q.plan = rows[j].plan
    BY <1>10, <1>11, <1>12, <2>1
  <2>. QED
    BY <2>1 DEF Entitling
<1>. QED
  BY <1>4, <1>8, <1>12, <1>13

\* What rows that grew grant is no less than what they granted.
LEMMA GrantsGrow ==
    ASSUME PlansAreRanked, rows \in Seq(Rows), rows' \in Seq(Rows), Entitling' # {},
           \A r \in Entitling : \E q \in Entitling' : q.plan = r.plan,
           NEW trial \in BOOLEAN
    PROVE  Covers(Allowance(trial)', Allowance(trial)) \/ Allowance(trial) = Nothing
<1>1. PICK t : t = Grant("trial")
  OBVIOUS
<1>2. PICK new : new = Grant(Deciding.plan)'
  OBVIOUS
<1>3. PICK old : old = Grant(Deciding.plan)
  OBVIOUS
<1>4. PICK after : after = Allowance(trial)'
  OBVIOUS
<1>5. PICK before : before = Allowance(trial)
  OBVIOUS
<1>6. t \in Allowances
  BY <1>1, Grants DEF Grant, Allowances
<1>7. /\ trial /\ ~Covers(new, t) => after = RaisedBy(new, t)
      /\ ~trial \/ Covers(new, t) => after = new
  BY <1>1, <1>2, <1>4 DEF Allowance, Grant
<1>8. new \in Allowances
  <2>1. \E r \in Entitling' : r \in Rows /\ \A q \in Entitling' : ~Outranks(q, r)
    <3>1. Entitling' = {rows'[i] : i \in {k \in DOMAIN rows' : \/ rows'[k].status \in {"active", "grace_period"}
                                                               \/ rows'[k].status = "canceled" /\ rows'[k].until > today'}}
      BY DEF Entitling, Entitles
    <3>2. Entitling' # {}
      OBVIOUS
    <3>. QED
      BY <3>1, <3>2, SomeDecides
  <2>2. PICK r : r = Deciding'
    OBVIOUS
  <2>3. r = CHOOSE x \in Entitling' : \A q \in Entitling' : ~Outranks(q, x)
    BY <2>2 DEF Deciding
  <2>4. r \in Entitling'
    BY <2>1, <2>3, Zenon
  <2>5. \A k \in DOMAIN rows' : rows'[k] \in Rows
    BY LenProperties, ElementOfSeq
  <2>6. r.plan \in Plans
    BY <2>4, <2>5 DEF Entitling, Rows
  <2>7. new = Grant(r.plan)
    BY <1>2, <2>2 DEF Grant
  <2>. QED
    BY <2>6, <2>7, Grants DEF Grant, Allowances
<1>9. Covers(after, new) /\ (trial => Covers(after, t)) /\ after \in Allowances
  <2>1. /\ Covers(new, new) /\ RaisedBy(new, t) \in Allowances
        /\ Covers(RaisedBy(new, t), new) /\ Covers(RaisedBy(new, t), t)
    BY <1>6, <1>8, CoversIs
  <2>. QED
    BY <1>7, <1>8, <2>1
<1>10. CASE Entitling # {}
  <2>1. /\ trial /\ ~Covers(old, t) => before = RaisedBy(old, t)
        /\ ~trial \/ Covers(old, t) => before = old
    BY <1>1, <1>3, <1>5, <1>10 DEF Allowance
  <2>2. Covers(new, old) /\ old \in Allowances
    BY <1>2, <1>3, <1>10, MoreRowsDecideMore, Grants DEF Grant, Allowances
  <2>3. Covers(after, old)
    BY <1>8, <1>9, <2>2, CoversIs
  <2>4. Covers(after, before)
    <3>1. Covers(after, old) /\ Covers(after, t) => Covers(after, RaisedBy(old, t))
      BY <1>6, <1>9, <2>2, CoversIs
    <3>. QED
      BY <1>9, <2>1, <2>3, <3>1
  <2>. QED
    BY <1>4, <1>5, <2>4
<1>11. CASE Entitling = {}
  <2>1. before = IF trial THEN t ELSE Nothing
    BY <1>1, <1>5, <1>11 DEF Allowance
  <2>. QED
    BY <1>4, <1>5, <1>9, <2>1
<1>. QED
  BY <1>10, <1>11

\* Whatever a purchase finds, of an account on trial or subscribed elsewhere, what it writes
\* lowers neither the minutes nor the length of an import.  Without the hypothesis it may:
\* the rows are ranked by the number of the cap, of which 0 is the widest.
THEOREM BuyingNeverLowers ==
    ASSUME PlansAreRanked
    PROVE  Spec => BuyingTakesNothing
<1>. DEFINE Kept == \A d \in Deliveries :
                       /\ WriteSubscription(d)
                       /\ Handling(d).kind = "INITIAL_PURCHASE" /\ Handling(d).sub \notin wild /\ ~Erasing
                       => \/ Covers(Allowance(InTrial)', Allowance(InTrial))
                          \/ Allowance(InTrial) = Nothing
<1>1. ASSUME SubscriptionsInv, [Next]_vars PROVE Kept
  <2>. SUFFICES ASSUME NEW d \in Deliveries, WriteSubscription(d),
                       Handling(d).kind = "INITIAL_PURCHASE", Handling(d).sub \notin wild, ~Erasing
                PROVE  \/ Covers(Allowance(InTrial)', Allowance(InTrial))
                       \/ Allowance(InTrial) = Nothing
    OBVIOUS
  <2>1. SubscriptionsTypeOK /\ HistoryFits /\ RowsAgree /\ today' = today
    BY <1>1 DEF SubscriptionsInv, WriteSubscription
  <2>2. Handling(d).sub \in Subs /\ InTune(Handling(d).sub)
    BY <1>1, <2>1, WriteShape DEF Events, SubscriptionsInv
  <2>3. /\ rows \in Seq(Rows) /\ rows' \in Seq(Rows) /\ Entitling' # {}
        /\ \A r \in Entitling : \E q \in Entitling' : q.plan = r.plan
    BY <2>1, <2>2, PurchaseKeepsRows DEF SubscriptionsTypeOK
  <2>4. delivery' # delivery
    <3>1. delivery'[d] = [pc |-> "record", event |-> delivery[d].event, row |-> NoRowYet]
      BY <2>1, WriteShape
    <3>2. delivery[d].pc = "write" /\ delivery'[d].pc = "record"
      BY <3>1 DEF WriteSubscription, DeliveryAt
    <3>. QED
      BY <3>2
  <2>5. user' = user
    BY <1>1, <2>4 DEF Next, vars, Erases, sessionVars, subscriptionVars
  <2>6. PICK trial \in BOOLEAN : trial <=> InTrial
    OBVIOUS
  <2>7. InTrial' <=> trial
    BY <2>1, <2>5, <2>6 DEF InTrial
  <2>8. Allowance(InTrial) = Allowance(trial) /\ Allowance(InTrial)' = Allowance(trial)'
    BY <2>6, <2>7 DEF Allowance
  <2>. QED
    BY <1>1, <2>3, <2>8, GrantsGrow
<1>2. SubscriptionsInv /\ [Next]_vars => [Kept]_vars
  BY <1>1
<1>. QED
  BY <1>2, SubscriptionsHold, PTL DEF Spec, BuyingTakesNothing
=============================================================================
