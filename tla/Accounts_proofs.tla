--------------------------- MODULE Accounts_proofs ---------------------------
(***************************************************************************)
(* Proofs about Accounts, for any number of users and of requests in       *)
(* flight, any lifetimes of tokens and any statement that fails; what      *)
(* holds only while the requests of one user do not overlap comes last.    *)
(***************************************************************************)
EXTENDS Accounts, TLAPS

(* The bounds and the empty values are well typed. *)
LEMMA Basics ==
  /\ 0 \in Second /\ 0 \in Password /\ NoSecond \notin Second
  /\ Idle \in Task /\ NoSession \in SessionRow
  /\ Second \subseteq Nat /\ NoStatus \notin UserStatus
BY BoundsAssumption DEF Second, Password, NoSecond, Idle, Task, Op, Pc, NoSession, SessionRow,
   NoStatus, UserStatus

(* Before anything happens the invariant holds. *)
LEMMA InitInv == Init => IInv
<1> SUFFICES ASSUME Init PROVE IInv
  OBVIOUS
<1> USE Basics DEF Init
<1>1. TypeOK
  BY DEF TypeOK, UserRow
<1>2. NoSessionOutlivesRevocation
  BY DEF NoSessionOutlivesRevocation, NoSession
<1>3. VerifiedByOwnToken
  BY DEF VerifiedByOwnToken
<1>4. Registered
  BY DEF Registered, NoSession, Exists
<1>5. \A h \in Handler : InFlight(h)
  BY DEF InFlight, Idle, Issuing
<1> QED
  BY <1>1, <1>2, <1>3, <1>4, <1>5 DEF IInv

-----------------------------------------------------------------------------
(* Moving one request. *)

LEMMA OneMoves ==
  ASSUME TypeOK, NEW h \in Handler, NEW r \in Task, task' = [task EXCEPT ![h] = r]
  PROVE  /\ task' \in [Handler -> Task]
         /\ task'[h] = r
         /\ \A g \in Handler \ {h} : task'[g] = task[g]
BY DEF TypeOK

LEMMA GotoMoves ==
  ASSUME TypeOK, NEW h \in Handler, NEW pc \in Pc, Goto(h, pc)
  PROVE  /\ task' \in [Handler -> Task]
         /\ task'[h] = [task[h] EXCEPT !.pc = pc]
         /\ \A g \in Handler \ {h} : task'[g] = task[g]
<1> DEFINE r == [task[h] EXCEPT !.pc = pc]
<1>1. r \in Task
  BY DEF TypeOK, Task
<1>2. task' = [task EXCEPT ![h] = r]
  BY DEF Goto
<1> QED
  BY <1>1, <1>2, OneMoves

LEMMA FinishMoves ==
  ASSUME TypeOK, NEW h \in Handler, Finish(h)
  PROVE  /\ task' \in [Handler -> Task]
         /\ task'[h] = Idle
         /\ \A g \in Handler \ {h} : task'[g] = task[g]
BY Basics, OneMoves DEF Finish

(* A request that begins holds what it is given. *)
LEMMA BeginMoves ==
  ASSUME TypeOK, NEW h \in Handler, NEW op \in Op, NEW pc \in Pc, NEW u \in User,
         NEW r \in Task, Begin(h, op, pc, u, r)
  PROVE  /\ task[h].pc = "idle"
         /\ task' \in [Handler -> Task]
         /\ task'[h] = [r EXCEPT !.op = op, !.pc = pc, !.user = u]
         /\ \A g \in Handler \ {h} : task'[g] = task[g]
<1> DEFINE q == [r EXCEPT !.op = op, !.pc = pc, !.user = u]
<1>1. q \in Task
  BY DEF Task
<1>2. task' = [task EXCEPT ![h] = q] /\ task[h].pc = "idle"
  BY DEF Begin, At
<1> QED
  BY <1>1, <1>2, OneMoves

(* An idle request has nothing to answer for. *)
LEMMA IdleInFlight ==
  ASSUME NEW h \in Handler, task'[h] = Idle
  PROVE  InFlight(h)'
BY DEF Idle, InFlight, Issuing

(* The rows of a table of tokens are tokens, each of a user.                *)
LEMMA TokenRows ==
  ASSUME NEW table \in Seq(Token), NEW i \in DOMAIN table
  PROVE  table[i] \in Token /\ i \in 1 .. Len(table) /\ table[i].user \in User
<1>1. table[i] \in Token /\ i \in 1 .. Len(table)
  OBVIOUS
<1> QED
  BY <1>1 DEF Token

(* A token is added at the end. *)
LEMMA NewTokenRow ==
  ASSUME TypeOK, NEW u \in User, NEW type \in TokenType, NEW code \in Code \cup {NoCode},
         NEW phone \in Phone \cup {NoPhone}, NewToken(u, type, code, phone)
  PROVE  /\ tokens' \in Seq(Token)
         /\ \A i \in DOMAIN tokens : i \in DOMAIN tokens' /\ tokens'[i] = tokens[i]
         /\ \A i \in DOMAIN tokens' \ DOMAIN tokens : tokens'[i].user = u
<1> DEFINE t == [user |-> u, type |-> type, code |-> code, phone |-> phone,
                 createdAt |-> clock, consumed |-> FALSE, uses |-> 0]
<1>1. t \in Token
  BY DEF Token, UseCap, TypeOK
<1>2. tokens \in Seq(Token) /\ tokens' = Append(tokens, t)
  BY DEF TypeOK, NewToken
<1> HIDE DEF t
<1>3. /\ tokens' \in Seq(Token)
      /\ Len(tokens') = Len(tokens) + 1
      /\ \A i \in 1 .. Len(tokens) : tokens'[i] = tokens[i]
      /\ tokens'[Len(tokens) + 1] = t
  BY <1>1, <1>2
<1>4. /\ DOMAIN tokens = 1 .. Len(tokens)
      /\ DOMAIN tokens' = 1 .. Len(tokens')
      /\ Len(tokens) \in Nat
  BY <1>2, <1>3
<1> QED
  BY <1>3, <1>4 DEF t

(* One token is written over. *)
LEMMA TokenWritten ==
  ASSUME TypeOK, NEW n \in DOMAIN tokens, NEW t \in Token, tokens' = [tokens EXCEPT ![n] = t]
  PROVE  /\ tokens' \in Seq(Token)
         /\ DOMAIN tokens' = DOMAIN tokens
         /\ tokens'[n] = t
         /\ \A i \in DOMAIN tokens : i # n => tokens'[i] = tokens[i]
<1>1. tokens \in Seq(Token) /\ DOMAIN tokens = 1 .. Len(tokens) /\ Len(tokens) \in Nat
  BY DEF TypeOK
<1>2. tokens' \in [1 .. Len(tokens) -> Token]
  BY <1>1
<1> QED
  BY <1>1, <1>2

-----------------------------------------------------------------------------
(* What all steps share. *)

(* Users, sessions and one-time tokens only grow: no row is lost, and none  *)
(* changes its owner.                                                       *)
Grows ==
  /\ \A u \in User : Exists(u) => Exists(u)'
  /\ \A u \in User, s \in Second : session[u][s].state # "none" => session'[u][s].state # "none"
  /\ \A i \in DOMAIN tokens :
       /\ i \in DOMAIN tokens'
       /\ tokens'[i].user = tokens[i].user
       /\ tokens'[i].type = tokens[i].type
       /\ tokens[i].consumed => tokens'[i].consumed

(* What is accounted for stays so: a password changes only when revocation  *)
(* is to follow, and no revocation ends.                                    *)
Quiet ==
  /\ \A u \in User : user'[u].password = user[u].password \/ Revoking(u)'
  /\ \A u \in User : Revoking(u) => Revoking(u)'

(* The requests are left alone, or what they hold is good.                  *)
Kept ==
  /\ task' \in [Handler -> Task]
  /\ \A g \in Handler : task'[g] = task[g] \/ InFlight(g)'

(* Tables that do not change grow. *)
LEMMA GrowsStill ==
  ASSUME UNCHANGED <<user, session, tokens>>
  PROVE  Grows
BY DEF Grows, Exists

(* A step of h away from the revocation leaves Revoking alone. *)
LEMMA RevokingKept ==
  ASSUME NEW h \in Handler, task[h].pc # "revokeAll", abandoned' = abandoned,
         \A g \in Handler \ {h} : task'[g] = task[g]
  PROVE  \A u : Revoking(u) => Revoking(u)'
BY DEF Revoking, At

(* What a request counts on survives a step that leaves its record alone.   *)
LEMMA OthersKeep ==
  ASSUME IInv, Grows, Quiet, NEW g \in Handler, task'[g] = task[g]
  PROVE  InFlight(g)'
<1>1. InFlight(g) /\ task[g] \in Task
  BY DEF IInv, TypeOK
<1>2. task[g].pc # "idle" => task[g].user \in User
  BY <1>1 DEF InFlight
<1>3. task[g].pc \in Issuing => Covered(task[g].user, task[g].basis, task[g].late)'
  BY <1>1, <1>2 DEF InFlight, Quiet, Covered, Issuing
<1>4. task[g].pc \notin {"idle", "create"} => Exists(task[g].user)'
  BY <1>1, <1>2 DEF InFlight, Grows
<1>5. task[g].pc = "revoke" => /\ task[g].parent \in Second
                               /\ session'[task[g].user][task[g].parent].state # "none"
  BY <1>1, <1>2 DEF InFlight, Grows
<1> QED
  BY <1>1, <1>2, <1>3, <1>4, <1>5 DEF InFlight, Grows

(* Proofs of verification are not lost. *)
LEMMA ProofKept ==
  ASSUME Grows, NEW u, NEW type, Proof(u, type)
  PROVE  Proof(u, type)'
BY DEF Proof, Grows

(* Marks that no step sets stay proved.                                     *)
LEMMA MarksKept ==
  ASSUME IInv, Grows,
         \A u \in User : /\ user'[u].emailVerified => user[u].emailVerified
                         /\ user'[u].phoneVerified => user[u].phoneVerified
  PROVE  VerifiedByOwnToken'
<1> SUFFICES ASSUME NEW u \in User
             PROVE  /\ user'[u].emailVerified => Proof(u, "EMAIL_VERIFICATION")'
                    /\ user'[u].phoneVerified => Proof(u, "PHONE_VERIFICATION")'
  BY DEF VerifiedByOwnToken
<1>1. user[u].emailVerified => Proof(u, "EMAIL_VERIFICATION")
  BY DEF IInv, VerifiedByOwnToken
<1>2. user[u].phoneVerified => Proof(u, "PHONE_VERIFICATION")
  BY DEF IInv, VerifiedByOwnToken
<1> QED
  BY <1>1, <1>2, ProofKept

(* The invariant after a step that ends no revocation.                      *)
LEMMA Preserve ==
  ASSUME IInv, TypeOK', Grows, Quiet, Kept, VerifiedByOwnToken', Registered',
         \A u \in User, s \in Second :
            session'[u][s].state = "live" =>
              \/ session'[u][s] = session[u][s]
              \/ Covered(u, session'[u][s].basis, session'[u][s].late)
  PROVE  IInv'
<1>1. \A g \in Handler : InFlight(g)'
  BY OthersKeep DEF Kept
<1>2. NoSessionOutlivesRevocation'
  <2> SUFFICES ASSUME NEW u \in User, NEW s \in Second, session'[u][s].state = "live"
               PROVE  Covered(u, session[u][s].basis, session[u][s].late)'
    BY DEF NoSessionOutlivesRevocation
  <2>1. Covered(u, session'[u][s].basis, session'[u][s].late)
    BY DEF IInv, NoSessionOutlivesRevocation
  <2> QED
    BY <2>1 DEF Quiet, Covered
<1> QED
  BY <1>1, <1>2 DEF IInv

(* A step that writes no table. *)
LEMMA TaskOnly ==
  ASSUME IInv, NEW h \in Handler, task[h].pc # "revokeAll",
         UNCHANGED <<clock, user, session, tokens, abandoned>>,
         task' \in [Handler -> Task], InFlight(h)',
         \A g \in Handler \ {h} : task'[g] = task[g]
  PROVE  IInv'
<1>1. TypeOK'
  BY DEF IInv, TypeOK
<1>2. Grows /\ Quiet /\ Kept
  BY GrowsStill, RevokingKept DEF Quiet, Kept
<1>3. VerifiedByOwnToken'
  BY <1>2, MarksKept
<1>4. Registered'
  BY DEF IInv, Registered, Exists
<1> QED
  BY <1>1, <1>2, <1>3, <1>4, Preserve

(* A step of h that writes refresh_tokens: a live row it writes is          *)
(* accounted for, and its owner registered.                                 *)
LEMMA SessionOnly ==
  ASSUME IInv, NEW h \in Handler, task[h].pc # "revokeAll",
         UNCHANGED <<clock, user, tokens, abandoned>>,
         task' \in [Handler -> Task], InFlight(h)',
         \A g \in Handler \ {h} : task'[g] = task[g],
         NEW v \in User, Exists(v), NEW r \in Second, NEW row \in SessionRow,
         session' = [session EXCEPT ![v][r] = row],
         row.state # "none",
         row.state = "live" => Covered(v, row.basis, row.late)
  PROVE  IInv'
<1>0. session \in [User -> [Second -> SessionRow]]
  BY DEF IInv, TypeOK
<1>1. /\ session' \in [User -> [Second -> SessionRow]]
      /\ session'[v][r] = row
      /\ \A u \in User, s \in Second : <<u, s>> # <<v, r>> => session'[u][s] = session[u][s]
  BY <1>0
<1>2. TypeOK'
  BY <1>1 DEF IInv, TypeOK
<1>3. Grows
  BY <1>1 DEF Grows, Exists
<1>4. Quiet /\ Kept
  BY RevokingKept DEF Quiet, Kept
<1>5. VerifiedByOwnToken'
  BY <1>3, MarksKept
<1>6. Registered'
  BY <1>1 DEF IInv, Registered, Exists
<1>7. \A u \in User, s \in Second :
        session'[u][s].state = "live" =>
          \/ session'[u][s] = session[u][s]
          \/ Covered(u, session'[u][s].basis, session'[u][s].late)
  BY <1>1
<1> QED
  BY <1>2, <1>3, <1>4, <1>5, <1>6, <1>7, Preserve

(* A step that writes one row of users, its password only if revocation is  *)
(* to follow, and may write verification_tokens.                            *)
LEMMA UserAndTokens ==
  ASSUME IInv, UNCHANGED <<clock, session>>, abandoned' = abandoned,
         \A u \in User : Revoking(u) => Revoking(u)', Kept,
         tokens' \in Seq(Token),
         \A i \in DOMAIN tokens :
           /\ i \in DOMAIN tokens'
           /\ tokens'[i].user = tokens[i].user
           /\ tokens'[i].type = tokens[i].type
           /\ tokens[i].consumed => tokens'[i].consumed,
         \A i \in DOMAIN tokens' \ DOMAIN tokens : Exists(tokens'[i].user),
         NEW v \in User, NEW row \in UserRow,
         user' = [user EXCEPT ![v] = row],
         Exists(v) => row.status # NoStatus,
         row.status = NoStatus => row.password = 0,
         row.password = user[v].password \/ Revoking(v)',
         row.emailVerified => user[v].emailVerified \/ Proof(v, "EMAIL_VERIFICATION"),
         row.phoneVerified => user[v].phoneVerified \/ Proof(v, "PHONE_VERIFICATION")
  PROVE  IInv'
<1>1. /\ user \in [User -> UserRow] /\ user' \in [User -> UserRow]
      /\ user'[v] = row
      /\ \A u \in User : u # v => user'[u] = user[u]
  BY DEF IInv, TypeOK
<1>2. TypeOK'
  BY <1>1 DEF IInv, TypeOK, Kept
<1>3. Grows
  BY <1>1 DEF Grows, Exists
<1>4. Quiet
  BY <1>1 DEF Quiet
<1>5. VerifiedByOwnToken'
  <2> SUFFICES ASSUME NEW u \in User
               PROVE  /\ user'[u].emailVerified => Proof(u, "EMAIL_VERIFICATION")'
                      /\ user'[u].phoneVerified => Proof(u, "PHONE_VERIFICATION")'
    BY DEF VerifiedByOwnToken
  <2>1. user[u].emailVerified => Proof(u, "EMAIL_VERIFICATION")
    BY DEF IInv, VerifiedByOwnToken
  <2>2. user[u].phoneVerified => Proof(u, "PHONE_VERIFICATION")
    BY DEF IInv, VerifiedByOwnToken
  <2>3. CASE u = v
    BY <1>1, <1>3, <2>1, <2>2, <2>3, ProofKept
  <2>4. CASE u # v
    BY <1>1, <1>3, <2>1, <2>2, <2>4, ProofKept
  <2> QED
    BY <2>3, <2>4
<1>6. Registered'
  <2>1. \A i \in DOMAIN tokens' : tokens'[i] \in Token /\ tokens'[i].user \in User
    BY TokenRows
  <2>2. \A i \in DOMAIN tokens' : Exists(tokens'[i].user)
    BY DEF IInv, Registered
  <2>3. \A u \in User : Exists(u) => Exists(u)'
    BY <1>3 DEF Grows
  <2>4. \A u \in User : ~ Exists(u)' => user'[u].password = 0
    BY <1>1 DEF IInv, Registered, Exists
  <2> QED
    BY <2>1, <2>2, <2>3, <2>4 DEF IInv, Registered
<1> QED
  BY <1>2, <1>3, <1>4, <1>5, <1>6, Preserve

(* The same when verification_tokens alone is written.                      *)
LEMMA TokensOnly ==
  ASSUME IInv, UNCHANGED <<clock, user, session, abandoned>>,
         \A u \in User : Revoking(u) => Revoking(u)', Kept,
         tokens' \in Seq(Token),
         \A i \in DOMAIN tokens :
           /\ i \in DOMAIN tokens'
           /\ tokens'[i].user = tokens[i].user
           /\ tokens'[i].type = tokens[i].type
           /\ tokens[i].consumed => tokens'[i].consumed,
         \A i \in DOMAIN tokens' \ DOMAIN tokens : Exists(tokens'[i].user)
  PROVE  IInv'
<1>1. TypeOK'
  BY DEF IInv, TypeOK, Kept
<1>2. Grows /\ Quiet
  BY DEF Grows, Quiet, Exists
<1>3. VerifiedByOwnToken'
  BY <1>2, MarksKept
<1>4. Registered'
  <2>1. \A i \in DOMAIN tokens' : Exists(tokens'[i].user)
    BY DEF IInv, Registered
  <2> QED
    BY <2>1 DEF IInv, Registered, Exists
<1> QED
  BY <1>1, <1>2, <1>3, <1>4, Preserve

-----------------------------------------------------------------------------
(* Requests that begin. *)

LEMMA RegisterReadInv ==
  ASSUME IInv, NEW h \in Handler, NEW u \in User, NEW p \in Phone \cup {NoPhone},
         RegisterRead(h, u, p)
  PROVE  IInv'
<1> DEFINE r == [Idle EXCEPT !.phone = p]
<1>1. r \in Task /\ "register" \in Op /\ "create" \in Pc
  BY Basics DEF Task, Op, Pc
<1>2. Begin(h, "register", "create", u, r) /\ TypeOK
  BY DEF RegisterRead, IInv
<1>3. /\ task[h].pc = "idle"
      /\ task' \in [Handler -> Task]
      /\ task'[h] = [r EXCEPT !.op = "register", !.pc = "create", !.user = u]
      /\ \A g \in Handler \ {h} : task'[g] = task[g]
  BY <1>1, <1>2, BeginMoves
<1>4. InFlight(h)'
  BY <1>3 DEF InFlight, Issuing, Idle
<1> QED
  BY <1>3, <1>4, TaskOnly DEF RegisterRead

LEMMA LoginReadInv ==
  ASSUME IInv, NEW h \in Handler, NEW u \in User, LoginRead(h, u)
  PROVE  IInv'
<1> DEFINE r == [Idle EXCEPT !.basis = user[u].password]
<1>1. r \in Task /\ "login" \in Op /\ "sign" \in Pc
  BY Basics DEF Task, Op, Pc, IInv, TypeOK, UserRow
<1>2. Begin(h, "login", "sign", u, r) /\ TypeOK /\ Exists(u) /\ UNCHANGED user
  BY DEF LoginRead, IInv
<1>3. /\ task[h].pc = "idle"
      /\ task' \in [Handler -> Task]
      /\ task'[h] = [r EXCEPT !.op = "login", !.pc = "sign", !.user = u]
      /\ \A g \in Handler \ {h} : task'[g] = task[g]
  BY <1>1, <1>2, BeginMoves
<1>4. InFlight(h)'
  BY <1>2, <1>3 DEF InFlight, Issuing, Idle, Covered, Exists
<1> QED
  BY <1>3, <1>4, TaskOnly DEF LoginRead

LEMMA RefreshFindInv ==
  ASSUME IInv, NEW h \in Handler, NEW u \in User, NEW s \in Second, RefreshFind(h, u, s)
  PROVE  IInv'
<1> DEFINE r == [Idle EXCEPT !.parent = s, !.basis = session[u][s].basis,
                             !.late = session[u][s].late]
<1>0. session[u][s].basis \in Password /\ session[u][s].late \in BOOLEAN
  BY DEF IInv, TypeOK, SessionRow
<1>1. r \in Task /\ "refresh" \in Op /\ "revoke" \in Pc
  BY <1>0, Basics DEF Task, Op, Pc
<1>2. /\ Begin(h, "refresh", "revoke", u, r) /\ TypeOK
      /\ session[u][s].state = "live" /\ UNCHANGED <<user, session, abandoned>>
  BY DEF RefreshFind, BeginRefresh, IInv
<1>3. /\ task[h].pc = "idle"
      /\ task' \in [Handler -> Task]
      /\ task'[h] = [r EXCEPT !.op = "refresh", !.pc = "revoke", !.user = u]
      /\ \A g \in Handler \ {h} : task'[g] = task[g]
  BY <1>1, <1>2, BeginMoves
<1>4. Covered(u, session[u][s].basis, session[u][s].late) /\ Exists(u)
  BY <1>2 DEF IInv, NoSessionOutlivesRevocation, Registered
<1>5. Covered(u, task[h].basis, task[h].late)' /\ Exists(u)'
  BY <1>2, <1>3, <1>4, RevokingKept DEF Covered, Exists, Idle
<1>6. InFlight(h)'
  BY <1>2, <1>3, <1>5 DEF InFlight, Issuing, Idle
<1> QED
  BY <1>3, <1>6, TaskOnly DEF RefreshFind, BeginRefresh

(* An access token is one of a registered user. *)
LEMMA AuthenticatedExists ==
  ASSUME IInv, NEW u \in User, Authenticated(u)
  PROVE  Exists(u)
BY DEF Authenticated, IInv, Registered

LEMMA ChangeReadInv ==
  ASSUME IInv, NEW h \in Handler, NEW u \in User, ChangeRead(h, u)
  PROVE  IInv'
<1> DEFINE r == [Idle EXCEPT !.basis = user[u].password]
<1>1. r \in Task /\ "change" \in Op /\ "password" \in Pc
  BY Basics DEF Task, Op, Pc, IInv, TypeOK, UserRow
<1>2. Begin(h, "change", "password", u, r) /\ TypeOK /\ Exists(u) /\ UNCHANGED user
  BY AuthenticatedExists DEF ChangeRead, IInv
<1>3. /\ task[h].pc = "idle"
      /\ task' \in [Handler -> Task]
      /\ task'[h] = [r EXCEPT !.op = "change", !.pc = "password", !.user = u]
      /\ \A g \in Handler \ {h} : task'[g] = task[g]
  BY <1>1, <1>2, BeginMoves
<1>4. InFlight(h)'
  BY <1>2, <1>3 DEF InFlight, Issuing, Idle, Exists
<1> QED
  BY <1>3, <1>4, TaskOnly DEF ChangeRead

(* A request that has found a token of its type, and of its user but for a  *)
(* code.                                                                    *)
LEMMA BeginConsumeInv ==
  ASSUME IInv, NEW h \in Handler, NEW op \in Op, NEW u \in User, NEW i \in DOMAIN tokens,
         Exists(u), BeginConsume(h, op, u, i),
         op = "verifyPhone" => tokens[i].type = "PHONE_VERIFICATION",
         op = "verifyEmail" => tokens[i].type = "EMAIL_VERIFICATION" /\ tokens[i].user = u
  PROVE  IInv'
<1> DEFINE r == [Idle EXCEPT !.token = i]
<1>0. i \in Nat
  BY TokenRows DEF IInv, TypeOK
<1>1. r \in Task /\ "consume" \in Pc
  BY <1>0, Basics DEF Task, Pc
<1>2. /\ Begin(h, op, "consume", u, r) /\ TypeOK
      /\ UNCHANGED <<clock, user, session, tokens, abandoned>>
  BY DEF BeginConsume, IInv
<1>3. /\ task[h].pc = "idle"
      /\ task' \in [Handler -> Task]
      /\ task'[h] = [r EXCEPT !.op = op, !.pc = "consume", !.user = u]
      /\ \A g \in Handler \ {h} : task'[g] = task[g]
  BY <1>1, <1>2, BeginMoves
<1>4. InFlight(h)'
  BY <1>2, <1>3 DEF InFlight, Issuing, Idle, Exists
<1> QED
  BY <1>2, <1>3, <1>4, TaskOnly

LEMMA FindInv ==
  ASSUME IInv, NEW h \in Handler, NEW i \in DOMAIN tokens,
         \/ VerifyEmailFind(h, i)
         \/ ResetFind(h, i)
         \/ \E u \in User : VerifyPhoneFind(h, u, i)
  PROVE  IInv'
<1>1. tokens[i].user \in User /\ Exists(tokens[i].user)
  BY TokenRows DEF IInv, TypeOK, Registered
<1>2. CASE VerifyEmailFind(h, i)
  BY <1>1, <1>2, BeginConsumeInv DEF VerifyEmailFind, Findable, Op
<1>3. CASE ResetFind(h, i)
  BY <1>1, <1>3, BeginConsumeInv DEF ResetFind, Findable, Op
<1>4. CASE \E u \in User : VerifyPhoneFind(h, u, i)
  BY <1>4, AuthenticatedExists, BeginConsumeInv DEF VerifyPhoneFind, Findable, Op
<1> QED
  BY <1>2, <1>3, <1>4

LEMMA RequestPhoneReadInv ==
  ASSUME IInv, NEW h \in Handler, NEW u \in User, NEW p \in Phone \cup {NoPhone},
         RequestPhoneRead(h, u, p)
  PROVE  IInv'
<1> DEFINE target == IF p = NoPhone THEN user[u].phone ELSE p
           pc == IF target = user[u].phone THEN "otp" ELSE "setPhone"
           r == [Idle EXCEPT !.phone = target]
<1>1. target \in Phone \cup {NoPhone} /\ pc \in {"otp", "setPhone"}
  BY DEF IInv, TypeOK, UserRow
<1>2. /\ Begin(h, "requestPhone", pc, u, r) /\ TypeOK /\ Exists(u)
      /\ UNCHANGED <<clock, user, session, tokens, abandoned>>
  BY AuthenticatedExists DEF RequestPhoneRead, IInv
<1> HIDE DEF target, pc
<1>3. r \in Task /\ "requestPhone" \in Op /\ pc \in Pc
  BY <1>1, Basics DEF Task, Op, Pc
<1>4. /\ task[h].pc = "idle"
      /\ task' \in [Handler -> Task]
      /\ task'[h] = [r EXCEPT !.op = "requestPhone", !.pc = pc, !.user = u]
      /\ \A g \in Handler \ {h} : task'[g] = task[g]
  BY <1>2, <1>3, BeginMoves
<1>5. InFlight(h)'
  BY <1>1, <1>2, <1>4 DEF InFlight, Issuing, Idle, Exists
<1> QED
  BY <1>2, <1>4, <1>5, TaskOnly

-----------------------------------------------------------------------------
(* Requests under way. *)

(* What is true of the record of a request that stands at pc.               *)
LEMMA Standing ==
  ASSUME IInv, NEW h \in Handler, task[h].pc # "idle"
  PROVE  /\ TypeOK /\ InFlight(h) /\ task[h] \in Task /\ task[h].user \in User
         /\ task[h].pc # "create" => Exists(task[h].user)
         /\ user[task[h].user] \in UserRow
BY DEF IInv, TypeOK, InFlight

(* A new row has the first password, on which the first session will rest.  *)
LEMMA RegisterCreateInv ==
  ASSUME IInv, NEW h \in Handler, RegisterCreate(h)
  PROVE  IInv'
<1> DEFINE k == task[h]
           row == [user[k.user] EXCEPT !.status = "PENDING", !.phone = k.phone]
<1>1. TypeOK /\ InFlight(h) /\ k \in Task /\ k.user \in User /\ k.pc = "create"
      /\ user[k.user] \in UserRow
  BY Standing DEF RegisterCreate, At
<1>2. CASE Exists(k.user) \/ PhoneTaken(k.user, k.phone)
  <2>1. Finish(h) /\ UNCHANGED <<clock, user, session, tokens, abandoned>>
    BY <1>2 DEF RegisterCreate
  <2> QED
    BY <1>1, <2>1, FinishMoves, IdleInFlight, TaskOnly
<1>3. CASE ~ (Exists(k.user) \/ PhoneTaken(k.user, k.phone))
  <2>1. /\ Goto(h, "emailToken") /\ UNCHANGED <<clock, session, tokens, abandoned>>
        /\ user' = [user EXCEPT ![k.user] = row]
    BY <1>3 DEF RegisterCreate
  <2>2. /\ task' \in [Handler -> Task]
        /\ task'[h] = [k EXCEPT !.pc = "emailToken"]
        /\ \A g \in Handler \ {h} : task'[g] = task[g]
    BY <1>1, <2>1, GotoMoves DEF Pc
  <2>3. row \in UserRow /\ row.status = "PENDING" /\ row.password = user[k.user].password
        /\ row.emailVerified = user[k.user].emailVerified
        /\ row.phoneVerified = user[k.user].phoneVerified
    BY <1>1 DEF UserRow, Task, UserStatus
  <2> HIDE DEF row
  <2>4. user'[k.user] = row
    BY <1>1, <2>1 DEF TypeOK
  <2>5. row.password = 0 /\ k.basis = 0
    BY <1>1, <1>3, <2>3 DEF IInv, Registered, InFlight
  <2>6. InFlight(h)'
    BY <1>1, <2>1, <2>2, <2>3, <2>4, <2>5
    DEF InFlight, Issuing, Covered, Exists, NoStatus, Task
  <2>7. Kept /\ \A u \in User : Revoking(u) => Revoking(u)'
    BY <1>1, <2>1, <2>2, <2>6, RevokingKept DEF Kept
  <2>8. /\ tokens' \in Seq(Token) /\ tokens' = tokens
        /\ row.status # NoStatus
    BY <1>1, <2>1, <2>3 DEF TypeOK, NoStatus
  <2> QED
    BY <1>1, <2>1, <2>3, <2>7, <2>8, UserAndTokens
<1> QED
  BY <1>2, <1>3

LEMMA SendEmailVerificationInv ==
  ASSUME IInv, NEW h \in Handler, SendEmailVerification(h)
  PROVE  IInv'
<1> DEFINE k == task[h]
<1>1. TypeOK /\ InFlight(h) /\ k \in Task /\ k.user \in User /\ k.pc = "emailToken" /\ Exists(k.user)
  BY Standing DEF SendEmailVerification, At
<1>2. /\ NewToken(k.user, "EMAIL_VERIFICATION", NoCode, NoPhone) /\ Goto(h, "sign")
      /\ UNCHANGED <<clock, user, session, abandoned>>
  BY DEF SendEmailVerification
<1>3. /\ task' \in [Handler -> Task]
      /\ task'[h] = [k EXCEPT !.pc = "sign"]
      /\ \A g \in Handler \ {h} : task'[g] = task[g]
  BY <1>1, <1>2, GotoMoves DEF Pc
<1>4. /\ tokens' \in Seq(Token)
      /\ \A i \in DOMAIN tokens : i \in DOMAIN tokens' /\ tokens'[i] = tokens[i]
      /\ \A i \in DOMAIN tokens' \ DOMAIN tokens : tokens'[i].user = k.user
  BY <1>1, <1>2, NewTokenRow DEF TokenType
<1>5. \A u \in User : Revoking(u) => Revoking(u)'
  BY <1>1, <1>2, <1>3, RevokingKept
<1>6. Covered(k.user, k.basis, k.late)'
  BY <1>1, <1>2, <1>3, <1>5 DEF InFlight, Issuing, Covered
<1>7. InFlight(h)'
  BY <1>1, <1>2, <1>3, <1>4, <1>6 DEF InFlight, Issuing, Exists, Task
<1>8. Kept
  BY <1>3, <1>7 DEF Kept
<1> QED
  BY <1>1, <1>2, <1>4, <1>5, <1>8, TokensOnly

LEMMA SignInv ==
  ASSUME IInv, NEW h \in Handler, Sign(h)
  PROVE  IInv'
<1> DEFINE k == task[h]
           r == [k EXCEPT !.pc = "store", !.iat = clock]
<1>1. TypeOK /\ InFlight(h) /\ k \in Task /\ k.user \in User /\ k.pc = "sign" /\ Exists(k.user)
  BY Standing DEF Sign, At
<1>2. task' = [task EXCEPT ![h] = r] /\ UNCHANGED <<clock, user, session, tokens, abandoned>>
  BY DEF Sign
<1>3. r \in Task
  BY <1>1 DEF Task, Pc, TypeOK
<1>4. /\ task' \in [Handler -> Task]
      /\ task'[h] = r
      /\ \A g \in Handler \ {h} : task'[g] = task[g]
  BY <1>1, <1>2, <1>3, OneMoves
<1>5. Covered(k.user, k.basis, k.late)'
  BY <1>1, <1>2, <1>4, RevokingKept DEF InFlight, Issuing, Covered
<1>6. InFlight(h)'
  BY <1>1, <1>2, <1>4, <1>5 DEF InFlight, Issuing, Exists, Task
<1> QED
  BY <1>1, <1>2, <1>4, <1>6, TaskOnly

LEMMA StoreSessionInv ==
  ASSUME IInv, NEW h \in Handler, StoreSession(h)
  PROVE  IInv'
<1> DEFINE k == task[h]
<1>1. TypeOK /\ InFlight(h) /\ k \in Task /\ k.user \in User /\ k.pc = "store" /\ Exists(k.user)
  BY Standing DEF StoreSession, At
<1>2. Finish(h) /\ UNCHANGED <<clock, user, tokens, abandoned>>
  BY DEF StoreSession
<1>3. /\ task' \in [Handler -> Task]
      /\ task'[h] = Idle
      /\ \A g \in Handler \ {h} : task'[g] = task[g]
  BY <1>1, <1>2, FinishMoves
<1>4. CASE session' = session
  BY <1>1, <1>2, <1>3, <1>4, IdleInFlight, TaskOnly
<1>5. CASE session' = [session EXCEPT ![k.user][k.iat] = NewSession(k)]
  <2>1. NewSession(k) \in SessionRow /\ k.iat \in Second
    BY <1>1 DEF NewSession, SessionRow, Task
  <2>2. Covered(k.user, NewSession(k).basis, NewSession(k).late) /\ NewSession(k).state # "none"
    BY <1>1 DEF InFlight, Issuing, NewSession
  <2> QED
    BY <1>1, <1>2, <1>3, <1>5, <2>1, <2>2, IdleInFlight, SessionOnly
<1> QED
  BY <1>4, <1>5 DEF StoreSession

LEMMA RefreshRevokeInv ==
  ASSUME IInv, NEW h \in Handler, RefreshRevoke(h)
  PROVE  IInv'
<1> DEFINE k == task[h]
           row == [session[k.user][k.parent] EXCEPT !.state = "revoked"]
<1>1. TypeOK /\ InFlight(h) /\ k \in Task /\ k.user \in User /\ k.pc = "revoke" /\ Exists(k.user)
  BY Standing DEF RefreshRevoke, At
<1>2. /\ Goto(h, "sign") /\ UNCHANGED <<clock, user, tokens, abandoned>>
      /\ session' = [session EXCEPT ![k.user][k.parent] = row]
  BY DEF RefreshRevoke
<1>3. /\ task' \in [Handler -> Task]
      /\ task'[h] = [k EXCEPT !.pc = "sign"]
      /\ \A g \in Handler \ {h} : task'[g] = task[g]
  BY <1>1, <1>2, GotoMoves DEF Pc
<1>4. k.parent \in Second
  BY <1>1 DEF InFlight
<1>5. row \in SessionRow /\ row.state = "revoked"
  BY <1>1, <1>4 DEF TypeOK, SessionRow
<1>6. Covered(k.user, k.basis, k.late)'
  BY <1>1, <1>2, <1>3, RevokingKept DEF InFlight, Issuing, Covered
<1>7. InFlight(h)'
  BY <1>1, <1>2, <1>3, <1>6 DEF InFlight, Issuing, Exists, Task
<1> HIDE DEF row
<1> QED
  BY <1>1, <1>2, <1>3, <1>4, <1>5, <1>7, SessionOnly

(* The use of a token counted, or not: its owner, type and mark stay.       *)
LEMMA UsedRow ==
  ASSUME IInv, NEW h \in Handler, task[h].token \in DOMAIN tokens, tokens' = Used(h)
  PROVE  /\ tokens' \in Seq(Token) /\ DOMAIN tokens' = DOMAIN tokens
         /\ \A i \in DOMAIN tokens : /\ tokens'[i].user = tokens[i].user
                                     /\ tokens'[i].type = tokens[i].type
                                     /\ tokens'[i].consumed = tokens[i].consumed
<1> DEFINE n == task[h].token
           uses == IF tokens[n].uses < UseCap THEN tokens[n].uses + 1 ELSE tokens[n].uses
           t == [tokens[n] EXCEPT !.uses = uses]
<1>1. TypeOK /\ tokens[n] \in Token
  BY TokenRows DEF IInv, TypeOK
<1>2. uses \in 0 .. UseCap
  BY <1>1 DEF Token, UseCap
<1>3. tokens' = [tokens EXCEPT ![n] = t]
  BY DEF Used
<1> HIDE DEF uses
<1>4. t \in Token /\ t.user = tokens[n].user /\ t.type = tokens[n].type
      /\ t.consumed = tokens[n].consumed
  BY <1>1, <1>2 DEF Token
<1> HIDE DEF t
<1> QED
  BY <1>1, <1>3, <1>4, TokenWritten

LEMMA UpdatePasswordInv ==
  ASSUME IInv, NEW h \in Handler, UpdatePassword(h)
  PROVE  IInv'
<1> DEFINE k == task[h]
           v == k.user
           row == [user[v] EXCEPT !.password = @ + 1]
<1>1. TypeOK /\ InFlight(h) /\ k \in Task /\ v \in User /\ k.pc = "password" /\ Exists(v)
      /\ user[v] \in UserRow
  BY Standing DEF UpdatePassword, At
<1>2. /\ Goto(h, "revokeAll") /\ UNCHANGED <<clock, session, abandoned>>
      /\ user' = [user EXCEPT ![v] = row] /\ user[v].password < MaxPassword
  BY DEF UpdatePassword
<1>3. /\ task' \in [Handler -> Task]
      /\ task'[h] = [k EXCEPT !.pc = "revokeAll"]
      /\ \A g \in Handler \ {h} : task'[g] = task[g]
  BY <1>1, <1>2, GotoMoves DEF Pc
<1>4. row \in UserRow /\ row.status = user[v].status
      /\ row.emailVerified = user[v].emailVerified /\ row.phoneVerified = user[v].phoneVerified
  BY <1>1, <1>2, BoundsAssumption DEF UserRow, Password
<1> HIDE DEF row
<1>5. /\ tokens' \in Seq(Token) /\ DOMAIN tokens' = DOMAIN tokens
      /\ \A i \in DOMAIN tokens : /\ tokens'[i].user = tokens[i].user
                                  /\ tokens'[i].type = tokens[i].type
                                  /\ tokens'[i].consumed = tokens[i].consumed
  <2>1. CASE k.op = "reset"
    BY <1>1, <2>1, UsedRow DEF UpdatePassword, InFlight
  <2>2. CASE k.op # "reset"
    BY <1>1, <2>2 DEF UpdatePassword, TypeOK
  <2> QED
    BY <2>1, <2>2
<1>6. \A u \in {v} : Revoking(u)'
  BY <1>1, <1>3 DEF Revoking, At, Task
<1>7. \A u \in User : Revoking(u) => Revoking(u)'
  BY <1>1, <1>2, <1>3, RevokingKept
<1>8. user'[v] = row
  BY <1>1, <1>2 DEF TypeOK
<1>9. InFlight(h)'
  BY <1>1, <1>3, <1>4, <1>5, <1>8 DEF InFlight, Issuing, Exists, Task
<1>10. Kept
  BY <1>3, <1>9 DEF Kept
<1>11. row.status # NoStatus
  BY <1>1, <1>4 DEF Exists
<1> QED
  BY <1>1, <1>2, <1>4, <1>5, <1>6, <1>7, <1>10, <1>11, UserAndTokens

LEMMA ConsumeTokenInv ==
  ASSUME IInv, NEW h \in Handler, ConsumeToken(h)
  PROVE  IInv'
<1> DEFINE k == task[h]
           n == k.token
           t == [tokens[n] EXCEPT !.consumed = TRUE]
<1>1. TypeOK /\ InFlight(h) /\ k \in Task /\ k.user \in User /\ k.pc = "consume" /\ Exists(k.user)
      /\ n \in DOMAIN tokens
  BY Standing DEF ConsumeToken, At, InFlight
<1>2. tokens' = [tokens EXCEPT ![n] = t] /\ UNCHANGED <<clock, user, session, abandoned>>
  BY DEF ConsumeToken
<1>3. tokens[n] \in Token
  BY <1>1, TokenRows DEF TypeOK
<1>4. t \in Token /\ t.user = tokens[n].user /\ t.type = tokens[n].type /\ t.consumed
  BY <1>3 DEF Token
<1> HIDE DEF t
<1>5. /\ tokens' \in Seq(Token)
      /\ DOMAIN tokens' = DOMAIN tokens
      /\ tokens'[n] = t
      /\ \A i \in DOMAIN tokens : i # n => tokens'[i] = tokens[i]
  BY <1>1, <1>2, <1>4, TokenWritten
<1>6. \A i \in DOMAIN tokens : /\ tokens'[i].user = tokens[i].user
                               /\ tokens'[i].type = tokens[i].type
                               /\ tokens[i].consumed => tokens'[i].consumed
  BY <1>4, <1>5
<1>7. /\ task' \in [Handler -> Task] /\ InFlight(h)'
      /\ \A g \in Handler \ {h} : task'[g] = task[g]
  <2>1. CASE k.op = "verifyEmail" /\ Goto(h, "email")
    <3>1. /\ task' \in [Handler -> Task]
          /\ task'[h] = [k EXCEPT !.pc = "email"]
          /\ \A g \in Handler \ {h} : task'[g] = task[g]
      BY <1>1, <2>1, GotoMoves DEF Pc
    <3>2. tokens[n].type = "EMAIL_VERIFICATION" /\ tokens[n].user = k.user
      BY <1>1, <2>1 DEF InFlight
    <3> QED
      BY <1>1, <1>2, <1>4, <1>5, <3>1, <3>2 DEF InFlight, Issuing, Exists, Task
  <2>2. CASE k.op = "reset" /\ Goto(h, "password")
    <3>1. /\ task' \in [Handler -> Task]
          /\ task'[h] = [k EXCEPT !.pc = "password"]
          /\ \A g \in Handler \ {h} : task'[g] = task[g]
      BY <1>1, <2>2, GotoMoves DEF Pc
    <3> QED
      BY <1>1, <1>2, <1>5, <3>1 DEF InFlight, Issuing, Exists, Task
  <2>3. CASE k.op = "verifyPhone" /\ tokens[n].user = k.user /\ Goto(h, "phone")
    <3>1. /\ task' \in [Handler -> Task]
          /\ task'[h] = [k EXCEPT !.pc = "phone"]
          /\ \A g \in Handler \ {h} : task'[g] = task[g]
      BY <1>1, <2>3, GotoMoves DEF Pc
    <3>2. tokens[n].type = "PHONE_VERIFICATION"
      BY <1>1, <2>3 DEF InFlight
    <3> QED
      BY <1>1, <1>2, <1>4, <1>5, <2>3, <3>1, <3>2 DEF InFlight, Issuing, Exists, Task
  <2>4. CASE Finish(h)
    BY <1>1, <2>4, FinishMoves, IdleInFlight
  <2> QED
    BY <2>1, <2>2, <2>3, <2>4 DEF ConsumeToken, AfterConsume
<1>8. Kept /\ \A u \in User : Revoking(u) => Revoking(u)'
  BY <1>1, <1>2, <1>7, RevokingKept DEF Kept
<1> QED
  BY <1>2, <1>5, <1>6, <1>8, TokensOnly

(* A mark is set with the proof in hand. *)
LEMMA MarkInv ==
  ASSUME IInv, NEW h \in Handler, MarkEmailVerified(h) \/ MarkPhoneVerified(h)
  PROVE  IInv'
<1> DEFINE k == task[h]
           v == k.user
<1>1. TypeOK /\ InFlight(h) /\ k \in Task /\ v \in User /\ k.pc \in {"email", "phone"} /\ Exists(v)
      /\ user[v] \in UserRow /\ k.token \in DOMAIN tokens
  BY Standing DEF MarkEmailVerified, MarkPhoneVerified, At, InFlight
<1>2. Finish(h) /\ tokens' = Used(h) /\ UNCHANGED <<clock, session, abandoned>>
  BY DEF MarkEmailVerified, MarkPhoneVerified
<1>3. /\ task' \in [Handler -> Task] /\ InFlight(h)'
      /\ \A g \in Handler \ {h} : task'[g] = task[g]
  BY <1>1, <1>2, FinishMoves, IdleInFlight
<1>4. /\ tokens' \in Seq(Token) /\ DOMAIN tokens' = DOMAIN tokens
      /\ \A i \in DOMAIN tokens : /\ tokens'[i].user = tokens[i].user
                                  /\ tokens'[i].type = tokens[i].type
                                  /\ tokens'[i].consumed = tokens[i].consumed
  BY <1>1, <1>2, UsedRow
<1>5. Kept /\ \A u \in User : Revoking(u) => Revoking(u)'
  BY <1>1, <1>2, <1>3, RevokingKept DEF Kept
<1>6. CASE MarkEmailVerified(h)
  <2> DEFINE row == [user[v] EXCEPT !.emailVerified = TRUE, !.status = "ACTIVE"]
  <2>1. user' = [user EXCEPT ![v] = row] /\ k.pc = "email"
    BY <1>6 DEF MarkEmailVerified, At
  <2>2. /\ row \in UserRow /\ row.status = "ACTIVE" /\ row.password = user[v].password
        /\ row.phoneVerified = user[v].phoneVerified
    BY <1>1 DEF UserRow, UserStatus
  <2>3. Proof(v, "EMAIL_VERIFICATION")
    BY <1>1, <2>1 DEF InFlight, Proof
  <2>4. row.status # NoStatus
    BY <2>2 DEF NoStatus
  <2> HIDE DEF row
  <2> QED
    BY <1>1, <1>2, <1>4, <1>5, <2>1, <2>2, <2>3, <2>4, UserAndTokens
<1>7. CASE MarkPhoneVerified(h)
  <2> DEFINE row == [user[v] EXCEPT !.phoneVerified = TRUE]
  <2>1. user' = [user EXCEPT ![v] = row] /\ k.pc = "phone"
    BY <1>7 DEF MarkPhoneVerified, At
  <2>2. /\ row \in UserRow /\ row.status = user[v].status /\ row.password = user[v].password
        /\ row.emailVerified = user[v].emailVerified
    BY <1>1 DEF UserRow
  <2>3. Proof(v, "PHONE_VERIFICATION")
    BY <1>1, <2>1 DEF InFlight, Proof
  <2>4. row.status # NoStatus
    BY <1>1, <2>2 DEF Exists
  <2> HIDE DEF row
  <2> QED
    BY <1>1, <1>2, <1>4, <1>5, <2>1, <2>2, <2>3, <2>4, UserAndTokens
<1> QED
  BY <1>6, <1>7

LEMMA SetPhoneInv ==
  ASSUME IInv, NEW h \in Handler, SetPhone(h)
  PROVE  IInv'
<1> DEFINE k == task[h]
           v == k.user
           row == [user[v] EXCEPT !.phone = k.phone]
<1>1. TypeOK /\ InFlight(h) /\ k \in Task /\ v \in User /\ k.pc = "setPhone" /\ Exists(v)
      /\ user[v] \in UserRow
  BY Standing DEF SetPhone, At
<1>2. UNCHANGED <<clock, session, tokens, abandoned>>
  BY DEF SetPhone
<1>3. CASE Finish(h) /\ UNCHANGED user
  BY <1>1, <1>2, <1>3, FinishMoves, IdleInFlight, TaskOnly
<1>4. CASE Goto(h, "otp") /\ user' = [user EXCEPT ![v] = row]
  <2>1. /\ task' \in [Handler -> Task]
        /\ task'[h] = [k EXCEPT !.pc = "otp"]
        /\ \A g \in Handler \ {h} : task'[g] = task[g]
    BY <1>1, <1>4, GotoMoves DEF Pc
  <2>2. /\ row \in UserRow /\ row.status = user[v].status /\ row.password = user[v].password
        /\ row.emailVerified = user[v].emailVerified
        /\ row.phoneVerified = user[v].phoneVerified
    BY <1>1 DEF UserRow, Task
  <2> HIDE DEF row
  <2>3. user'[v] = row /\ row.status # NoStatus
    BY <1>1, <1>4, <2>2 DEF TypeOK, Exists
  <2>4. InFlight(h)'
    BY <1>1, <1>2, <2>1, <2>3 DEF InFlight, Issuing, Exists, Task
  <2>5. Kept /\ \A u \in User : Revoking(u) => Revoking(u)'
    BY <1>1, <1>2, <2>1, <2>4, RevokingKept DEF Kept
  <2>6. tokens' \in Seq(Token) /\ tokens' = tokens
    BY <1>1, <1>2 DEF TypeOK
  <2> QED
    BY <1>1, <1>2, <1>4, <2>2, <2>3, <2>5, <2>6, UserAndTokens
<1> QED
  BY <1>3, <1>4 DEF SetPhone

LEMMA CreateOtpCodeInv ==
  ASSUME IInv, NEW h \in Handler, CreateOtpCode(h)
  PROVE  IInv'
<1> DEFINE k == task[h]
<1>1. TypeOK /\ k \in Task /\ k.user \in User /\ k.pc = "otp" /\ Exists(k.user)
  BY Standing DEF CreateOtpCode, At
<1>2. Finish(h) /\ UNCHANGED <<clock, user, session, abandoned>>
  BY DEF CreateOtpCode
<1>3. /\ task' \in [Handler -> Task] /\ InFlight(h)'
      /\ \A g \in Handler \ {h} : task'[g] = task[g]
  BY <1>1, <1>2, FinishMoves, IdleInFlight
<1>4. PICK c \in Code : NewToken(k.user, "PHONE_VERIFICATION", c, k.phone)
  BY DEF CreateOtpCode
<1>5. /\ tokens' \in Seq(Token)
      /\ \A i \in DOMAIN tokens : i \in DOMAIN tokens' /\ tokens'[i] = tokens[i]
      /\ \A i \in DOMAIN tokens' \ DOMAIN tokens : tokens'[i].user = k.user
  BY <1>1, <1>4, NewTokenRow DEF TokenType, Task
<1>6. Kept /\ \A u \in User : Revoking(u) => Revoking(u)'
  BY <1>1, <1>2, <1>3, RevokingKept DEF Kept
<1> QED
  BY <1>1, <1>2, <1>5, <1>6, TokensOnly

-----------------------------------------------------------------------------
(* Revocation: the rows are revoked, the requests of the user late.         *)

LEMMA RevocationInv ==
  ASSUME IInv, NEW v \in User, UNCHANGED <<clock, user, tokens>>,
         session' = RevokedRows(v), abandoned' = abandoned \ {v},
         task' \in [Handler -> Task],
         \A g \in Handler : \/ task'[g] = Idle
                            \/ task[g].user # v /\ task'[g] = task[g]
                            \/ task[g].user = v /\ task'[g] = [task[g] EXCEPT !.late = TRUE],
         \A g \in Handler : task'[g] = Idle => task[g].user \in {v, NoUser}
  PROVE  IInv'
<1>1. TypeOK /\ session \in [User -> [Second -> SessionRow]]
  BY DEF IInv, TypeOK
<1>2. \A s \in Second :
        /\ session'[v][s] \in SessionRow
        /\ session'[v][s].state # "live"
        /\ session'[v][s].state # "none" <=> session[v][s].state # "none"
  <2> TAKE s \in Second
  <2>1. session[v][s] \in SessionRow
    BY <1>1
  <2>2. session'[v][s] = IF session[v][s].state = "live"
                           THEN [session[v][s] EXCEPT !.state = "revoked"]
                           ELSE session[v][s]
    BY <1>1 DEF RevokedRows
  <2> QED
    BY <2>1, <2>2 DEF SessionRow
<1>3. /\ session' \in [User -> [Second -> SessionRow]]
      /\ \A u \in User : u # v => session'[u] = session[u]
  BY <1>1 DEF RevokedRows, SessionRow
<1>4. TypeOK'
  BY <1>1, <1>3 DEF TypeOK
<1>5. \A u \in User : u # v /\ Revoking(u) => Revoking(u)'
  BY NoUserAssumption DEF Revoking, At
<1>6. NoSessionOutlivesRevocation'
  <2> SUFFICES ASSUME NEW u \in User, NEW s \in Second, session'[u][s].state = "live"
               PROVE  Covered(u, session[u][s].basis, session[u][s].late)'
    BY DEF NoSessionOutlivesRevocation
  <2>1. u # v /\ session'[u][s] = session[u][s]
    BY <1>2, <1>3
  <2>2. Covered(u, session[u][s].basis, session[u][s].late)
    BY <2>1 DEF IInv, NoSessionOutlivesRevocation
  <2> QED
    BY <1>5, <2>1, <2>2 DEF Covered
<1>7. VerifiedByOwnToken'
  BY DEF IInv, VerifiedByOwnToken, Proof
<1>8. Registered'
  BY <1>2, <1>3 DEF IInv, Registered, Exists
<1>9. ASSUME NEW g \in Handler PROVE InFlight(g)'
  <2>1. InFlight(g) /\ task[g] \in Task
    BY <1>1 DEF IInv, TypeOK
  <2>2. CASE task'[g] = Idle
    BY <2>2, IdleInFlight
  <2>3. CASE task[g].user # v /\ task'[g] = task[g]
    <3>1. task[g].pc # "idle" => task[g].user \in User
      BY <2>1 DEF InFlight
    <3>2. task[g].pc \in Issuing => Covered(task[g].user, task[g].basis, task[g].late)'
      BY <1>5, <2>1, <2>3, <3>1 DEF InFlight, Covered, Issuing
    <3> QED
      BY <1>3, <2>1, <2>3, <3>1, <3>2 DEF InFlight, Exists, Issuing
  <2>4. CASE task[g].user = v /\ task'[g] = [task[g] EXCEPT !.late = TRUE]
    <3>1. Covered(task[g].user, task[g].basis, task[g].late)'
      BY <2>1, <2>4 DEF Covered, Task
    <3>2. task'[g].pc = "revoke" => session'[v][task'[g].parent].state # "none"
      BY <1>2, <2>1, <2>4 DEF InFlight, Task
    <3> QED
      BY <2>1, <2>4, <3>1, <3>2 DEF InFlight, Exists, Issuing, Task
  <2> QED
    BY <2>2, <2>3, <2>4
<1> QED
  BY <1>4, <1>6, <1>7, <1>8, <1>9 DEF IInv

(* The requests of v marked late. *)
LEMMA OvertakenTasks ==
  ASSUME TypeOK, NEW v \in User
  PROVE  /\ Overtaken(v) \in [Handler -> Task]
         /\ \A g \in Handler :
              Overtaken(v)[g] = IF task[g].user = v THEN [task[g] EXCEPT !.late = TRUE]
                                                     ELSE task[g]
BY DEF Overtaken, TypeOK, Task

LEMMA LogoutInv ==
  ASSUME IInv, NEW u \in User, Logout(u)
  PROVE  IInv'
<1>1. TypeOK
  BY DEF IInv
<1>2. task' = Overtaken(u)
  BY DEF Logout
<1>3. task' \in [Handler -> Task]
  BY <1>1, <1>2, OvertakenTasks
<1>4. \A g \in Handler : \/ task[g].user # u /\ task'[g] = task[g]
                         \/ task[g].user = u /\ task'[g] = [task[g] EXCEPT !.late = TRUE]
  BY <1>1, <1>2, OvertakenTasks
<1>5. \A g \in Handler : task'[g] = Idle => task[g].user \in {u, NoUser}
  BY <1>4, Idle.user = NoUser DEF Idle
<1> QED
  BY <1>3, <1>4, <1>5, RevocationInv DEF Logout

LEMMA RevokeAllInv ==
  ASSUME IInv, NEW h \in Handler, RevokeAllUserSessions(h)
  PROVE  IInv'
<1> DEFINE v == task[h].user
<1>1. TypeOK /\ v \in User
  BY Standing DEF RevokeAllUserSessions, At
<1>2. task' = [Overtaken(v) EXCEPT ![h] = Idle]
  BY DEF RevokeAllUserSessions
<1>3. task' \in [Handler -> Task] /\ task'[h] = Idle
  BY <1>1, <1>2, OvertakenTasks, Basics
<1>4. \A g \in Handler \ {h} : \/ task[g].user # v /\ task'[g] = task[g]
                               \/ task[g].user = v /\ task'[g] = [task[g] EXCEPT !.late = TRUE]
  BY <1>1, <1>2, OvertakenTasks
<1>5. \A g \in Handler : task'[g] = Idle => task[g].user \in {v, NoUser}
  BY <1>4, Idle.user = NoUser DEF Idle
<1>6. UNCHANGED <<clock, user, tokens>> /\ session' = RevokedRows(v) /\ abandoned' = abandoned \ {v}
  BY DEF RevokeAllUserSessions
<1> HIDE DEF v
<1> QED
  BY <1>1, <1>3, <1>4, <1>5, <1>6, RevocationInv

-----------------------------------------------------------------------------
(* Requests of one statement, time and failures. *)

LEMMA StillKept ==
  ASSUME IInv, UNCHANGED <<task, abandoned>>
  PROVE  Kept /\ \A u \in User : Revoking(u) => Revoking(u)'
BY DEF IInv, TypeOK, Kept, Revoking, At

LEMMA ForgotPasswordInv ==
  ASSUME IInv, NEW u \in User, ForgotPassword(u)
  PROVE  IInv'
<1>1. /\ TypeOK /\ Exists(u) /\ NewToken(u, "PASSWORD_RESET", NoCode, NoPhone)
      /\ UNCHANGED <<clock, user, session, task, abandoned>>
  BY DEF ForgotPassword, IInv
<1>2. /\ tokens' \in Seq(Token)
      /\ \A i \in DOMAIN tokens : i \in DOMAIN tokens' /\ tokens'[i] = tokens[i]
      /\ \A i \in DOMAIN tokens' \ DOMAIN tokens : tokens'[i].user = u
  BY <1>1, NewTokenRow DEF TokenType
<1>3. Kept /\ \A v \in User : Revoking(v) => Revoking(v)'
  BY <1>1, StillKept
<1> QED
  BY <1>1, <1>2, <1>3, TokensOnly

LEMMA UserRowInv ==
  ASSUME IInv, NEW u \in User, Exists(u), UNCHANGED <<clock, session, tokens, task, abandoned>>,
         \/ \E p \in Phone \cup {NoPhone} : user' = [user EXCEPT ![u].phone = p]
         \/ \E st \in UserStatus : user' = [user EXCEPT ![u].status = st]
  PROVE  IInv'
<1>1. user[u] \in UserRow /\ tokens \in Seq(Token)
  BY DEF IInv, TypeOK
<1>2. PICK row \in UserRow :
        /\ user' = [user EXCEPT ![u] = row]
        /\ row.status # NoStatus /\ row.password = user[u].password
        /\ row.emailVerified = user[u].emailVerified
        /\ row.phoneVerified = user[u].phoneVerified
  <2>1. CASE \E p \in Phone \cup {NoPhone} : user' = [user EXCEPT ![u].phone = p]
    <3>1. PICK p \in Phone \cup {NoPhone} : user' = [user EXCEPT ![u].phone = p]
      BY <2>1
    <3>2. [user[u] EXCEPT !.phone = p] \in UserRow
      BY <1>1 DEF UserRow
    <3> WITNESS [user[u] EXCEPT !.phone = p] \in UserRow
    <3> QED
      BY <1>1, <3>1 DEF UserRow, Exists
  <2>2. CASE \E st \in UserStatus : user' = [user EXCEPT ![u].status = st]
    <3>1. PICK st \in UserStatus : user' = [user EXCEPT ![u].status = st]
      BY <2>2
    <3>2. [user[u] EXCEPT !.status = st] \in UserRow
      BY <1>1 DEF UserRow
    <3> WITNESS [user[u] EXCEPT !.status = st] \in UserRow
    <3> QED
      BY <1>1, <3>1, Basics DEF UserRow
  <2> QED
    BY <2>1, <2>2
<1>3. Kept /\ \A v \in User : Revoking(v) => Revoking(v)'
  BY StillKept
<1> QED
  BY <1>1, <1>2, <1>3, UserAndTokens

LEMMA AtOnceInv ==
  ASSUME IInv, NEW u \in User, AtOnce(u)
  PROVE  IInv'
<1>1. CASE Logout(u)
  BY <1>1, LogoutInv
<1>2. CASE ForgotPassword(u)
  BY <1>2, ForgotPasswordInv
<1>3. CASE \E p \in Phone \cup {NoPhone} : UpdateProfile(u, p)
  BY <1>3, AuthenticatedExists, UserRowInv DEF UpdateProfile
<1>4. CASE \E s \in UserStatus : UpdateUserStatus(u, s)
  BY <1>4, UserRowInv DEF UpdateUserStatus
<1> QED
  BY <1>1, <1>2, <1>3, <1>4 DEF AtOnce

LEMMA TickInv == IInv /\ Tick => IInv'
<1> SUFFICES ASSUME IInv, Tick PROVE IInv'
  OBVIOUS
<1>1. UNCHANGED <<user, session, tokens, task, abandoned>> /\ clock' \in Second
  BY BoundsAssumption DEF Tick, IInv, TypeOK, Second
<1>2. TypeOK'
  BY <1>1 DEF IInv, TypeOK
<1>3. Grows /\ Quiet /\ Kept
  BY <1>1, GrowsStill, StillKept DEF Quiet
<1>4. VerifiedByOwnToken'
  BY <1>1, <1>3, MarksKept
<1>5. Registered'
  BY <1>1 DEF IInv, Registered, Exists
<1> QED
  BY <1>1, <1>2, <1>3, <1>4, <1>5, Preserve

(* A request cut short before it revokes leaves its user to abandoned.      *)
LEMMA CrashInv ==
  ASSUME IInv, NEW h \in Handler, Crash(h)
  PROVE  IInv'
<1>1. TypeOK /\ task[h].user \in User
  BY Standing DEF Crash, At
<1>2. Finish(h) /\ UNCHANGED <<clock, user, session, tokens>>
  BY DEF Crash
<1>3. /\ task' \in [Handler -> Task] /\ InFlight(h)'
      /\ \A g \in Handler \ {h} : task'[g] = task[g]
  BY <1>1, <1>2, FinishMoves, IdleInFlight
<1>4. \A u \in User : Revoking(u) => Revoking(u)'
  BY <1>3 DEF Crash, Revoking, At
<1>5. abandoned' \in SUBSET User
  BY <1>1 DEF Crash, TypeOK
<1>6. TypeOK'
  BY <1>1, <1>2, <1>3, <1>5 DEF TypeOK
<1>7. Grows /\ Quiet /\ Kept
  BY <1>2, <1>3, <1>4, GrowsStill DEF Quiet, Kept
<1>8. VerifiedByOwnToken'
  BY <1>2, <1>7, MarksKept
<1>9. Registered'
  BY <1>2 DEF IInv, Registered, Exists
<1> QED
  BY <1>2, <1>6, <1>7, <1>8, <1>9, Preserve

LEMMA StutterInv == IInv /\ UNCHANGED vars => IInv'
<1> SUFFICES ASSUME IInv, UNCHANGED vars PROVE IInv'
  OBVIOUS
<1>1. UNCHANGED <<clock, user, session, tokens, task, abandoned>>
  BY DEF vars
<1>2. TypeOK' /\ Registered' /\ Grows
  BY <1>1 DEF IInv, TypeOK, Registered, Exists, Grows
<1>3. Quiet /\ Kept
  BY <1>1, StillKept DEF Quiet
<1>4. VerifiedByOwnToken'
  BY <1>1, <1>2, MarksKept
<1> QED
  BY <1>1, <1>2, <1>3, <1>4, Preserve

LEMMA ArriveInv ==
  ASSUME IInv, NEW h \in Handler, Arrive(h)
  PROVE  IInv'
<1>1. CASE \E u \in User, p \in Phone \cup {NoPhone} :
              RegisterRead(h, u, p) \/ RequestPhoneRead(h, u, p)
  BY <1>1, RegisterReadInv, RequestPhoneReadInv
<1>2. CASE \E u \in User : LoginRead(h, u) \/ ChangeRead(h, u)
  BY <1>2, LoginReadInv, ChangeReadInv
<1>3. CASE \E u \in User, s \in Second : RefreshFind(h, u, s)
  BY <1>3, RefreshFindInv
<1>4. CASE \E i \in DOMAIN tokens :
              \/ VerifyEmailFind(h, i)
              \/ ResetFind(h, i)
              \/ \E u \in User : VerifyPhoneFind(h, u, i)
  BY <1>4, FindInv
<1> QED
  BY <1>1, <1>2, <1>3, <1>4 DEF Arrive

LEMMA ProceedInv ==
  ASSUME IInv, NEW h \in Handler, Proceed(h)
  PROVE  IInv'
BY RegisterCreateInv, SendEmailVerificationInv, SignInv, StoreSessionInv, RefreshRevokeInv,
   UpdatePasswordInv, RevokeAllInv, ConsumeTokenInv, MarkInv, SetPhoneInv, CreateOtpCodeInv
   DEF Proceed

LEMMA NextInv == IInv /\ [Next]_vars => IInv'
<1> SUFFICES ASSUME IInv, [Next]_vars PROVE IInv'
  OBVIOUS
<1> QED
  BY ArriveInv, ProceedInv, CrashInv, AtOnceInv, TickInv, StutterInv DEF Next

-----------------------------------------------------------------------------
(* The theorems. *)

(* The inductive invariant holds in every state.  (all of auth)             *)
THEOREM AccountsInvariantHolds == Spec => []IInv
<1>1. Init => IInv
  BY InitInv
<1>2. IInv /\ [Next]_vars => IInv'
  BY NextInv
<1> QED
  BY <1>1, <1>2, PTL DEF Spec

(* Every table and request keeps its type. *)
THEOREM AccountsTypeCorrect == Spec => []TypeOK
<1>1. IInv => TypeOK
  BY DEF IInv
<1> QED
  BY <1>1, AccountsInvariantHolds, PTL

(* Once the password has changed and the sessions are revoked, a session    *)
(* that lives on was being issued at that time.  (changePassword,           *)
(* resetPassword, revokeAllUserSessions)                                    *)
THEOREM RevocationCoversSessions == Spec => []NoSessionOutlivesRevocation
<1>1. IInv => NoSessionOutlivesRevocation
  BY DEF IInv
<1> QED
  BY <1>1, AccountsInvariantHolds, PTL

(* No user is marked verified by the code of another.  (consumeToken,       *)
(* verifyEmail, verifyPhone)                                                *)
THEOREM VerificationIsOwn == Spec => []VerifiedByOwnToken
<1>1. IInv => VerifiedByOwnToken
  BY DEF IInv
<1> QED
  BY <1>1, AccountsInvariantHolds, PTL

(* A revoked refresh token stays revoked in every step. *)
LEMMA RevokedStep ==
  ASSUME IInv, [Next]_vars, NEW u \in User, NEW s \in Second, session[u][s].state = "revoked"
  PROVE  session'[u][s].state = "revoked"
<1>1. session \in [User -> [Second -> SessionRow]]
  BY DEF IInv, TypeOK
<1>2. ASSUME NEW v \in User, session' = RevokedRows(v)
      PROVE  session'[u][s].state = "revoked"
  BY <1>1, <1>2 DEF RevokedRows
<1>3. ASSUME NEW h \in Handler, StoreSession(h)
      PROVE  session'[u][s].state = "revoked"
  BY <1>1, <1>3 DEF StoreSession
<1>4. ASSUME NEW h \in Handler, RefreshRevoke(h)
      PROVE  session'[u][s].state = "revoked"
  <2> DEFINE k == task[h]
             row == [session[k.user][k.parent] EXCEPT !.state = "revoked"]
  <2>1. k.user \in User /\ k.parent \in Second
    BY <1>4, Standing DEF RefreshRevoke, At, InFlight
  <2>2. session' = [session EXCEPT ![k.user][k.parent] = row]
    BY <1>4 DEF RefreshRevoke
  <2>3. row.state = "revoked"
    BY <1>1, <2>1 DEF SessionRow
  <2> HIDE DEF row
  <2> QED
    BY <1>1, <2>1, <2>2, <2>3
<1>5. ASSUME NEW h \in Handler, RevokeAllUserSessions(h)
      PROVE  session'[u][s].state = "revoked"
  BY <1>2, <1>5, Standing DEF RevokeAllUserSessions, At
<1>6. ASSUME NEW v \in User, Logout(v)
      PROVE  session'[u][s].state = "revoked"
  BY <1>2, <1>6 DEF Logout
<1>7. CASE UNCHANGED session
  BY <1>7
<1>8. \/ \E h \in Handler : StoreSession(h) \/ RefreshRevoke(h) \/ RevokeAllUserSessions(h)
      \/ \E v \in User : Logout(v)
      \/ UNCHANGED session
  <2>1. ASSUME NEW h \in Handler, Arrive(h) PROVE UNCHANGED session
    BY <2>1 DEF Arrive, RegisterRead, RequestPhoneRead, LoginRead, ChangeRead, RefreshFind,
       BeginRefresh, VerifyEmailFind, ResetFind, VerifyPhoneFind, BeginConsume
  <2>2. ASSUME NEW h \in Handler, Proceed(h)
        PROVE  \/ StoreSession(h) \/ RefreshRevoke(h) \/ RevokeAllUserSessions(h)
               \/ UNCHANGED session
    BY <2>2 DEF Proceed, RegisterCreate, SendEmailVerification, Sign, UpdatePassword,
       ConsumeToken, MarkEmailVerified, SetPhone, CreateOtpCode, MarkPhoneVerified
  <2>3. ASSUME NEW v \in User, AtOnce(v) PROVE Logout(v) \/ UNCHANGED session
    BY <2>3 DEF AtOnce, ForgotPassword, UpdateProfile, UpdateUserStatus
  <2>4. (Tick \/ (\E h \in Handler : Crash(h)) \/ UNCHANGED vars) => UNCHANGED session
    BY DEF Tick, Crash, vars
  <2> QED
    BY <2>1, <2>2, <2>3, <2>4 DEF Next
<1> QED
  BY <1>3, <1>4, <1>5, <1>6, <1>7, <1>8

(* A revoked refresh token is never good again.  (the unique tokenHash,     *)
(* revokedAt never reset)                                                   *)
THEOREM RevokedStaysRevoked == Spec => RevokedForGood
<1>1. IInv /\ [Next]_vars =>
        [\A u \in User, s \in Second :
           session[u][s].state = "revoked" => session'[u][s].state = "revoked"]_vars
  BY RevokedStep
<1> QED
  BY <1>1, AccountsInvariantHolds, PTL DEF Spec, RevokedForGood


-----------------------------------------------------------------------------
(* Requests that do not overlap.                                            *)

(* No two requests of one user are in flight together; those of different   *)
(* users still interleave at will, and so do logouts, time and the          *)
(* administrators.                                                          *)
OneAtATime ==
  \A g, h \in Handler : task[g].user # NoUser /\ task[g].user = task[h].user => g = h

(* The request h is about to act upon its token. *)
Acting(h) ==
  task[h].pc \in {"email", "phone"} \/ (task[h].op = "reset" /\ task[h].pc = "password")

(* A token not consumed has not been used; nor has one a request is about   *)
(* to consume for its own user, or to act upon.                             *)
Unused(h) ==
  LET k == task[h]
      t == tokens[k.token] IN
  /\ k.pc = "consume" /\ k.op = "reset" => t.user = k.user
  /\ k.pc = "consume" /\ t.user = k.user => t.uses = 0
  /\ Acting(h) => t.consumed /\ t.user = k.user /\ t.uses = 0

Once ==
  /\ UsedOnce
  /\ \A i \in DOMAIN tokens : ~ tokens[i].consumed => tokens[i].uses = 0
  /\ \A h \in Handler : Unused(h)

(* A token that was exchanged for another is revoked.  A request that is    *)
(* to exchange one has no forerunner; any other has none to exchange.       *)
Exchanging(h) ==
  LET k == task[h] IN
  /\ k.pc \in {"create", "emailToken"} => k.parent = NoSecond
  /\ k.pc \in {"revoke", "sign", "store"} /\ k.parent # NoSecond =>
       \A s \in Second : session[k.user][s].parent # k.parent
  /\ k.pc \in {"sign", "store"} /\ k.parent # NoSecond =>
       k.parent \in Second /\ session[k.user][k.parent].state = "revoked"

Chained ==
  /\ RotatedOnce
  /\ \A u \in User, s \in Second :
       LET p == session[u][s].parent IN
       p # NoSecond => p \in Second /\ session[u][p].state = "revoked"
  /\ \A h \in Handler : Exchanging(h)

(* No revocation was prevented, and what is about to be issued rests on the *)
(* password as it is.                                                       *)
Current ==
  /\ abandoned = {}
  /\ ResetEndsSessions
  /\ \A h \in Handler : task[h].pc \in Issuing => task[h].basis = user[task[h].user].password

(* What a step does to the requests, the passwords, the sessions and the    *)
(* tokens, told by its effect.                                              *)

(* The request g stands where it stood, marked late perhaps. *)
Same(g) ==
  LET k == task[g]
      n == task'[g] IN
  /\ n.op = k.op /\ n.pc = k.pc /\ n.user = k.user /\ n.token = k.token
  /\ n.parent = k.parent /\ n.basis = k.basis

PasswordsStay == \A u \in User : user'[u].password = user[u].password

(* No token changes, and a new one is neither consumed nor used. *)
TokensGrow ==
  /\ \A i \in DOMAIN tokens : i \in DOMAIN tokens' /\ tokens'[i] = tokens[i]
  /\ \A i \in DOMAIN tokens' \ DOMAIN tokens : ~ tokens'[i].consumed /\ tokens'[i].uses = 0

(* A new request. *)
Begins(h) ==
  LET n == task'[h] IN
  /\ task[h].pc = "idle" /\ n.user \in User
  /\ n.pc \in {"create", "sign", "revoke", "password", "consume", "otp", "setPhone"}
  /\ n.pc = "password" => n.op # "reset"
  /\ n.pc = "consume" => /\ n.token \in DOMAIN tokens /\ ~ tokens[n.token].consumed
                         /\ n.op = "reset" => tokens[n.token].user = n.user
  /\ n.pc = "revoke" => /\ n.parent \in Second
                        /\ session[n.user][n.parent].state = "live"
                        /\ n.basis = session[n.user][n.parent].basis
  /\ n.pc # "revoke" => n.parent = NoSecond
  /\ n.pc = "sign" => n.basis = user[n.user].password
  /\ UNCHANGED <<user, session, tokens, abandoned>>

(* A request goes on towards the pair it will issue, or to its code. *)
GoesOn(h) ==
  LET k == task[h]
      n == task'[h] IN
  /\ <<k.pc, n.pc>> \in {<<"create", "emailToken">>, <<"emailToken", "sign">>, <<"sign", "store">>,
                        <<"setPhone", "otp">>}
  /\ n.user = k.user /\ n.parent = k.parent /\ n.basis = k.basis
  /\ n.pc = "emailToken" => k.basis = user[k.user].password
  /\ PasswordsStay /\ TokensGrow /\ UNCHANGED <<session, abandoned>>

Exchanges(h) ==
  LET k == task[h]
      n == task'[h] IN
  /\ k.pc = "revoke" /\ n.pc = "sign"
  /\ n.user = k.user /\ n.parent = k.parent /\ n.basis = k.basis
  /\ session' = [session EXCEPT ![k.user][k.parent].state = "revoked"]
  /\ UNCHANGED <<user, tokens, abandoned>>

Issues(h) ==
  LET k == task[h] IN
  /\ k.pc = "store" /\ task'[h] = Idle
  /\ session[k.user][k.iat].state = "none"
  /\ session' = [session EXCEPT ![k.user][k.iat] = NewSession(k)]
  /\ UNCHANGED <<user, tokens, abandoned>>

Consumes(h) ==
  LET k == task[h]
      n == task'[h] IN
  /\ k.pc = "consume"
  /\ tokens' = [tokens EXCEPT ![k.token].consumed = TRUE]
  /\ \/ n = Idle
     \/ /\ n.user = k.user /\ n.token = k.token /\ n.op = k.op
        /\ n.pc \in {"email", "phone"} \/ (n.pc = "password" /\ k.op = "reset")
        /\ k.op = "reset" \/ tokens[k.token].user = k.user
  /\ UNCHANGED <<user, session, abandoned>>

(* The token has its effect, but for a reset of the password. *)
Verifies(h) ==
  /\ Acting(h) /\ task'[h] = Idle /\ tokens' = Used(h)
  /\ PasswordsStay /\ UNCHANGED <<session, abandoned>>

Changes(h) ==
  LET k == task[h]
      n == task'[h] IN
  /\ k.pc = "password" /\ n.pc = "revokeAll" /\ n.user = k.user
  /\ \A u \in User \ {k.user} : user'[u] = user[u]
  /\ \/ Acting(h) /\ tokens' = Used(h)
     \/ ~ Acting(h) /\ UNCHANGED tokens
  /\ UNCHANGED <<session, abandoned>>

Revokes(h) ==
  /\ task[h].pc = "revokeAll" /\ task'[h] = Idle
  /\ session' = RevokedRows(task[h].user) /\ abandoned' \subseteq abandoned
  /\ UNCHANGED <<user, tokens>>

(* A request that ends with no more than a code to send, or is cut short. *)
Stops(h) ==
  /\ task'[h] = Idle /\ PasswordsStay /\ TokensGrow /\ UNCHANGED session
  /\ "crash" \in Faults \/ (task[h].pc # "revokeAll" /\ UNCHANGED abandoned)

Moves(h) ==
  /\ \A g \in Handler \ {h} : Same(g)
  /\ \/ Begins(h) \/ GoesOn(h) \/ Exchanges(h) \/ Issues(h) \/ Consumes(h) \/ Verifies(h)
     \/ Changes(h) \/ Revokes(h) \/ Stops(h)

(* Nothing of this, or a logout. *)
Aside ==
  /\ \A g \in Handler : Same(g)
  /\ PasswordsStay /\ TokensGrow /\ abandoned' \subseteq abandoned
  /\ UNCHANGED session \/ \E u \in User : session' = RevokedRows(u)

(* A token is added, new. *)
LEMMA NewTokenGrows ==
  ASSUME TypeOK, NEW u \in User, NEW type \in TokenType, NEW code \in Code \cup {NoCode},
         NEW phone \in Phone \cup {NoPhone}, NewToken(u, type, code, phone)
  PROVE  TokensGrow
<1> DEFINE t == [user |-> u, type |-> type, code |-> code, phone |-> phone,
                 createdAt |-> clock, consumed |-> FALSE, uses |-> 0]
<1>1. t \in Token /\ ~ t.consumed /\ t.uses = 0
  BY DEF Token, UseCap, TypeOK
<1>2. tokens \in Seq(Token) /\ tokens' = Append(tokens, t)
  BY DEF TypeOK, NewToken
<1> HIDE DEF t
<1>3. /\ tokens' \in Seq(Token)
      /\ Len(tokens') = Len(tokens) + 1
      /\ \A i \in 1 .. Len(tokens) : tokens'[i] = tokens[i]
      /\ tokens'[Len(tokens) + 1] = t
  BY <1>1, <1>2
<1>4. /\ DOMAIN tokens = 1 .. Len(tokens)
      /\ DOMAIN tokens' = 1 .. Len(tokens')
      /\ Len(tokens) \in Nat
  BY <1>2, <1>3
<1> QED
  BY <1>1, <1>3, <1>4 DEF TokensGrow

(* One use of a token is counted. *)
LEMMA UseCounts ==
  ASSUME IInv, NEW h \in Handler, task[h].token \in DOMAIN tokens, tokens' = Used(h)
  PROVE  /\ DOMAIN tokens' = DOMAIN tokens
         /\ \A i \in DOMAIN tokens \ {task[h].token} : tokens'[i] = tokens[i]
         /\ tokens[task[h].token].uses = 0 => tokens'[task[h].token].uses = 1
<1> DEFINE n == task[h].token
           uses == IF tokens[n].uses < UseCap THEN tokens[n].uses + 1 ELSE tokens[n].uses
           t == [tokens[n] EXCEPT !.uses = uses]
<1>1. TypeOK /\ tokens[n] \in Token
  BY TokenRows DEF IInv, TypeOK
<1>2. uses \in 0 .. UseCap /\ (tokens[n].uses = 0 => uses = 1)
  BY <1>1 DEF Token, UseCap
<1>3. tokens' = [tokens EXCEPT ![n] = t]
  BY DEF Used
<1> HIDE DEF uses
<1>4. t \in Token /\ t.uses = uses
  BY <1>1, <1>2 DEF Token
<1> HIDE DEF t
<1> QED
  BY <1>1, <1>2, <1>3, <1>4, TokenWritten

(* A request that begins, with what it holds. *)
LEMMA Began ==
  ASSUME TypeOK, NEW h \in Handler, NEW op, NEW pc, NEW u, NEW r \in Task,
         Begin(h, op, pc, u, r)
  PROVE  /\ task[h].pc = "idle" /\ task'[h].op = op /\ task'[h].pc = pc /\ task'[h].user = u
         /\ task'[h].parent = r.parent /\ task'[h].basis = r.basis /\ task'[h].token = r.token
         /\ \A g \in Handler \ {h} : Same(g)
<1> DEFINE q == [r EXCEPT !.op = op, !.pc = pc, !.user = u]
<1>1. /\ q.op = op /\ q.pc = pc /\ q.user = u
      /\ q.parent = r.parent /\ q.basis = r.basis /\ q.token = r.token
  BY DEF Task
<1>2. task[h].pc = "idle" /\ task'[h] = q /\ \A g \in Handler \ {h} : task'[g] = task[g]
  BY DEF TypeOK, Begin, At
<1> HIDE DEF q
<1> QED
  BY <1>1, <1>2 DEF Same

LEMMA ArriveBegins ==
  ASSUME IInv, NEW h \in Handler, Arrive(h)
  PROVE  Moves(h)
<1>1. TypeOK
  BY DEF IInv
<1>2. ASSUME NEW u \in User, NEW p \in Phone \cup {NoPhone}, RegisterRead(h, u, p)
      PROVE  Moves(h)
  <2> DEFINE r == [Idle EXCEPT !.phone = p]
  <2>1. Begin(h, "register", "create", u, r) /\ UNCHANGED <<user, session, tokens, abandoned>>
    BY <1>2 DEF RegisterRead
  <2>2. r \in Task /\ r.parent = NoSecond
    BY Basics DEF Idle, Task
  <2> HIDE DEF r
  <2> QED
    BY <1>1, <2>1, <2>2, Began DEF Moves, Begins
<1>3. ASSUME NEW u \in User, NEW p \in Phone \cup {NoPhone}, RequestPhoneRead(h, u, p)
      PROVE  Moves(h)
  <2> DEFINE target == IF p = NoPhone THEN user[u].phone ELSE p
             pc == IF target = user[u].phone THEN "otp" ELSE "setPhone"
             r == [Idle EXCEPT !.phone = target]
  <2>1. Begin(h, "requestPhone", pc, u, r) /\ UNCHANGED <<user, session, tokens, abandoned>>
    BY <1>3 DEF RequestPhoneRead
  <2>2. pc \in {"otp", "setPhone"} /\ r \in Task /\ r.parent = NoSecond
    BY <1>1, Basics DEF Idle, Task, TypeOK, UserRow
  <2> HIDE DEF r, pc
  <2> QED
    BY <1>1, <2>1, <2>2, Began DEF Moves, Begins
<1>4. ASSUME NEW u \in User, LoginRead(h, u)
      PROVE  Moves(h)
  <2> DEFINE r == [Idle EXCEPT !.basis = user[u].password]
  <2>1. Begin(h, "login", "sign", u, r) /\ UNCHANGED <<user, session, tokens, abandoned>>
    BY <1>4 DEF LoginRead
  <2>2. r \in Task /\ r.parent = NoSecond /\ r.basis = user[u].password
    BY <1>1, Basics DEF Idle, Task, TypeOK, UserRow
  <2> HIDE DEF r
  <2> QED
    BY <1>1, <2>1, <2>2, Began DEF Moves, Begins
<1>5. ASSUME NEW u \in User, ChangeRead(h, u)
      PROVE  Moves(h)
  <2> DEFINE r == [Idle EXCEPT !.basis = user[u].password]
  <2>1. Begin(h, "change", "password", u, r) /\ UNCHANGED <<user, session, tokens, abandoned>>
    BY <1>5 DEF ChangeRead
  <2>2. r \in Task /\ r.parent = NoSecond /\ r.basis = user[u].password
    BY <1>1, Basics DEF Idle, Task, TypeOK, UserRow
  <2> HIDE DEF r
  <2> QED
    BY <1>1, <2>1, <2>2, Began DEF Moves, Begins
<1>6. ASSUME NEW u \in User, NEW s \in Second, RefreshFind(h, u, s)
      PROVE  Moves(h)
  <2> DEFINE r == [Idle EXCEPT !.parent = s, !.basis = session[u][s].basis,
                               !.late = session[u][s].late]
  <2>1. /\ Begin(h, "refresh", "revoke", u, r)
        /\ session[u][s].state = "live" /\ UNCHANGED <<user, session, tokens, abandoned>>
    BY <1>6 DEF RefreshFind, BeginRefresh
  <2>0. session[u][s].basis \in Password /\ session[u][s].late \in BOOLEAN
    BY <1>1 DEF TypeOK, SessionRow
  <2>2. r \in Task /\ r.parent = s /\ r.basis = session[u][s].basis
    BY <2>0, Basics DEF Idle, Task
  <2> HIDE DEF r
  <2> QED
    BY <1>1, <2>1, <2>2, Began DEF Moves, Begins
<1>7. ASSUME NEW i \in DOMAIN tokens, NEW u \in User, NEW op,
             Findable(i, "EMAIL_VERIFICATION") \/ Findable(i, "PASSWORD_RESET")
             \/ Findable(i, "PHONE_VERIFICATION"),
             BeginConsume(h, op, u, i), op = "reset" => tokens[i].user = u
      PROVE  Moves(h)
  <2> DEFINE r == [Idle EXCEPT !.token = i]
  <2>1. Begin(h, op, "consume", u, r) /\ UNCHANGED <<user, session, tokens, abandoned>>
    BY <1>7 DEF BeginConsume
  <2>0. i \in Nat
    BY <1>1, TokenRows DEF TypeOK
  <2>2. r \in Task /\ r.parent = NoSecond /\ r.token = i
    BY <2>0, Basics DEF Idle, Task
  <2>3. ~ tokens[i].consumed
    BY <1>7 DEF Findable
  <2> HIDE DEF r
  <2> QED
    BY <1>1, <1>7, <2>1, <2>2, <2>3, Began DEF Moves, Begins
<1>8. ASSUME NEW i \in DOMAIN tokens,
             \/ VerifyEmailFind(h, i)
             \/ ResetFind(h, i)
             \/ \E u \in User : VerifyPhoneFind(h, u, i)
      PROVE  Moves(h)
  <2>1. tokens[i].user \in User
    BY <1>1, TokenRows DEF TypeOK
  <2> QED
    BY <1>7, <1>8, <2>1 DEF VerifyEmailFind, ResetFind, VerifyPhoneFind
<1> QED
  BY <1>2, <1>3, <1>4, <1>5, <1>6, <1>8 DEF Arrive

(* The requests of v marked late stand where they stood. *)
LEMMA OvertakenSame ==
  ASSUME TypeOK, NEW v, NEW g \in Handler, task'[g] = Overtaken(v)[g]
  PROVE  Same(g)
BY DEF TypeOK, Overtaken, Same, Task

(* Every other step of a request. *)
LEMMA ProceedEffects ==
  ASSUME IInv, NEW h \in Handler, Proceed(h) \/ Crash(h)
  PROVE  Moves(h)
<1> DEFINE k == task[h]
           n == task'[h]
<1>1. /\ TypeOK /\ InFlight(h) /\ k \in Task /\ k.user \in User /\ user[k.user] \in UserRow
      /\ tokens \in Seq(Token) /\ user \in [User -> UserRow]
  <2>1. k.pc # "idle"
    BY DEF Proceed, RegisterCreate, SendEmailVerification, Sign, StoreSession, RefreshRevoke,
       UpdatePassword, RevokeAllUserSessions, ConsumeToken, MarkEmailVerified, SetPhone,
       CreateOtpCode, MarkPhoneVerified, Crash, At
  <2> QED
    BY <2>1, Standing DEF TypeOK
<1>2. ASSUME NEW pc \in Pc, Goto(h, pc)
      PROVE  /\ n.pc = pc /\ n.op = k.op /\ n.user = k.user /\ n.token = k.token
             /\ n.parent = k.parent /\ n.basis = k.basis
             /\ \A g \in Handler \ {h} : Same(g)
  <2>1. n = [k EXCEPT !.pc = pc] /\ \A g \in Handler \ {h} : task'[g] = task[g]
    BY <1>1, <1>2, GotoMoves
  <2> QED
    BY <1>1, <2>1 DEF Task, Same
<1>3. ASSUME Finish(h)
      PROVE  n = Idle /\ \A g \in Handler \ {h} : Same(g)
  BY <1>1, <1>3, FinishMoves DEF Same
<1>4. UNCHANGED tokens => TokensGrow
  BY DEF TokensGrow
<1>5. ASSUME NEW r, user' = [user EXCEPT ![k.user] = r], r.password = user[k.user].password
      PROVE  PasswordsStay
  BY <1>1, <1>5 DEF PasswordsStay
<1>6. UNCHANGED user => PasswordsStay
  BY DEF PasswordsStay
<1>7. CASE RegisterCreate(h)
  <2>1. CASE Exists(k.user) \/ PhoneTaken(k.user, k.phone)
    BY <1>3, <1>4, <1>6, <1>7, <2>1 DEF RegisterCreate, At, Moves, Stops
  <2>2. CASE ~ (Exists(k.user) \/ PhoneTaken(k.user, k.phone))
    <3> DEFINE r == [user[k.user] EXCEPT !.status = "PENDING", !.phone = k.phone]
    <3>1. /\ k.pc = "create" /\ Goto(h, "emailToken") /\ user' = [user EXCEPT ![k.user] = r]
          /\ UNCHANGED <<session, tokens, abandoned>>
      BY <1>7, <2>2 DEF RegisterCreate, At
    <3>2. r.password = user[k.user].password
      BY <1>1 DEF UserRow
    <3> HIDE DEF r
    <3>3. PasswordsStay
      BY <1>5, <3>1, <3>2
    <3>4. k.basis = user[k.user].password
      BY <1>1, <2>2, <3>1 DEF IInv, Registered, InFlight
    <3>5. k.basis = user'[k.user].password
      BY <1>1, <3>3, <3>4 DEF PasswordsStay
    <3> QED
      BY <1>2, <1>4, <2>2, <3>1, <3>3, <3>4 DEF Moves, GoesOn, Pc
  <2> QED
    BY <2>1, <2>2
<1>8. CASE SendEmailVerification(h)
  <2>1. /\ k.pc = "emailToken" /\ NewToken(k.user, "EMAIL_VERIFICATION", NoCode, NoPhone)
        /\ Goto(h, "sign") /\ UNCHANGED <<user, session, abandoned>>
    BY <1>8 DEF SendEmailVerification, At
  <2>2. TokensGrow
    BY <1>1, <2>1, NewTokenGrows DEF TokenType
  <2> QED
    BY <1>2, <1>6, <2>1, <2>2 DEF Moves, GoesOn, Pc
<1>9. CASE Sign(h)
  <2> DEFINE r == [k EXCEPT !.pc = "store", !.iat = clock]
  <2>1. /\ k.pc = "sign" /\ task' = [task EXCEPT ![h] = r]
        /\ UNCHANGED <<user, session, tokens, abandoned>>
    BY <1>9 DEF Sign, At
  <2>2. n = r /\ \A g \in Handler \ {h} : task'[g] = task[g]
    BY <1>1, <2>1 DEF TypeOK
  <2>3. r.pc = "store" /\ r.user = k.user /\ r.parent = k.parent /\ r.basis = k.basis
    BY <1>1 DEF Task
  <2> HIDE DEF r
  <2> QED
    BY <1>4, <1>6, <2>1, <2>2, <2>3 DEF Moves, GoesOn, Same
<1>10. CASE StoreSession(h)
  <2>1. k.pc = "store" /\ Finish(h) /\ UNCHANGED <<user, tokens, abandoned>>
    BY <1>10 DEF StoreSession, At
  <2>2. CASE session[k.user][k.iat].state = "none"
    BY <1>3, <1>10, <2>1, <2>2 DEF StoreSession, Moves, Issues
  <2>3. CASE session[k.user][k.iat].state # "none"
    BY <1>3, <1>4, <1>6, <1>10, <2>1, <2>3 DEF StoreSession, Moves, Stops
  <2> QED
    BY <2>2, <2>3
<1>11. CASE RefreshRevoke(h)
  BY <1>2, <1>11 DEF RefreshRevoke, At, Moves, Exchanges, Pc
<1>12. CASE UpdatePassword(h)
  <2>1. /\ k.pc = "password" /\ Goto(h, "revokeAll") /\ UNCHANGED <<session, abandoned>>
        /\ \A u \in User \ {k.user} : user'[u] = user[u]
        /\ IF k.op = "reset" THEN tokens' = Used(h) ELSE UNCHANGED tokens
    BY <1>1, <1>12 DEF UpdatePassword, At
  <2>2. Acting(h) <=> k.op = "reset"
    BY <2>1 DEF Acting
  <2> QED
    BY <1>2, <2>1, <2>2 DEF Moves, Changes, Pc
<1>13. CASE RevokeAllUserSessions(h)
  <2>1. /\ k.pc = "revokeAll" /\ session' = RevokedRows(k.user) /\ UNCHANGED <<user, tokens>>
        /\ abandoned' = abandoned \ {k.user} /\ task' = [Overtaken(k.user) EXCEPT ![h] = Idle]
    BY <1>13 DEF RevokeAllUserSessions, At
  <2>2. n = Idle /\ \A g \in Handler \ {h} : task'[g] = Overtaken(k.user)[g]
    BY <2>1 DEF Overtaken
  <2>3. \A g \in Handler \ {h} : Same(g)
    BY <1>1, <2>2, OvertakenSame
  <2> QED
    BY <2>1, <2>2, <2>3 DEF Moves, Revokes
<1>14. CASE ConsumeToken(h)
  <2>1. /\ k.pc = "consume" /\ tokens' = [tokens EXCEPT ![k.token].consumed = TRUE]
        /\ UNCHANGED <<user, session, abandoned>>
    BY <1>14 DEF ConsumeToken, At
  <2>2. CASE k.op = "verifyEmail" /\ Goto(h, "email")
    <3>1. tokens[k.token].user = k.user
      BY <1>1, <2>1, <2>2 DEF InFlight
    <3> QED
      BY <1>2, <2>1, <2>2, <3>1 DEF Moves, Consumes, Pc
  <2>3. CASE k.op = "reset" /\ Goto(h, "password")
    BY <1>2, <2>1, <2>3 DEF Moves, Consumes, Pc
  <2>4. CASE tokens[k.token].user = k.user /\ Goto(h, "phone")
    BY <1>2, <2>1, <2>4 DEF Moves, Consumes, Pc
  <2>5. CASE Finish(h)
    BY <1>3, <2>1, <2>5 DEF Moves, Consumes
  <2> QED
    BY <1>14, <2>2, <2>3, <2>4, <2>5 DEF ConsumeToken, AfterConsume
<1>15. CASE MarkEmailVerified(h) \/ MarkPhoneVerified(h)
  <2>1. /\ Acting(h) /\ Finish(h) /\ tokens' = Used(h) /\ UNCHANGED <<session, abandoned>>
    BY <1>15 DEF MarkEmailVerified, MarkPhoneVerified, At, Acting
  <2>2. PasswordsStay
    <3>1. PICK r : r.password = user[k.user].password /\ user' = [user EXCEPT ![k.user] = r]
      <4>1. /\ [user[k.user] EXCEPT !.emailVerified = TRUE, !.status = "ACTIVE"].password
               = user[k.user].password
            /\ [user[k.user] EXCEPT !.phoneVerified = TRUE].password = user[k.user].password
        BY <1>1 DEF UserRow
      <4> QED
        BY <1>15, <4>1 DEF MarkEmailVerified, MarkPhoneVerified
    <3> QED
      BY <1>5, <3>1
  <2> QED
    BY <1>3, <2>1, <2>2 DEF Moves, Verifies
<1>16. CASE SetPhone(h)
  <2>1. k.pc = "setPhone" /\ UNCHANGED <<session, tokens, abandoned>>
    BY <1>16 DEF SetPhone, At
  <2>2. CASE Finish(h) /\ UNCHANGED user
    BY <1>3, <1>4, <1>6, <2>1, <2>2 DEF Moves, Stops
  <2>3. CASE Goto(h, "otp") /\ user' = [user EXCEPT ![k.user].phone = k.phone]
    <3>1. PasswordsStay
      BY <1>1, <2>3 DEF PasswordsStay, UserRow
    <3> QED
      BY <1>2, <1>4, <2>1, <2>3, <3>1 DEF Moves, GoesOn, Pc
  <2> QED
    BY <1>16, <2>2, <2>3 DEF SetPhone
<1>17. CASE CreateOtpCode(h)
  <2>1. k.pc = "otp" /\ Finish(h) /\ UNCHANGED <<user, session, abandoned>>
        /\ \E c \in Code : NewToken(k.user, "PHONE_VERIFICATION", c, k.phone)
    BY <1>17 DEF CreateOtpCode, At
  <2>2. k.phone \in Phone \cup {NoPhone}
    BY <1>1 DEF Task
  <2>3. TokensGrow
    BY <1>1, <2>1, <2>2, NewTokenGrows DEF TokenType
  <2> QED
    BY <1>3, <1>6, <2>1, <2>3 DEF Moves, Stops
<1>18. CASE Crash(h)
  BY <1>3, <1>4, <1>6, <1>18 DEF Crash, Moves, Stops
<1> QED
  BY <1>7, <1>8, <1>9, <1>10, <1>11, <1>12, <1>13, <1>14, <1>15, <1>16, <1>17, <1>18 DEF Proceed

(* Every step is that of a request, or beside them. *)
LEMMA AccountEffects ==
  ASSUME IInv, [Next]_vars
  PROVE  Aside \/ \E h \in Handler : Moves(h)
<1>1. TypeOK
  BY DEF IInv
<1>2. /\ UNCHANGED task => \A g \in Handler : Same(g)
      /\ UNCHANGED tokens => TokensGrow
      /\ UNCHANGED user => PasswordsStay
  BY DEF Same, TokensGrow, PasswordsStay
<1>3. ASSUME NEW u \in User, AtOnce(u)
      PROVE  Aside
  <2>1. CASE Logout(u)
    <3>1. task' = Overtaken(u) /\ UNCHANGED <<user, tokens>> /\ session' = RevokedRows(u)
          /\ abandoned' \subseteq abandoned
      BY <2>1 DEF Logout
    <3>2. \A g \in Handler : Same(g)
      BY <1>1, <3>1, OvertakenSame
    <3> QED
      BY <1>2, <3>1, <3>2 DEF Aside
  <2>2. CASE ForgotPassword(u)
    <3>1. NewToken(u, "PASSWORD_RESET", NoCode, NoPhone)
          /\ UNCHANGED <<user, session, task, abandoned>>
      BY <2>2 DEF ForgotPassword
    <3>2. TokensGrow
      BY <1>1, <3>1, NewTokenGrows DEF TokenType
    <3> QED
      BY <1>2, <3>1, <3>2 DEF Aside
  <2>3. CASE \/ \E p \in Phone \cup {NoPhone} : UpdateProfile(u, p)
             \/ \E st \in UserStatus : UpdateUserStatus(u, st)
    <3>1. UNCHANGED <<session, tokens, task, abandoned>>
      BY <2>3 DEF UpdateProfile, UpdateUserStatus
    <3>2. PasswordsStay
      <4>1. \A p, st : /\ [user[u] EXCEPT !.phone = p].password = user[u].password
                       /\ [user[u] EXCEPT !.status = st].password = user[u].password
        BY <1>1 DEF TypeOK, UserRow
      <4>2. PICK r : r.password = user[u].password /\ user' = [user EXCEPT ![u] = r]
        BY <2>3, <4>1 DEF UpdateProfile, UpdateUserStatus
      <4> QED
        BY <1>1, <4>2 DEF PasswordsStay, TypeOK
    <3> QED
      BY <1>2, <3>1, <3>2 DEF Aside
  <2> QED
    BY <1>3, <2>1, <2>2, <2>3 DEF AtOnce
<1>4. CASE Tick \/ UNCHANGED vars
  BY <1>2, <1>4 DEF Tick, vars, Aside
<1> QED
  BY <1>3, <1>4, ArriveBegins, ProceedEffects DEF Next

-----------------------------------------------------------------------------
(* One-time tokens.                                                         *)

(* A request that stands where it stood can still count on its token, if    *)
(* the only use counted is not of a token of its own user.                  *)
LEMMA UnusedKept ==
  ASSUME IInv, NEW g \in Handler, Same(g), Unused(g),
         \A i \in DOMAIN tokens :
           /\ i \in DOMAIN tokens'
           /\ tokens'[i].user = tokens[i].user
           /\ tokens[i].consumed => tokens'[i].consumed
           /\ tokens[i].user = task[g].user => tokens'[i].uses = tokens[i].uses
  PROVE  Unused(g)'
<1>1. task[g].pc = "consume" \/ Acting(g) => task[g].token \in DOMAIN tokens
  BY DEF IInv, InFlight, Acting
<1> QED
  BY <1>1 DEF Same, Unused, Acting

(* Every step keeps Once. *)
LEMMA NextOnce ==
  ASSUME IInv, [Next]_vars, OneAtATime, Once
  PROVE  Once'
<1>1. TypeOK
  BY DEF IInv
<1>2. ASSUME TokensGrow
      PROVE  /\ UsedOnce'
             /\ \A i \in DOMAIN tokens' : ~ tokens'[i].consumed => tokens'[i].uses = 0
             /\ \A g \in Handler : Same(g) => Unused(g)'
  BY <1>2, UnusedKept DEF TokensGrow, Once, UsedOnce
<1>3. CASE Aside
  BY <1>2, <1>3 DEF Aside, Once
<1>4. ASSUME NEW h \in Handler, Moves(h), UNCHANGED tokens \/ TokensGrow, Unused(h)'
      PROVE  Once'
  <2>1. TokensGrow
    BY <1>4 DEF TokensGrow
  <2> QED
    BY <1>2, <1>4, <2>1 DEF Moves, Once
<1>5. ASSUME NEW h \in Handler, task'[h] = Idle PROVE Unused(h)'
  BY <1>5 DEF Unused, Acting, Idle
<1>6. ASSUME NEW h \in Handler, Moves(h) PROVE Once'
  <2> DEFINE k == task[h]
             n == task'[h]
             i == k.token
  <2>1. k \in Task /\ InFlight(h) /\ Unused(h)
    BY <1>1 DEF IInv, TypeOK, Once
  <2>2. CASE Begins(h)
    <3>1. Unused(h)'
      BY <2>2 DEF Begins, Unused, Acting, Once
    <3> QED
      BY <1>4, <1>6, <2>2, <3>1 DEF Begins
  <2>3. CASE GoesOn(h) \/ Exchanges(h)
    <3>1. n.pc \in {"emailToken", "sign", "store", "otp"}
      BY <2>3 DEF GoesOn, Exchanges
    <3>2. Unused(h)'
      BY <3>1 DEF Unused, Acting
    <3> QED
      BY <1>4, <1>6, <2>3, <3>2 DEF GoesOn, Exchanges
  <2>4. CASE Issues(h) \/ Revokes(h) \/ Stops(h)
    BY <1>4, <1>5, <1>6, <2>4 DEF Issues, Revokes, Stops
  <2>5. CASE Consumes(h)
    <3> DEFINE t == [tokens[i] EXCEPT !.consumed = TRUE]
    <3>1. i \in DOMAIN tokens /\ tokens[i] \in Token /\ tokens' = [tokens EXCEPT ![i] = t]
      BY <1>1, <2>1, <2>5, TokenRows DEF Consumes, InFlight, TypeOK
    <3>2. t \in Token /\ t.user = tokens[i].user /\ t.uses = tokens[i].uses /\ t.consumed
      BY <3>1 DEF Token
    <3> HIDE DEF t
    <3>3. /\ DOMAIN tokens' = DOMAIN tokens /\ tokens'[i] = t
          /\ \A j \in DOMAIN tokens : j # i => tokens'[j] = tokens[j]
      BY <1>1, <3>1, <3>2, TokenWritten
    <3>4. \A g \in Handler \ {h} : Unused(g)'
      BY <1>6, <3>2, <3>3, UnusedKept DEF Moves, Once
    <3>5. Unused(h)'
      <4>1. CASE n = Idle
        BY <1>5, <4>1
      <4>2. CASE /\ n.user = k.user /\ n.token = i
                 /\ n.pc \in {"email", "phone", "password"}
                 /\ k.op = "reset" \/ tokens[i].user = k.user
        <5>1. tokens[i].user = k.user /\ tokens[i].uses = 0
          BY <2>1, <2>5, <4>2 DEF Unused, Consumes
        <5> QED
          BY <3>2, <3>3, <4>2, <5>1 DEF Unused, Acting
      <4> QED
        BY <2>5, <4>1, <4>2 DEF Consumes
    <3> QED
      BY <3>2, <3>3, <3>4, <3>5 DEF Once, UsedOnce
  <2>6. CASE Acting(h) /\ tokens' = Used(h) /\ ~ Acting(h)' /\ n.pc # "consume"
    <3>1. i \in DOMAIN tokens /\ tokens[i].consumed /\ tokens[i].user = k.user /\ tokens[i].uses = 0
      BY <2>1, <2>6 DEF Acting, Unused, InFlight
    <3>2. /\ DOMAIN tokens' = DOMAIN tokens /\ tokens'[i].uses = 1
          /\ \A j \in DOMAIN tokens \ {i} : tokens'[j] = tokens[j]
      BY <2>6, <3>1, UseCounts
    <3>3. \A j \in DOMAIN tokens : /\ tokens'[j].user = tokens[j].user
                                   /\ tokens'[j].consumed = tokens[j].consumed
      BY <2>6, <3>1, UsedRow
    <3>4. k.user \in User
      <4>1. k.pc # "idle"
        BY <2>6 DEF Acting
      <4> QED
        BY <2>1, <4>1 DEF InFlight
    <3>5. \A g \in Handler \ {h} : task[g].user # k.user
      BY <3>4, NoUserAssumption DEF OneAtATime
    <3>6. \A g \in Handler \ {h} : Unused(g)'
      BY <1>6, <3>1, <3>2, <3>3, <3>5, UnusedKept DEF Moves, Once
    <3>7. Unused(h)'
      BY <2>6 DEF Unused
    <3>8. UsedOnce'
      BY <3>2 DEF Once, UsedOnce
    <3>9. \A j \in DOMAIN tokens' : ~ tokens'[j].consumed => tokens'[j].uses = 0
      BY <3>1, <3>2, <3>3 DEF Once
    <3> QED
      BY <3>6, <3>7, <3>8, <3>9 DEF Once
  <2>7. CASE Verifies(h)
    BY <2>6, <2>7 DEF Verifies, Acting, Idle
  <2>8. CASE Changes(h)
    <3>1. ~ Acting(h)' /\ n.pc = "revokeAll" /\ Unused(h)'
      BY <2>8 DEF Changes, Acting, Unused
    <3> QED
      BY <1>4, <1>6, <2>6, <2>8, <3>1 DEF Changes
  <2> QED
    BY <1>6, <2>2, <2>3, <2>4, <2>5, <2>7, <2>8 DEF Moves
<1> QED
  BY <1>3, <1>6, AccountEffects

(* As long as no two requests of one user overlap, a one-time token is      *)
(* acted upon once, whatever fails and whatever other users present the     *)
(* same code.  (consumeToken, verifyEmail, verifyPhone, resetPassword)      *)
THEOREM TokensAreUsedOnce == Spec /\ []OneAtATime => []UsedOnce
<1>1. Init => Once
  <2> SUFFICES ASSUME Init PROVE Once
    OBVIOUS
  <2>1. DOMAIN tokens = {}
    BY DEF Init
  <2> QED
    BY <2>1 DEF Init, Once, UsedOnce, Unused, Acting, Idle
<1>2. IInv /\ Once /\ OneAtATime /\ [Next]_vars => Once'
  BY NextOnce
<1>3. Once => UsedOnce
  BY DEF Once
<1> QED
  BY <1>1, <1>2, <1>3, AccountsInvariantHolds, PTL DEF Spec

-----------------------------------------------------------------------------
(* Rotation.                                                                *)

(* Revoked in one statement, the sessions keep what they were issued for.   *)
LEMMA RevokedKeep ==
  ASSUME TypeOK, NEW v \in User, session' = RevokedRows(v), NEW u \in User, NEW s \in Second
  PROVE  /\ session'[u][s].parent = session[u][s].parent
         /\ session'[u][s].basis = session[u][s].basis
         /\ session'[u][s].state = "live" => session'[u][s] = session[u][s] /\ u # v
<1>1. session[u][s] \in SessionRow
  BY DEF TypeOK
<1>2. session'[u][s] = IF u = v /\ session[u][s].state = "live"
                         THEN [session[u][s] EXCEPT !.state = "revoked"]
                         ELSE session[u][s]
  BY DEF TypeOK, RevokedRows
<1> QED
  BY <1>1, <1>2 DEF SessionRow

(* So does the one that a refresh revokes. *)
LEMMA ExchangedKeep ==
  ASSUME IInv, NEW h \in Handler, Exchanges(h), NEW u \in User, NEW s \in Second
  PROVE  /\ task[h].user \in User /\ task[h].parent \in Second
         /\ session'[task[h].user][task[h].parent].state = "revoked"
         /\ session'[u][s].parent = session[u][s].parent
         /\ session'[u][s].state = "live" => session'[u][s] = session[u][s]
<1> DEFINE k == task[h]
           row == [session[k.user][k.parent] EXCEPT !.state = "revoked"]
<1>1. k.user \in User /\ k.parent \in Second /\ session \in [User -> [Second -> SessionRow]]
  BY DEF Exchanges, IInv, InFlight, TypeOK
<1>2. session' = [session EXCEPT ![k.user][k.parent] = row]
  BY DEF Exchanges
<1>3. row.state = "revoked" /\ row.parent = session[k.user][k.parent].parent
  BY <1>1 DEF SessionRow
<1> HIDE DEF row
<1>4. session'[u][s] = session[u][s] \/ (u = k.user /\ s = k.parent /\ session'[u][s] = row)
  BY <1>1, <1>2
<1>5. session'[k.user][k.parent] = row
  BY <1>1, <1>2
<1> QED
  BY <1>1, <1>3, <1>4, <1>5

(* A session is issued where there was none. *)
LEMMA IssuedRow ==
  ASSUME IInv, NEW h \in Handler, Issues(h)
  PROVE  LET k == task[h] IN
         /\ k.user \in User /\ k.iat \in Second
         /\ session[k.user][k.iat].state = "none"
         /\ session'[k.user][k.iat].parent = k.parent
         /\ session'[k.user][k.iat].basis = k.basis
         /\ \A u \in User, s \in Second :
              <<u, s>> # <<k.user, k.iat>> => session'[u][s] = session[u][s]
<1> DEFINE k == task[h]
<1>1. k \in Task /\ k.user \in User /\ session \in [User -> [Second -> SessionRow]]
  BY DEF Issues, IInv, InFlight, TypeOK
<1>2. k.iat \in Second /\ NewSession(k).parent = k.parent /\ NewSession(k).basis = k.basis
  BY <1>1 DEF Task, NewSession
<1>3. session' = [session EXCEPT ![k.user][k.iat] = NewSession(k)]
      /\ session[k.user][k.iat].state = "none"
  BY DEF Issues
<1> HIDE DEF NewSession
<1> QED
  BY <1>1, <1>2, <1>3

(* A request that stands where it stood keeps its exchange to itself, if no *)
(* session of its user has changed what it was exchanged for.               *)
LEMMA ExchangingKept ==
  ASSUME IInv, [Next]_vars, NEW g \in Handler, Same(g), Exchanging(g),
         task[g].user \in User =>
           \A s \in Second : session'[task[g].user][s].parent = session[task[g].user][s].parent
  PROVE  Exchanging(g)'
<1> DEFINE k == task[g]
<1>1. k.pc \in {"create", "emailToken", "revoke", "sign", "store"} => k.user \in User
  BY DEF IInv, InFlight
<1>2. \A u \in User, s \in Second :
        session[u][s].state = "revoked" => session'[u][s].state = "revoked"
  BY RevokedStep
<1> QED
  BY <1>1, <1>2 DEF Same, Exchanging

(* Every step keeps Chained. *)
LEMMA NextChained ==
  ASSUME IInv, [Next]_vars, OneAtATime, Chained
  PROVE  Chained'
<1> DEFINE ParentsStay == \A u \in User, s \in Second : session'[u][s].parent = session[u][s].parent
<1>1. TypeOK /\ \A u \in User, s \in Second :
        session[u][s].state = "revoked" => session'[u][s].state = "revoked"
  BY RevokedStep DEF IInv
<1>2. ASSUME ParentsStay
      PROVE  /\ RotatedOnce'
             /\ \A u \in User, s \in Second :
                  LET p == session'[u][s].parent IN
                  p # NoSecond => p \in Second /\ session'[u][p].state = "revoked"
             /\ \A g \in Handler : Same(g) => Exchanging(g)'
  BY <1>1, <1>2, ExchangingKept DEF Chained, RotatedOnce
<1>3. CASE Aside
  <2>1. ParentsStay
    BY <1>1, <1>3, RevokedKeep DEF Aside
  <2> QED
    BY <1>2, <1>3, <2>1 DEF Aside, Chained
<1>4. ASSUME NEW h \in Handler, Moves(h), ParentsStay, Exchanging(h)'
      PROVE  Chained'
  BY <1>2, <1>4 DEF Moves, Chained
<1>5. ASSUME NEW h \in Handler, task'[h].pc \notin {"create", "emailToken", "revoke", "sign", "store"}
      PROVE  Exchanging(h)'
  BY <1>5 DEF Exchanging
<1>6. ASSUME NEW h \in Handler, Moves(h) PROVE Chained'
  <2> DEFINE k == task[h]
             n == task'[h]
  <2>1. k \in Task /\ InFlight(h) /\ Exchanging(h)
    BY <1>1 DEF IInv, TypeOK, Chained
  <2>2. CASE Begins(h)
    <3>1. n.pc = "revoke" => \A s \in Second : session[n.user][s].parent # n.parent
      <4> SUFFICES ASSUME n.pc = "revoke", NEW s \in Second, session[n.user][s].parent = n.parent
                   PROVE  FALSE
        OBVIOUS
      <4>1. n.user \in User /\ n.parent \in Second /\ session[n.user][n.parent].state = "live"
        BY <2>2 DEF Begins
      <4>2. n.parent # NoSecond
        BY <4>1, Basics
      <4> QED
        BY <4>1, <4>2 DEF Chained
    <3>2. Exchanging(h)'
      BY <2>2, <3>1 DEF Begins, Exchanging
    <3> QED
      BY <1>4, <1>6, <2>2, <3>2 DEF Begins
  <2>3. CASE GoesOn(h)
    <3>1. Exchanging(h)'
      BY <2>1, <2>3 DEF GoesOn, Exchanging
    <3> QED
      BY <1>4, <1>6, <2>3, <3>1 DEF GoesOn
  <2>4. CASE Exchanges(h)
    <3>1. ParentsStay /\ k.user \in User /\ session'[k.user][k.parent].state = "revoked"
          /\ k.parent \in Second
      <4>1. k.user \in User /\ k.parent \in Second
        BY <2>4 DEF Exchanges, IInv, InFlight
      <4>2. session'[k.user][k.parent].state = "revoked"
        BY <2>4, <4>1, ExchangedKeep
      <4>3. ParentsStay
        BY <2>4, ExchangedKeep
      <4> QED
        BY <4>1, <4>2, <4>3
    <3>2. Exchanging(h)'
      BY <2>1, <2>4, <3>1 DEF Exchanges, Exchanging
    <3> QED
      BY <1>4, <1>6, <3>1, <3>2
  <2>5. CASE Issues(h)
    <3>1. /\ k.user \in User /\ k.iat \in Second /\ k.pc = "store"
          /\ session[k.user][k.iat].state = "none"
          /\ session'[k.user][k.iat].parent = k.parent
          /\ \A u \in User, s \in Second :
               <<u, s>> # <<k.user, k.iat>> => session'[u][s] = session[u][s]
      BY <2>5, IssuedRow DEF Issues
    <3>2. k.parent # NoSecond =>
            /\ \A s \in Second : session[k.user][s].parent # k.parent
            /\ k.parent \in Second /\ session[k.user][k.parent].state = "revoked"
      BY <2>1, <3>1 DEF Exchanging
    <3>3. RotatedOnce'
      BY <3>1, <3>2 DEF Chained, RotatedOnce
    <3>4. \A u \in User, s \in Second :
            LET p == session'[u][s].parent IN
            p # NoSecond => p \in Second /\ session'[u][p].state = "revoked"
      BY <1>1, <3>1, <3>2 DEF Chained
    <3>5. ASSUME NEW g \in Handler \ {h} PROVE Exchanging(g)'
      <4>1. task[g].user # k.user
        BY <3>1, NoUserAssumption DEF OneAtATime
      <4> QED
        BY <1>6, <3>1, <4>1, ExchangingKept DEF Moves, Chained
    <3>6. Exchanging(h)'
      BY <1>5, <2>5 DEF Issues, Idle
    <3> QED
      BY <3>3, <3>4, <3>5, <3>6 DEF Chained
  <2>6. CASE Consumes(h) \/ Verifies(h) \/ Changes(h) \/ Stops(h)
    BY <1>4, <1>5, <1>6, <2>6 DEF Consumes, Verifies, Changes, Stops, Idle
  <2>7. CASE Revokes(h)
    <3>1. k.user \in User
      BY <2>1, <2>7 DEF Revokes, InFlight
    <3>2. ParentsStay
      BY <1>1, <2>7, <3>1, RevokedKeep DEF Revokes
    <3> QED
      BY <1>4, <1>5, <1>6, <2>7, <3>2 DEF Revokes, Idle
  <2> QED
    BY <1>6, <2>2, <2>3, <2>4, <2>5, <2>6, <2>7 DEF Moves
<1> QED
  BY <1>3, <1>6, AccountEffects

(* As long as no two requests of one user overlap, a refresh token is       *)
(* exchanged for one pair at most, whatever fails and whenever the user     *)
(* logs out.  (refresh: find, revoke, issueTokenPair)                       *)
THEOREM RefreshTokensRotateOnce == Spec /\ []OneAtATime => []RotatedOnce
<1>1. Init => Chained
  BY DEF Init, Chained, RotatedOnce, Exchanging, NoSession, Idle
<1>2. IInv /\ Chained /\ OneAtATime /\ [Next]_vars => Chained'
  BY NextChained
<1>3. Chained => RotatedOnce
  BY DEF Chained
<1> QED
  BY <1>1, <1>2, <1>3, AccountsInvariantHolds, PTL DEF Spec

-----------------------------------------------------------------------------
(* Passwords and sessions.                                                  *)

(* Every step keeps Current, when no request is cut short.                  *)
LEMMA NextCurrent ==
  ASSUME IInv, [Next]_vars, OneAtATime, OneAtATime', Current, "crash" \notin Faults
  PROVE  Current'
<1> DEFINE Rests(g) == task'[g].pc \in Issuing => task'[g].basis = user'[task'[g].user].password
           Live == \A u \in User, s \in Second :
                     session'[u][s].state = "live"
                     /\ session'[u][s].basis # user'[u].password => Revoking(u)'
<1>1. TypeOK
  BY DEF IInv
<1>2. Current' <=> abandoned' = {} /\ Live /\ \A g \in Handler : Rests(g)
  BY DEF Current, ResetEndsSessions
<1>3. ASSUME PasswordsStay, NEW g \in Handler, Same(g) PROVE Rests(g)
  <2>1. task[g].pc \in Issuing => task[g].user \in User
    BY DEF IInv, InFlight, Issuing
  <2> QED
    BY <1>3, <2>1 DEF PasswordsStay, Same, Current
<1>4. ASSUME PasswordsStay, \A u \in User : Revoking(u) => Revoking(u)',
             \A u \in User, s \in Second :
               session'[u][s].state = "live" => session'[u][s] = session[u][s]
      PROVE  Live
  BY <1>4 DEF PasswordsStay, Current, ResetEndsSessions
<1>5. CASE Aside
  <2>1. abandoned' = {} /\ \A u \in User : Revoking(u) => Revoking(u)'
    BY <1>5 DEF Aside, Same, Revoking, At, Current
  <2>2. \A u \in User, s \in Second :
          session'[u][s].state = "live" => session'[u][s] = session[u][s]
    BY <1>1, <1>5, RevokedKeep DEF Aside
  <2> QED
    BY <1>2, <1>3, <1>4, <1>5, <2>1, <2>2 DEF Aside
<1>6. ASSUME NEW h \in Handler, Moves(h) PROVE Current'
  <2> DEFINE k == task[h]
             n == task'[h]
  <2>1. k \in Task /\ InFlight(h) /\ abandoned = {}
    BY <1>1 DEF IInv, TypeOK, Current
  <2>2. ASSUME k.pc # "revokeAll", abandoned' = abandoned
        PROVE  \A u \in User : Revoking(u) => Revoking(u)'
    BY <1>6, <2>2 DEF Moves, Same, Revoking, At
  <2>3. UNCHANGED user => PasswordsStay
    BY DEF PasswordsStay
  <2>4. ASSUME PasswordsStay, k.pc # "revokeAll", abandoned' = abandoned, Rests(h),
               \A u \in User, s \in Second :
                 session'[u][s].state = "live" => session'[u][s] = session[u][s]
        PROVE  Current'
    BY <1>2, <1>3, <1>4, <1>6, <2>1, <2>2, <2>4 DEF Moves
  <2>5. n.pc \notin Issuing => Rests(h)
    OBVIOUS
  <2>6. CASE Begins(h)
    <3>1. k.pc = "idle" /\ n.user \in User /\ n.pc \notin {"emailToken", "store"}
          /\ UNCHANGED <<user, session, abandoned>>
      BY <2>6 DEF Begins
    <3>2. CASE n.pc = "revoke"
      <4>1. /\ n.parent \in Second /\ session[n.user][n.parent].state = "live"
            /\ n.basis = session[n.user][n.parent].basis
        BY <2>6, <3>2 DEF Begins
      <4>2. ~ Revoking(n.user)
        <5> SUFFICES ASSUME NEW g \in Handler, task[g].user = n.user, task[g].pc = "revokeAll"
                     PROVE  FALSE
          BY <2>1 DEF Revoking, At
        <5>1. g # h
          BY <3>1
        <5>2. task'[g].user = n.user
          BY <1>6, <5>1 DEF Moves, Same
        <5> QED
          BY <3>1, <5>1, <5>2, NoUserAssumption DEF OneAtATime
      <4>3. n.basis = user[n.user].password
        BY <3>1, <4>1, <4>2 DEF Current, ResetEndsSessions
      <4> QED
        BY <2>3, <2>4, <3>1, <4>3
    <3>3. CASE n.pc = "sign"
      <4>1. n.basis = user[n.user].password
        BY <2>6, <3>3 DEF Begins
      <4> QED
        BY <2>3, <2>4, <3>1, <4>1
    <3>4. CASE n.pc \notin {"revoke", "sign"}
      BY <2>3, <2>4, <3>1, <3>4 DEF Issuing
    <3> QED
      BY <3>2, <3>3, <3>4
  <2>7. CASE GoesOn(h)
    <3>1. /\ k.pc # "revokeAll" /\ PasswordsStay /\ UNCHANGED <<session, abandoned>>
          /\ n.user = k.user /\ n.basis = k.basis /\ k.user \in User
          /\ k.pc \in Issuing \/ n.pc = "emailToken" \/ n.pc = "otp"
      BY <2>1, <2>7 DEF GoesOn, InFlight, Issuing
    <3>2. n.pc # "otp" => k.basis = user[k.user].password
      BY <2>7, <3>1 DEF GoesOn, Current
    <3>3. Rests(h)
      BY <3>1, <3>2 DEF PasswordsStay, Issuing
    <3> QED
      BY <2>4, <3>1, <3>3
  <2>8. CASE Exchanges(h)
    <3>1. /\ k.pc = "revoke" /\ UNCHANGED <<user, abandoned>> /\ n.user = k.user /\ n.basis = k.basis
          /\ k.basis = user[k.user].password
      BY <2>8 DEF Exchanges, Issuing, Current
    <3>2. \A u \in User, s \in Second :
            session'[u][s].state = "live" => session'[u][s] = session[u][s]
      BY <2>8, ExchangedKeep
    <3> QED
      BY <2>3, <2>4, <3>1, <3>2
  <2>9. CASE Issues(h)
    <3>1. /\ k.user \in User /\ k.iat \in Second
          /\ session'[k.user][k.iat].basis = k.basis
          /\ \A u \in User, s \in Second :
               <<u, s>> # <<k.user, k.iat>> => session'[u][s] = session[u][s]
      BY <2>9, IssuedRow
    <3>2. /\ k.pc = "store" /\ k.basis = user[k.user].password /\ n = Idle
          /\ UNCHANGED <<user, abandoned>>
      BY <2>9 DEF Issues, Issuing, Current
    <3>3. \A u \in User : Revoking(u) => Revoking(u)'
      BY <2>2, <3>2
    <3>4. Live
      BY <3>1, <3>2, <3>3 DEF Current, ResetEndsSessions
    <3>5. \A g \in Handler : Rests(g)
      BY <1>3, <1>6, <2>3, <3>2 DEF Moves, Idle, Issuing
    <3> QED
      BY <1>2, <2>1, <3>2, <3>4, <3>5
  <2>10. CASE Consumes(h) \/ Verifies(h) \/ Stops(h)
    <3>1. k.pc # "revokeAll" /\ PasswordsStay /\ UNCHANGED <<session, abandoned>>
      BY <2>3, <2>10 DEF Consumes, Verifies, Stops, Acting
    <3>2. n.pc \notin Issuing
      BY <2>10 DEF Consumes, Verifies, Stops, Idle, Issuing
    <3> QED
      BY <2>4, <3>1, <3>2
  <2>11. CASE Changes(h)
    <3>1. /\ k.user \in User /\ k.pc = "password" /\ n.pc = "revokeAll" /\ n.user = k.user
          /\ \A u \in User \ {k.user} : user'[u] = user[u]
          /\ UNCHANGED <<session, abandoned>>
      BY <2>1, <2>11 DEF Changes, InFlight
    <3>2. Revoking(k.user)' /\ \A u \in User : Revoking(u) => Revoking(u)'
      BY <2>2, <3>1 DEF Revoking, At
    <3>3. Live
      BY <3>1, <3>2 DEF Current, ResetEndsSessions
    <3>4. ASSUME NEW g \in Handler \ {h} PROVE Rests(g)
      <4>1. task[g].user # k.user /\ Same(g)
        BY <1>6, <3>1, NoUserAssumption DEF OneAtATime, Moves
      <4>2. task[g].pc \in Issuing => task[g].user \in User
        BY DEF IInv, InFlight, Issuing
      <4> QED
        BY <3>1, <4>1, <4>2 DEF Same, Current
    <3>5. Rests(h)
      BY <3>1 DEF Issuing
    <3> QED
      BY <1>2, <2>1, <3>1, <3>3, <3>4, <3>5
  <2>12. CASE Revokes(h)
    <3>1. /\ k.user \in User /\ k.pc = "revokeAll" /\ n = Idle /\ session' = RevokedRows(k.user)
          /\ PasswordsStay /\ abandoned' = {}
      BY <2>1, <2>3, <2>12 DEF Revokes, InFlight
    <3>2. \A u \in User : u # k.user /\ Revoking(u) => Revoking(u)'
      BY <1>6, <2>1, <3>1 DEF Moves, Same, Revoking, At
    <3>3. \A u \in User, s \in Second :
            session'[u][s].state = "live" => session'[u][s] = session[u][s] /\ u # k.user
      BY <1>1, <3>1, RevokedKeep
    <3>4. Live
      BY <3>1, <3>2, <3>3 DEF PasswordsStay, Current, ResetEndsSessions
    <3>5. \A g \in Handler : Rests(g)
      BY <1>3, <1>6, <3>1 DEF Moves, Idle, Issuing
    <3> QED
      BY <1>2, <3>1, <3>4, <3>5
  <2> QED
    BY <1>6, <2>6, <2>7, <2>8, <2>9, <2>10, <2>11, <2>12 DEF Moves
<1> QED
  BY <1>5, <1>6, AccountEffects

(* As long as no two requests of one user overlap and no request is cut     *)
(* short, a change or a reset of the password ends every session opened     *)
(* with an earlier one, save between its two statements.                    *)
(* (changePassword, resetPassword, revokeAllUserSessions)                   *)
THEOREM ResetEndsAllSessions ==
  ASSUME "crash" \notin Faults
  PROVE  Spec /\ []OneAtATime => []ResetEndsSessions
<1>1. Init => Current
  BY DEF Init, Current, ResetEndsSessions, NoSession, Idle, Issuing
<1>2. IInv /\ Current /\ OneAtATime /\ OneAtATime' /\ [Next]_vars => Current'
  BY NextCurrent
<1>3. Current => ResetEndsSessions
  BY DEF Current
<1> QED
  BY <1>1, <1>2, <1>3, AccountsInvariantHolds, PTL DEF Spec
=============================================================================
