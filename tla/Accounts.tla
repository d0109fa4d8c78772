------------------------------- MODULE Accounts -------------------------------
(***************************************************************************)
(* Accounts and sessions: AuthService and TokensService                    *)
(* (src/backend/src/modules/auth), the columns of users they write.        *)
(*                                                                         *)
(* As in Transfers, a request is cut into one action per statement that    *)
(* writes, or reads what is used after a later statement, and other        *)
(* requests run in between.  What a request holds is in task[h].  A        *)
(* request of one statement only needs no handler.                         *)
(***************************************************************************)
EXTENDS Integers, Sequences, FiniteSets

CONSTANTS
  User,         \* the e-mail addresses, each the key of one row of users
  NoUser,       \* "no user", for a handler that is idle
  Handler,      \* the requests that may be in flight at one time
  Phone,        \* the phone numbers
  NoPhone,      \* the column phone is null
  Code,         \* the one-time codes sent by SMS, drawn at random
  NoCode,       \* a random token of 32 bytes, like no other
  MaxClock,     \* bound: the last second of a behaviour
  MaxPassword,  \* bound: how often passwords change
  MaxTokens,    \* bound: how many one-time tokens are made
  AccessTtl, RefreshTtl, EmailTtl, PhoneTtl, ResetTtl,  \* lifetimes, in seconds
  Requests,     \* what the users and administrators ask for
  Faults        \* what may go wrong: "crash"

ASSUME NoUserAssumption == NoUser \notin User
ASSUME NoPhoneAssumption == NoPhone \notin Phone
ASSUME NoCodeAssumption == NoCode \notin Code
ASSUME BoundsAssumption == MaxClock \in Nat /\ MaxPassword \in Nat /\ MaxTokens \in Nat
ASSUME TtlAssumption ==
  /\ AccessTtl \in Nat /\ RefreshTtl \in Nat
  /\ EmailTtl \in Nat /\ PhoneTtl \in Nat /\ ResetTtl \in Nat
ASSUME RequestsAssumption ==
  Requests \subseteq {"login", "refresh", "logout", "change", "reset",
                      "verifyEmail", "phone", "profile", "status"}
ASSUME FaultsAssumption == Faults \subseteq {"crash"}

VARIABLES
  clock,      \* the time, in seconds as a JWT counts it
  user,       \* the table users
  session,    \* the table refresh_tokens, by user and by second of signature
  tokens,     \* the table verification_tokens, in the order of creation
  task,       \* the handlers in flight
  abandoned   \* history: the users whose password a request changed without
              \* coming to the revocation of the sessions

vars == <<clock, user, session, tokens, task, abandoned>>

UserStatus == {"PENDING", "ACTIVE", "SUSPENDED", "BLOCKED"}
NoStatus == "none"     \* no row for this e-mail address yet

(* A password is the number of the change that set it. *)
Password == 0 .. MaxPassword

Second == 0 .. MaxClock
NoSecond == -1

TokenType == {"EMAIL_VERIFICATION", "PHONE_VERIFICATION", "PASSWORD_RESET"}
Ttl(type) == CASE type = "EMAIL_VERIFICATION" -> EmailTtl
               [] type = "PHONE_VERIFICATION" -> PhoneTtl
               [] OTHER -> ResetTtl

UserRow == [status : UserStatus \cup {NoStatus}, password : Password,
            phone : Phone \cup {NoPhone},
            emailVerified : BOOLEAN, phoneVerified : BOOLEAN]

(* Two refresh tokens of one user signed in the same second are the same    *)
(* JWT, so the unique column tokenHash is the pair of user and second.      *)
(* History: basis, the password the chain of rotations was opened with;     *)
(* parent, the token it was exchanged for; late, the request that issued it *)
(* (or its parent) was in flight while the sessions of its user were        *)
(* revoked.                                                                 *)
SessionRow == [state : {"none", "live", "revoked"}, basis : Password,
               parent : Second \cup {NoSecond}, late : BOOLEAN]
NoSession == [state |-> "none", basis |-> 0, parent |-> NoSecond, late |-> FALSE]

(* uses is history: how often the token was acted upon, up to UseCap; phone *)
(* is the number a code was sent to.                                        *)
UseCap == 2
Token == [user : User, type : TokenType, code : Code \cup {NoCode},
          phone : Phone \cup {NoPhone}, createdAt : Second,
          consumed : BOOLEAN, uses : 0 .. UseCap]

Op == {"none", "register", "login", "refresh", "change", "reset", "verifyEmail",
       "requestPhone", "verifyPhone"}
Pc == {"idle", "create", "emailToken", "sign", "store", "revoke", "consume",
       "password", "revokeAll", "email", "setPhone", "otp", "phone"}

(* user: whose request; phone: the number given; parent: the refresh token  *)
(* presented; iat: when the new pair was signed; token: the index of the    *)
(* one-time token presented; basis and late as in SessionRow.               *)
Task == [op : Op, pc : Pc, user : User \cup {NoUser}, phone : Phone \cup {NoPhone},
         parent : Second \cup {NoSecond}, iat : Second, token : Nat,
         basis : Password, late : BOOLEAN]

Idle == [op |-> "none", pc |-> "idle", user |-> NoUser, phone |-> NoPhone,
         parent |-> NoSecond, iat |-> 0, token |-> 0, basis |-> 0, late |-> FALSE]

TypeOK ==
  /\ clock \in Second
  /\ user \in [User -> UserRow]
  /\ session \in [User -> [Second -> SessionRow]]
  /\ tokens \in Seq(Token)
  /\ task \in [Handler -> Task]
  /\ abandoned \in SUBSET User

Init ==
  /\ clock = 0
  /\ user = [u \in User |-> [status |-> NoStatus, password |-> 0, phone |-> NoPhone,
                             emailVerified |-> FALSE, phoneVerified |-> FALSE]]
  /\ session = [u \in User |-> [s \in Second |-> NoSession]]
  /\ tokens = <<>>
  /\ task = [h \in Handler |-> Idle]
  /\ abandoned = {}

-----------------------------------------------------------------------------
(* Helpers. *)

At(h, pc) == task[h].pc = pc

Goto(h, pc) == task' = [task EXCEPT ![h].pc = pc]

Finish(h) == task' = [task EXCEPT ![h] = Idle]

Exists(u) == user[u].status # NoStatus

(* A new request of u takes a free slot; r gives what it holds besides.     *)
Begin(h, op, pc, u, r) ==
  /\ At(h, "idle")
  /\ task' = [task EXCEPT ![h] = [r EXCEPT !.op = op, !.pc = pc, !.user = u]]

(* The unique column phone: another row holds p already. *)
PhoneTaken(u, p) == p # NoPhone /\ \E v \in User \ {u} : Exists(v) /\ user[v].phone = p

(* The guard of the routes behind JwtStrategy: an access token of u, issued *)
(* with a refresh token and not yet expired; the database is not asked.     *)
Authenticated(u) ==
  \E s \in Second : session[u][s].state # "none" /\ clock < s + AccessTtl

NewToken(u, type, code, phone) ==
  /\ Len(tokens) < MaxTokens
  /\ tokens' = Append(tokens, [user |-> u, type |-> type, code |-> code, phone |-> phone,
                               createdAt |-> clock, consumed |-> FALSE, uses |-> 0])

Used(h) ==
  [tokens EXCEPT ![task[h].token].uses = IF @ < UseCap THEN @ + 1 ELSE @]

(* Who is revoked: in the rows, live sessions; of the requests of u, those  *)
(* in flight are too late to be covered.                                    *)
RevokedRows(u) ==
  [session EXCEPT ![u] = [s \in Second |->
     IF session[u][s].state = "live" THEN [session[u][s] EXCEPT !.state = "revoked"]
                                     ELSE session[u][s]]]
Overtaken(u) ==
  [g \in Handler |-> IF task[g].user = u THEN [task[g] EXCEPT !.late = TRUE] ELSE task[g]]

-----------------------------------------------------------------------------
(* register: e-mail and phone must be free, now and when the row is created *)
(* after the hash of the password; then a verification token is mailed and  *)
(* a first pair of tokens issued.                                           *)

RegisterRead(h, u, p) ==
  /\ ~ Exists(u) /\ ~ PhoneTaken(u, p)
  /\ Begin(h, "register", "create", u, [Idle EXCEPT !.phone = p])
  /\ UNCHANGED <<clock, user, session, tokens, abandoned>>

RegisterCreate(h) ==
  LET k == task[h] IN
  /\ At(h, "create")
  /\ IF Exists(k.user) \/ PhoneTaken(k.user, k.phone)
       THEN Finish(h) /\ UNCHANGED user
       ELSE /\ Goto(h, "emailToken")
            /\ user' = [user EXCEPT ![k.user].status = "PENDING", ![k.user].phone = k.phone]
  /\ UNCHANGED <<clock, session, tokens, abandoned>>

SendEmailVerification(h) ==
  /\ At(h, "emailToken")
  /\ NewToken(task[h].user, "EMAIL_VERIFICATION", NoCode, NoPhone)
  /\ Goto(h, "sign")
  /\ UNCHANGED <<clock, user, session, abandoned>>

-----------------------------------------------------------------------------
(* login: the row is read once, with the right password, and its status     *)
(* checked; then tokens are issued (lastLoginAt is left out; two-factor     *)
(* authentication is never enabled).                                        *)

LoginRead(h, u) ==
  /\ "login" \in Requests
  /\ Exists(u) /\ user[u].status \notin {"BLOCKED", "SUSPENDED"}
  /\ Begin(h, "login", "sign", u, [Idle EXCEPT !.basis = user[u].password])
  /\ UNCHANGED <<clock, user, session, tokens, abandoned>>

(* issueTokenPair: the refresh token is signed, later its hash stored.      *)
Sign(h) ==
  /\ At(h, "sign")
  /\ task' = [task EXCEPT ![h].pc = "store", ![h].iat = clock]
  /\ UNCHANGED <<clock, user, session, tokens, abandoned>>

NewSession(k) == [state |-> "live", basis |-> k.basis, parent |-> k.parent, late |-> k.late]

(* A slip: the row is written over whatever has the same hash. *)
StoreSession_upsert(h) ==
  LET k == task[h] IN
  /\ At(h, "store")
  /\ session' = [session EXCEPT ![k.user][k.iat] = NewSession(k)]
  /\ Finish(h)
  /\ UNCHANGED <<clock, user, tokens, abandoned>>

(* The unique hash refuses a second pair of the same user and second, and   *)
(* the request ends with an error.                                          *)
StoreSession(h) ==
  LET k == task[h] IN
  /\ At(h, "store")
  /\ session' = IF session[k.user][k.iat].state = "none"
                  THEN [session EXCEPT ![k.user][k.iat] = NewSession(k)]
                  ELSE session
  /\ Finish(h)
  /\ UNCHANGED <<clock, user, tokens, abandoned>>

-----------------------------------------------------------------------------
(* refresh: find the row of the token, check it, revoke it, issue anew.     *)

BeginRefresh(h, u, s) ==
  /\ "refresh" \in Requests
  /\ clock < s + RefreshTtl
  /\ Begin(h, "refresh", "revoke", u,
           [Idle EXCEPT !.parent = s, !.basis = session[u][s].basis, !.late = session[u][s].late])
  /\ UNCHANGED <<clock, user, session, tokens, abandoned>>

(* A slip: revokedAt is not looked at. *)
RefreshFind_anyState(h, u, s) == session[u][s].state # "none" /\ BeginRefresh(h, u, s)

RefreshFind(h, u, s) == session[u][s].state = "live" /\ BeginRefresh(h, u, s)

RefreshRevoke(h) ==
  LET k == task[h] IN
  /\ At(h, "revoke")
  /\ session' = [session EXCEPT ![k.user][k.parent].state = "revoked"]
  /\ Goto(h, "sign")
  /\ UNCHANGED <<clock, user, tokens, abandoned>>

-----------------------------------------------------------------------------
(* Passwords.  logout, changePassword and resetPassword revoke the sessions *)
(* of the user, in one statement.                                           *)

Logout(u) ==
  /\ "logout" \in Requests
  /\ Authenticated(u)
  /\ session' = RevokedRows(u)
  /\ task' = Overtaken(u)
  /\ abandoned' = abandoned \ {u}
  /\ UNCHANGED <<clock, user, tokens>>

ForgotPassword(u) ==
  /\ "reset" \in Requests
  /\ Exists(u)
  /\ NewToken(u, "PASSWORD_RESET", NoCode, NoPhone)
  /\ UNCHANGED <<clock, user, session, task, abandoned>>

ChangeRead(h, u) ==
  /\ "change" \in Requests
  /\ Authenticated(u)
  /\ Begin(h, "change", "password", u, [Idle EXCEPT !.basis = user[u].password])
  /\ UNCHANGED <<clock, user, session, tokens, abandoned>>

(* A slip: the request ends without revoking the sessions. *)
UpdatePassword_only(h) ==
  LET k == task[h] IN
  /\ At(h, "password")
  /\ user[k.user].password < MaxPassword
  /\ user' = [user EXCEPT ![k.user].password = @ + 1]
  /\ tokens' = IF k.op = "reset" THEN Used(h) ELSE tokens
  /\ Finish(h)
  /\ UNCHANGED <<clock, session, abandoned>>

UpdatePassword(h) ==
  LET k == task[h] IN
  /\ At(h, "password")
  /\ user[k.user].password < MaxPassword
  /\ user' = [user EXCEPT ![k.user].password = @ + 1]
  /\ tokens' = IF k.op = "reset" THEN Used(h) ELSE tokens
  /\ Goto(h, "revokeAll")
  /\ UNCHANGED <<clock, session, abandoned>>

RevokeAllUserSessions(h) ==
  LET u == task[h].user IN
  /\ At(h, "revokeAll")
  /\ session' = RevokedRows(u)
  /\ task' = [Overtaken(u) EXCEPT ![h] = Idle]
  /\ abandoned' = abandoned \ {u}
  /\ UNCHANGED <<clock, user, tokens>>

-----------------------------------------------------------------------------
(* consumeToken, in two statements: the newest token not consumed with this *)
(* value and type is found and its expiry checked; then it is marked.       *)

Findable(i, type) == tokens[i].type = type /\ ~ tokens[i].consumed
Expired(i) == tokens[i].createdAt + Ttl(tokens[i].type) < clock

BeginConsume(h, op, u, i) ==
  /\ ~ Expired(i)
  /\ Begin(h, op, "consume", u, [Idle EXCEPT !.token = i])
  /\ UNCHANGED <<clock, user, session, tokens, abandoned>>

(* The value of a token of 32 bytes is in the mail to its user alone.       *)
VerifyEmailFind(h, i) ==
  /\ "verifyEmail" \in Requests
  /\ Findable(i, "EMAIL_VERIFICATION")
  /\ BeginConsume(h, "verifyEmail", tokens[i].user, i)

ResetFind(h, i) ==
  /\ "reset" \in Requests
  /\ Findable(i, "PASSWORD_RESET")
  /\ BeginConsume(h, "reset", tokens[i].user, i)

(* A code has six digits: two users may hold the same one.                  *)
VerifyPhoneFind(h, u, i) ==
  /\ "phone" \in Requests
  /\ Authenticated(u)
  /\ Findable(i, "PHONE_VERIFICATION")
  /\ \A j \in i + 1 .. Len(tokens) :
        ~ (Findable(j, "PHONE_VERIFICATION") /\ tokens[j].code = tokens[i].code)
  /\ BeginConsume(h, "verifyPhone", u, i)

(* A slip: verifyPhone takes anybody's token. *)
AfterConsume_anyOwner(h) ==
  LET k == task[h] IN
  \/ k.op = "verifyEmail" /\ Goto(h, "email")
  \/ k.op = "reset"       /\ Goto(h, "password")
  \/ k.op = "verifyPhone" /\ Goto(h, "phone")

(* verifyPhone compares the owner of the token with the user.               *)
AfterConsume(h) ==
  LET k == task[h] IN
  \/ k.op = "verifyEmail" /\ Goto(h, "email")
  \/ k.op = "reset"       /\ Goto(h, "password")
  \/ k.op = "verifyPhone" /\ tokens[k.token].user = k.user /\ Goto(h, "phone")
  \/ k.op = "verifyPhone" /\ tokens[k.token].user # k.user /\ Finish(h)

(* A slip: the token is not marked. *)
ConsumeToken_unmarked(h) ==
  /\ At(h, "consume")
  /\ AfterConsume(h)
  /\ UNCHANGED <<clock, user, session, tokens, abandoned>>

(* The token found is marked, consumed since or not. *)
ConsumeToken(h) ==
  /\ At(h, "consume")
  /\ tokens' = [tokens EXCEPT ![task[h].token].consumed = TRUE]
  /\ AfterConsume(h)
  /\ UNCHANGED <<clock, user, session, abandoned>>

-----------------------------------------------------------------------------
(* E-mail and phone. *)

(* markEmailVerified sets ACTIVE whatever the status is. *)
MarkEmailVerified(h) ==
  /\ At(h, "email")
  /\ user' = [user EXCEPT ![task[h].user].emailVerified = TRUE,
                          ![task[h].user].status = "ACTIVE"]
  /\ tokens' = Used(h)
  /\ Finish(h)
  /\ UNCHANGED <<clock, session, abandoned>>

(* requestPhoneVerification, for the number on file or for a new one.       *)
RequestPhoneRead(h, u, p) ==
  /\ "phone" \in Requests
  /\ Authenticated(u)
  /\ LET target == IF p = NoPhone THEN user[u].phone ELSE p IN
     /\ target # NoPhone
     /\ Begin(h, "requestPhone", IF target = user[u].phone THEN "otp" ELSE "setPhone", u,
              [Idle EXCEPT !.phone = target])
  /\ UNCHANGED <<clock, user, session, tokens, abandoned>>

SetPhone(h) ==
  LET k == task[h] IN
  /\ At(h, "setPhone")
  /\ IF PhoneTaken(k.user, k.phone)
       THEN Finish(h) /\ UNCHANGED user
       ELSE Goto(h, "otp") /\ user' = [user EXCEPT ![k.user].phone = k.phone]
  /\ UNCHANGED <<clock, session, tokens, abandoned>>

CreateOtpCode(h) ==
  LET k == task[h] IN
  /\ At(h, "otp")
  /\ \E c \in Code : NewToken(k.user, "PHONE_VERIFICATION", c, k.phone)
  /\ Finish(h)
  /\ UNCHANGED <<clock, user, session, abandoned>>

MarkPhoneVerified(h) ==
  /\ At(h, "phone")
  /\ user' = [user EXCEPT ![task[h].user].phoneVerified = TRUE]
  /\ tokens' = Used(h)
  /\ Finish(h)
  /\ UNCHANGED <<clock, session, abandoned>>

(* PATCH /users/me writes a number or null; phoneVerifiedAt stays as it is. *)
UpdateProfile(u, p) ==
  /\ "profile" \in Requests
  /\ Authenticated(u)
  /\ ~ PhoneTaken(u, p)
  /\ user' = [user EXCEPT ![u].phone = p]
  /\ UNCHANGED <<clock, session, tokens, task, abandoned>>

(* An administrator sets any status. *)
UpdateUserStatus(u, status) ==
  /\ "status" \in Requests
  /\ Exists(u)
  /\ user' = [user EXCEPT ![u].status = status]
  /\ UNCHANGED <<clock, session, tokens, task, abandoned>>

-----------------------------------------------------------------------------
(* Time, and a statement that fails: the request ends where it stands.      *)

Tick ==
  /\ clock < MaxClock
  /\ clock' = clock + 1
  /\ UNCHANGED <<user, session, tokens, task, abandoned>>

Crash(h) ==
  /\ "crash" \in Faults
  /\ ~ At(h, "idle")
  /\ Finish(h)
  /\ abandoned' = IF At(h, "revokeAll") THEN abandoned \cup {task[h].user} ELSE abandoned
  /\ UNCHANGED <<clock, user, session, tokens>>

(* The steps of a request under way. *)
Proceed(h) ==
  \/ RegisterCreate(h) \/ SendEmailVerification(h)
  \/ Sign(h) \/ StoreSession(h) \/ RefreshRevoke(h)
  \/ UpdatePassword(h) \/ RevokeAllUserSessions(h)
  \/ ConsumeToken(h) \/ MarkEmailVerified(h)
  \/ SetPhone(h) \/ CreateOtpCode(h) \/ MarkPhoneVerified(h)

(* A new request. *)
Arrive(h) ==
  \/ \E u \in User :
       \/ \E p \in Phone \cup {NoPhone} : RegisterRead(h, u, p) \/ RequestPhoneRead(h, u, p)
       \/ LoginRead(h, u) \/ ChangeRead(h, u)
       \/ \E s \in Second : RefreshFind(h, u, s)
       \/ \E i \in DOMAIN tokens : VerifyPhoneFind(h, u, i)
  \/ \E i \in DOMAIN tokens : VerifyEmailFind(h, i) \/ ResetFind(h, i)

(* A request of one statement. *)
AtOnce(u) ==
  \/ Logout(u) \/ ForgotPassword(u)
  \/ \E p \in Phone \cup {NoPhone} : UpdateProfile(u, p)
  \/ \E s \in UserStatus : UpdateUserStatus(u, s)

Next ==
  \/ \E h \in Handler : Arrive(h) \/ Proceed(h) \/ Crash(h)
  \/ \E u \in User : AtOnce(u)
  \/ Tick

Spec == Init /\ [][Next]_vars

(* Node runs a handler on when its statement is answered. *)
FairSpec == Spec /\ \A h \in Handler : WF_vars(Proceed(h))

-----------------------------------------------------------------------------
(* Properties. *)

(* The sessions of u are about to be revoked, or a crash prevented it.      *)
Revoking(u) ==
  \/ u \in abandoned
  \/ \E h \in Handler : task[h].user = u /\ At(h, "revokeAll")

(* A session that rests on password basis is accounted for: the password is *)
(* still that of u, or the session was being issued while u's were revoked, *)
(* or the revocation is still to come.                                      *)
Covered(u, basis, late) == basis = user[u].password \/ late \/ Revoking(u)

(* After a change or a reset of the password, no live session rests on an   *)
(* earlier password, except one whose request, or that of a token it was    *)
(* exchanged for, was in flight during the revocation.                      *)
(* (updatePassword, then revokeAllUserSessions)                             *)
NoSessionOutlivesRevocation ==
  \A u \in User, s \in Second :
    session[u][s].state = "live" => Covered(u, session[u][s].basis, session[u][s].late)

(* Sessions and one-time tokens belong to registered users, and nobody else *)
(* has changed a password.                                                  *)
Registered ==
  /\ \A u \in User : ~ Exists(u) => user[u].password = 0
  /\ \A u \in User, s \in Second : session[u][s].state # "none" => Exists(u)
  /\ \A i \in DOMAIN tokens : Exists(tokens[i].user)

(* The pcs from which a request goes on to the issue of a session. *)
Issuing == {"emailToken", "revoke", "sign", "store"}

(* What each request holds is good: the session it will issue is accounted  *)
(* for; the token it presents exists, has its type, is consumed before it   *)
(* has an effect, and is the user's own.                                    *)
InFlight(h) ==
  LET k == task[h]
      t == tokens[k.token] IN
  /\ k.pc # "idle" => k.user \in User
  /\ k.pc \notin {"idle", "create"} => Exists(k.user)
  /\ k.pc = "create" => k.basis = 0
  /\ k.pc \in Issuing => Covered(k.user, k.basis, k.late)
  /\ k.pc = "revoke" => k.parent \in Second /\ session[k.user][k.parent].state # "none"
  /\ k.pc \in {"consume", "email", "phone"} \/ k.op = "reset" => k.token \in DOMAIN tokens
  /\ k.pc \in {"email", "phone"} => t.consumed /\ t.user = k.user
  /\ k.pc = "email" => t.type = "EMAIL_VERIFICATION"
  /\ k.pc = "phone" => t.type = "PHONE_VERIFICATION"
  /\ k.pc = "consume" /\ k.op = "verifyPhone" => t.type = "PHONE_VERIFICATION"
  /\ k.pc = "consume" /\ k.op = "verifyEmail" =>
       t.type = "EMAIL_VERIFICATION" /\ t.user = k.user

(* What is marked verified was verified with a token of this very user,     *)
(* which cannot be used again: no other user's code, though it may be the   *)
(* same six digits.  (consumeToken and its callers)                         *)
Proof(u, type) ==
  \E i \in DOMAIN tokens :
    tokens[i].user = u /\ tokens[i].type = type /\ tokens[i].consumed

VerifiedByOwnToken ==
  \A u \in User : /\ user[u].emailVerified => Proof(u, "EMAIL_VERIFICATION")
                  /\ user[u].phoneVerified => Proof(u, "PHONE_VERIFICATION")

(* A refresh token revoked is never good again, not even when the same user *)
(* is issued the same JWT within the second.  (the unique tokenHash)        *)
RevokedForGood ==
  [][\A u \in User, s \in Second :
       session[u][s].state = "revoked" => session'[u][s].state = "revoked"]_vars

(* "Valide un refresh token, le révoque et émet une nouvelle paire          *)
(* (rotation)": a refresh token is exchanged for one pair at most.          *)
RotatedOnce ==
  \A u \in User, r, s \in Second :
    session[u][r].parent = session[u][s].parent /\ session[u][r].parent # NoSecond => r = s

(* "consommation unique": one token is acted upon once. *)
UsedOnce == \A i \in DOMAIN tokens : tokens[i].uses <= 1

(* "Invalide toutes les sessions existantes par sécurité": once a reset has *)
(* revoked the sessions, none that is live rests on an earlier password.    *)
ResetEndsSessions ==
  \A u \in User, s \in Second :
    session[u][s].state = "live" /\ session[u][s].basis # user[u].password => Revoking(u)

(* The inductive invariant. *)
IInv ==
  /\ TypeOK
  /\ NoSessionOutlivesRevocation
  /\ VerifiedByOwnToken
  /\ Registered
  /\ \A h \in Handler : InFlight(h)

(* When requests do not fail half-way, the sessions that rest on an earlier *)
(* password are revoked in the end, but for those issued meanwhile.         *)
OldSessionsEnd ==
  \A u \in User, s \in Second :
    session[u][s].state = "live" /\ ~ session[u][s].late
      /\ session[u][s].basis # user[u].password
    ~> session[u][s].state = "revoked"

=============================================================================
