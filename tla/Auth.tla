-------------------------------- MODULE Auth --------------------------------
(***************************************************************************)
(* Accounts and refresh tokens: AuthService (src/src/auth/auth.service.ts) *)
(* and AuthController (src/src/auth/auth.controller.ts).                   *)
(*                                                                         *)
(* A call runs over several awaits: the lookup of the user, for register   *)
(* the insertion of the row, and the write of the refresh token's hash.    *)
(* Access tokens are stateless; of the refresh tokens the server keeps one *)
(* hash per account, which every sign-in and every refresh overwrites.     *)
(*                                                                         *)
(* The account that call c registers is named c, and so are the tokens     *)
(* that call c issues.                                                     *)
(***************************************************************************)
CONSTANTS
    Calls,   \* the HTTP calls under /auth
    Emails,
    Nothing  \* no row, no token, no request

ASSUME NothingAssumption == Nothing \notin Calls \cup Emails

Ops == {"register", "login", "refresh", "logout"}

VARIABLES
    email,   \* User.email, Nothing while there is no row
    stored,  \* User.refreshToken: the token whose hash it is, or NULL
    req,     \* what each call asks for
    user,    \* the row each call works on, as it read or created it
    at       \* the next await of each call, or its answer

vars == <<email, stored, req, user, at>>

(* "right" says whether a login gives the account's password; "token" is    *)
(* the call that issued the bearer token.                                  *)
Request == [op : Ops, email : Emails \cup {Nothing}, right : BOOLEAN,
            token : Calls \cup {Nothing}]

InFlight == {"lookup", "insert", "store", "clear"}
Answers  == {"ok", "conflict", "denied", "error"}

TypeOK ==
    /\ email \in [Calls -> Emails \cup {Nothing}]
    /\ stored \in [Calls -> Calls \cup {Nothing}]
    /\ req \in [Calls -> Request \cup {Nothing}]
    /\ user \in [Calls -> Calls \cup {Nothing}]
    /\ at \in [Calls -> {"idle"} \cup InFlight \cup Answers]
    /\ \A c \in Calls : at[c] \in {"store", "ok"} => user[c] # Nothing

Init ==
    /\ email = [a \in Calls |-> Nothing]
    /\ stored = [a \in Calls |-> Nothing]
    /\ req = [c \in Calls |-> Nothing]
    /\ user = [c \in Calls |-> Nothing]
    /\ at = [c \in Calls |-> "idle"]

-----------------------------------------------------------------------------
Goto(c, label) == at' = [at EXCEPT ![c] = label]

Issues(op) == op \in {"register", "login", "refresh"}

(* The tokens clients hold.                                                *)
Issued == {c \in Calls : at[c] = "ok" /\ Issues(req[c].op)}

RequestsNow ==
    {r \in Request :
        IF r.op \in {"register", "login"}
        THEN /\ r.email # Nothing /\ r.token = Nothing
             /\ r.op = "register" => r.right
        ELSE r.email = Nothing /\ ~r.right /\ r.token \in Issued}

(* The guards of refresh and logout let a signed token pass that has not    *)
(* expired.                                                                *)
Receive(c) ==
    /\ at[c] = "idle"
    /\ \E r \in RequestsNow :
          /\ req' = [req EXCEPT ![c] = r]
          /\ \/ Goto(c, IF r.op = "logout" THEN "clear" ELSE "lookup")
             \/ r.token # Nothing /\ Goto(c, "denied")
    /\ UNCHANGED <<email, stored, user>>

(* findUnique by email; the column is unique.                               *)
RowsOf(e) == {a \in Calls : email[a] = e}

(* Carry on with row a, which the call has read or created.                 *)
Use(c, a, label) == user' = [user EXCEPT ![c] = a] /\ Goto(c, label)

Stop(c, answer) == Goto(c, answer) /\ UNCHANGED user

LookupRegister(c) ==
    /\ at[c] = "lookup" /\ req[c].op = "register"
    /\ Stop(c, IF RowsOf(req[c].email) = {} THEN "insert" ELSE "conflict")
    /\ UNCHANGED <<email, stored, req>>

(* The unique index refuses a second row; register does not catch that.     *)
EmailFreeUnindexed(c) == TRUE  \* seeded bug: no @unique on email
EmailFree(c) == RowsOf(req[c].email) = {}

InsertUser(c) ==
    /\ at[c] = "insert"
    /\ \/ /\ EmailFree(c)
          /\ email' = [email EXCEPT ![c] = req[c].email]
          /\ Use(c, c, "store") \/ Stop(c, "error")
       \/ Stop(c, "error") /\ UNCHANGED email
    /\ UNCHANGED <<stored, req>>

LookupLoginUnfound(c) ==  \* seeded bug: a missing user is not refused
    /\ at[c] = "lookup" /\ req[c].op = "login"
    /\ IF RowsOf(req[c].email) = {} THEN Use(c, Nothing, "store")
       ELSE \E a \in RowsOf(req[c].email) : Use(c, a, "store")
    /\ UNCHANGED <<email, stored, req>>

LookupLoginUnchecked(c) ==  \* seeded bug: the password is not compared
    /\ at[c] = "lookup" /\ req[c].op = "login"
    /\ \E a \in RowsOf(req[c].email) : Use(c, a, "store")
    /\ UNCHANGED <<email, stored, req>>

LookupLogin(c) ==
    /\ at[c] = "lookup" /\ req[c].op = "login"
    /\ \/ /\ req[c].right
          /\ \E a \in RowsOf(req[c].email) : Use(c, a, "store")
       \/ /\ ~req[c].right \/ RowsOf(req[c].email) = {}
          /\ Stop(c, "denied")
    /\ UNCHANGED <<email, stored, req>>

(* The account a token was issued to, its claim "sub".                      *)
Subject(token) == user[token]

(* bcrypt.compare(token, hash of t).  bcrypt reads 72 bytes; those of a JWT *)
(* are its header and the first half of "sub".                              *)
Matches(token, t) == t # Nothing /\ Subject(t) = Subject(token)

Accepts(token) == Matches(token, stored[Subject(token)])

LookupRefresh(c) ==
    /\ at[c] = "lookup" /\ req[c].op = "refresh"
    /\ IF Accepts(req[c].token)
       THEN Use(c, Subject(req[c].token), "store")
       ELSE Stop(c, "denied")
    /\ UNCHANGED <<email, stored, req>>

(* updateRefreshToken, which may commit although the call ends in an error. *)
Store(c) ==
    /\ at[c] = "store"
    /\ stored' = [stored EXCEPT ![user[c]] = c]
    /\ Goto(c, "ok") \/ Goto(c, "error")
    /\ UNCHANGED <<email, req, user>>

(* logout passes req.user.sub, but JwtStrategy.validate names the id userId: *)
(* Prisma gets id undefined and throws.                                    *)
Logout(c) ==
    /\ at[c] = "clear"
    /\ Goto(c, "error")
    /\ UNCHANGED <<email, stored, req, user>>

(* A query that fails without effect ends the call.                         *)
Fail(c) ==
    /\ at[c] \in InFlight
    /\ Goto(c, "error")
    /\ UNCHANGED <<email, stored, req, user>>

Call(c) ==
    \/ Receive(c) \/ LookupRegister(c) \/ InsertUser(c) \/ LookupLogin(c)
    \/ LookupRefresh(c) \/ Store(c) \/ Logout(c) \/ Fail(c)

Next == \E c \in Calls : Call(c)

Spec == Init /\ [][Next]_vars

-----------------------------------------------------------------------------
(* Properties.                                                             *)

Registered == {c \in Calls : at[c] = "ok" /\ req[c].op = "register"}

(* Racing registrations of one address: one account at most, and one call   *)
(* at most is told that it registered.                                     *)
OneAccountPerEmail ==
    /\ \A a, b \in Calls : email[a] # Nothing /\ email[a] = email[b] => a = b
    /\ \A c, d \in Registered : req[c].email = req[d].email => c = d

(* Who shows the password of the account it gets tokens for, by registering *)
(* it or logging in, and who shows one of the given tokens of that account. *)
ShowedPassword(c) ==
    \/ req[c].op = "register" /\ user[c] = c
    \/ req[c].op = "login" /\ req[c].right /\ req[c].email = email[user[c]]
ShowedOneOf(tokens, c) ==
    /\ req[c].op = "refresh" /\ req[c].token \in tokens
    /\ user[req[c].token] = user[c]

(* Every token goes back to a password: all the tokens in clients' hands    *)
(* are among those that grow, refresh by refresh, from the ones given for   *)
(* the password of their account.                                          *)
TokensGoBackToPasswords ==
    \A tokens \in SUBSET Issued :
        (\A c \in Issued : ShowedPassword(c) \/ ShowedOneOf(tokens, c) => c \in tokens)
            => tokens = Issued

(* README: "Logout and invalidate refresh token": a logout that no query    *)
(* failure interrupts does so.                                             *)
LogoutInvalidates ==
    [][\A c \in Calls : Logout(c) => ~Accepts(req[c].token)']_vars
=============================================================================
