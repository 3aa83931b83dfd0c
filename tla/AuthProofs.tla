----------------------------- MODULE AuthProofs -----------------------------
(***************************************************************************)
(* Theorems about Auth, for any number of calls and addresses.             *)
(***************************************************************************)
EXTENDS Auth, TLAPS

(* Next is some Call(c); its disjuncts are what every step is split into.    *)
USE DEF Call

-----------------------------------------------------------------------------
(* Types.                                                                  *)

Labels == {"idle"} \cup InFlight \cup Answers

(* What a call carries once it is in: an address for register and login, a  *)
(* token that was issued for refresh and logout.                            *)
Carries(c) ==
    /\ req[c] \in Request
    /\ req[c].op \in {"register", "login"} => req[c].email \in Emails
    /\ req[c].op \in {"refresh", "logout"} => req[c].token \in Issued

Typed == TypeOK /\ \A c \in Calls : at[c] # "idle" => Carries(c)

(* One call moves; answers are final, and so is a row once it is in use.    *)
Moves(c) ==
    /\ \A d \in Calls \ {c} : /\ at'[d] = at[d] /\ req'[d] = req[d]
                              /\ user'[d] = user[d]
    /\ at[c] \notin Answers
    /\ at[c] # "idle" => req'[c] = req[c]
    /\ at[c] \notin {"lookup", "insert"} => user'[c] = user[c]

LEMMA RowsAreCalls ==
  ASSUME NEW e, NEW a \in RowsOf(e)
  PROVE  a \in Calls /\ email[a] = e
  BY DEF RowsOf

LEMMA IssuedTokens ==
  ASSUME TypeOK, NEW t \in Issued
  PROVE  t \in Calls /\ at[t] = "ok" /\ user[t] \in Calls
  BY DEF Issued, TypeOK

LEMMA ReceiveStep ==
  ASSUME Typed, NEW c \in Calls, Receive(c)
  PROVE  /\ at[c] = "idle" /\ UNCHANGED <<email, stored, user>>
         /\ \E l \in {"lookup", "clear", "denied"} : at' = [at EXCEPT ![c] = l]
         /\ \E r \in RequestsNow : req' = [req EXCEPT ![c] = r]
  BY DEF Receive, Goto

LEMMA LookupStep ==
  ASSUME Typed, NEW c \in Calls,
         LookupRegister(c) \/ LookupLogin(c) \/ LookupRefresh(c)
  PROVE  /\ at[c] = "lookup" /\ UNCHANGED <<email, stored, req>>
         /\ \/ \E l \in {"insert", "conflict", "denied"} :
                  at' = [at EXCEPT ![c] = l] /\ user' = user
            \/ \E a \in Calls : /\ at' = [at EXCEPT ![c] = "store"]
                                /\ user' = [user EXCEPT ![c] = a]
<1>1. CASE LookupRegister(c)
  BY <1>1 DEF LookupRegister, Stop, Goto
<1>2. CASE LookupLogin(c)
  BY <1>2, RowsAreCalls DEF LookupLogin, Use, Stop, Goto
<1>3. CASE LookupRefresh(c)
  <2>1. Subject(req[c].token) \in Calls
    BY <1>3, IssuedTokens DEF LookupRefresh, Typed, Carries, Subject
  <2>2. CASE Accepts(req[c].token)
    BY <1>3, <2>1, <2>2 DEF LookupRefresh, Use, Goto
  <2>3. CASE ~Accepts(req[c].token)
    BY <1>3, <2>3 DEF LookupRefresh, Stop, Goto
  <2> QED BY <2>2, <2>3
<1> QED BY <1>1, <1>2, <1>3

LEMMA InsertStep ==
  ASSUME Typed, NEW c \in Calls, InsertUser(c)
  PROVE  /\ at[c] = "insert" /\ UNCHANGED <<stored, req>>
         /\ \/ email' = email
            \/ EmailFree(c) /\ email' = [email EXCEPT ![c] = req[c].email]
         /\ \/ at' = [at EXCEPT ![c] = "error"] /\ user' = user
            \/ /\ at' = [at EXCEPT ![c] = "store"]
               /\ user' = [user EXCEPT ![c] = c]
               /\ email' = [email EXCEPT ![c] = req[c].email]
  BY DEF InsertUser, Use, Stop, Goto

LEMMA EndStep ==
  ASSUME Typed, NEW c \in Calls, Store(c) \/ Logout(c) \/ Fail(c)
  PROVE  /\ at[c] \in InFlight /\ UNCHANGED <<email, req, user>>
         /\ \/ at' = [at EXCEPT ![c] = "error"]
            \/ at[c] = "store" /\ at' = [at EXCEPT ![c] = "ok"]
         /\ \/ stored' = stored
            \/ at[c] = "store" /\ stored' = [stored EXCEPT ![user[c]] = c]
  BY DEF Store, Logout, Fail, Goto, InFlight

LEMMA EachStepMoves ==
  ASSUME Typed, NEW c \in Calls, Call(c)
  PROVE  Moves(c)
<1> USE DEF Typed, TypeOK
<1>1. CASE Receive(c)
  BY <1>1, ReceiveStep DEF Moves, Answers
<1>2. CASE LookupRegister(c) \/ LookupLogin(c) \/ LookupRefresh(c)
  BY <1>2, LookupStep DEF Moves, Answers
<1>3. CASE InsertUser(c)
  BY <1>3, InsertStep DEF Moves, Answers
<1>4. CASE Store(c) \/ Logout(c) \/ Fail(c)
  BY <1>4, EndStep DEF Moves, Answers, InFlight
<1> QED BY <1>1, <1>2, <1>3, <1>4
LEMMA IssuedStaysIssued ==
  ASSUME NEW c \in Calls, Moves(c), NEW t \in Issued
  PROVE  t \in Issued' /\ at'[t] = at[t] /\ req'[t] = req[t] /\ user'[t] = user[t]
<1>1. t \in Calls /\ at[t] = "ok" /\ t # c
  BY DEF Issued, Moves, Answers
<1> QED BY <1>1 DEF Issued, Moves

LEMMA RequestsCarry ==
  ASSUME NEW r \in RequestsNow
  PROVE  /\ r \in Request
         /\ r.op \in {"register", "login"} => r.email \in Emails
         /\ r.op \in {"refresh", "logout"} => r.token \in Issued
  BY DEF RequestsNow, Request

LEMMA TypedStep == ASSUME Typed, [Next]_vars PROVE Typed'
<1> USE DEF Typed, TypeOK
<1>1. CASE UNCHANGED vars
  BY <1>1 DEF vars, Carries, Issued
<1>2. ASSUME NEW c \in Calls, Call(c) PROVE Typed'
  <2>1. Moves(c)
    BY <1>2, EachStepMoves
  <2>2. TypeOK'
    <3>1. CASE Receive(c)
      BY <3>1, ReceiveStep, RequestsCarry DEF InFlight, Answers
    <3>2. CASE LookupRegister(c) \/ LookupLogin(c) \/ LookupRefresh(c)
      BY <3>2, LookupStep, NothingAssumption DEF InFlight, Answers
    <3>3. CASE InsertUser(c)
      <4>1. req[c].email \in Emails \cup {Nothing}
        BY <3>3, InsertStep DEF Carries, Request
      <4> QED BY <3>3, <4>1, InsertStep, NothingAssumption DEF InFlight, Answers
    <3>4. CASE Store(c) \/ Logout(c) \/ Fail(c)
      <4>1. at[c] = "store" => user[c] \in Calls
        OBVIOUS
      <4> QED BY <3>4, <4>1, EndStep DEF InFlight, Answers
    <3> QED BY <1>2, <3>1, <3>2, <3>3, <3>4
  <2>3. ASSUME NEW d \in Calls, at'[d] # "idle" PROVE Carries(d)'
    <3>1. CASE at[d] # "idle"
      <4>1. req'[d] = req[d]
        BY <2>1, <3>1 DEF Moves
      <4> QED BY <2>1, <3>1, <4>1, IssuedStaysIssued DEF Carries
    <3>2. CASE at[d] = "idle"
      <4>1. d = c /\ Receive(c)
        BY <1>2, <2>1, <2>3, <3>2, LookupStep, InsertStep, EndStep DEF Moves, InFlight
      <4>2. PICK r \in RequestsNow : req' = [req EXCEPT ![c] = r]
        BY <4>1, ReceiveStep
      <4>3. req'[d] = r
        BY <4>1, <4>2
      <4> QED BY <2>1, <4>2, <4>3, RequestsCarry, IssuedStaysIssued DEF Carries
    <3> QED BY <3>1, <3>2
  <2> QED BY <2>2, <2>3
<1> QED BY <1>1, <1>2 DEF Next

LEMMA TypedInvariant == Spec => []Typed
<1>1. Init => Typed
  BY DEF Init, Typed, TypeOK, Answers, InFlight
<1>2. Typed /\ [Next]_vars => Typed'
  BY TypedStep
<1> QED BY <1>1, <1>2, PTL DEF Spec

(* The rows and the calls keep their types, and whoever gets tokens has an  *)
(* account.                                                                *)
THEOREM TypeCorrect == Spec => []TypeOK
BY TypedInvariant, PTL DEF Typed
-----------------------------------------------------------------------------
(* Accounts.                                                               *)

(* A call inserts at most one row, under its own name, and a registration   *)
(* that was answered stands for the row of its address.                     *)
NoRowYet ==
    \A c \in Calls : at[c] \in {"idle", "lookup", "insert", "clear"} => email[c] = Nothing

UniqueRows ==
    \A a, b \in Calls : email[a] # Nothing /\ email[a] = email[b] => a = b

OnlyRegistrationsInsert ==
    \A c \in Calls : at[c] = "insert" => req[c].op = "register"

RegistrationsHaveRows ==
    \A c \in Calls :
        at[c] \in {"store", "ok"} /\ req[c].op = "register" =>
            user[c] = c /\ email[c] = req[c].email

Accounts == Typed /\ NoRowYet /\ UniqueRows /\ OnlyRegistrationsInsert /\ RegistrationsHaveRows

LEMMA RowsStay ==
  ASSUME Accounts, NEW c \in Calls, Call(c)
  PROVE  /\ \A a \in Calls : a # c \/ email[a] # Nothing => email'[a] = email[a]
         /\ at[c] # "insert" => email' = email
<1>1. CASE InsertUser(c)
  BY <1>1, InsertStep DEF Accounts, Typed, TypeOK, NoRowYet
<1>2. CASE ~InsertUser(c)
  BY <1>2, ReceiveStep, LookupStep, EndStep DEF Accounts
<1> QED BY <1>1, <1>2

LEMMA AccountsStep == ASSUME Accounts, [Next]_vars PROVE Accounts'
<1> USE DEF Accounts
<1>1. CASE UNCHANGED vars
  BY <1>1, TypedStep DEF vars, NoRowYet, UniqueRows, RegistrationsHaveRows,
       OnlyRegistrationsInsert
<1>2. ASSUME NEW c \in Calls, Call(c) PROVE Accounts'
  <2> USE DEF Typed, TypeOK
  <2>1. Moves(c)
    BY <1>2, EachStepMoves
  <2>2. NoRowYet'
    <3>1. CASE Receive(c) \/ Store(c) \/ Logout(c) \/ Fail(c)
      BY <3>1, ReceiveStep, EndStep DEF NoRowYet
    <3>2. CASE LookupRegister(c) \/ LookupLogin(c) \/ LookupRefresh(c)
      BY <3>2, LookupStep DEF NoRowYet
    <3>3. CASE InsertUser(c)
      BY <3>3, InsertStep DEF NoRowYet
    <3> QED BY <1>2, <3>1, <3>2, <3>3
  <2>3. UniqueRows'
    <3>1. CASE email' = email
      BY <3>1 DEF UniqueRows
    <3>2. CASE InsertUser(c) /\ EmailFree(c) /\ email' = [email EXCEPT ![c] = req[c].email]
      <4>1. \A a \in Calls : email[a] # req[c].email
        BY <3>2 DEF EmailFree, RowsOf
      <4> QED BY <3>2, <4>1 DEF UniqueRows
    <3> QED BY <1>2, <3>1, <3>2, ReceiveStep, LookupStep, InsertStep, EndStep
  <2>4. ASSUME NEW d \in Calls, at'[d] \in {"store", "ok"}, req'[d].op = "register"
        PROVE  user'[d] = d /\ email'[d] = req'[d].email
    <3>1. CASE at[d] \in {"store", "ok"}
      <4>1. req'[d] = req[d] /\ user'[d] = user[d]
        BY <2>1, <3>1 DEF Moves, Answers
      <4>2. user[d] = d /\ email[d] = req[d].email
        BY <2>4, <3>1, <4>1 DEF RegistrationsHaveRows
      <4>3. email'[d] = email[d]
        BY <1>2, <2>1, <3>1, RowsStay
      <4> QED BY <4>1, <4>2, <4>3
    <3>2. CASE at[d] \notin {"store", "ok"}
      <4>1. d = c
        BY <2>1, <2>4, <3>2 DEF Moves
      <4>2. CASE InsertUser(c)
        BY <2>4, <4>1, <4>2, InsertStep
      <4>3. CASE ~InsertUser(c)
        <5>1. LookupLogin(c) \/ LookupRefresh(c)
          BY <1>2, <2>4, <3>2, <4>1, <4>3, ReceiveStep, EndStep DEF LookupRegister, Stop, Goto
        <5> QED BY <2>4, <4>1, <5>1 DEF LookupLogin, LookupRefresh
      <4> QED BY <4>2, <4>3
    <3> QED BY <3>1, <3>2
  <2>5. ASSUME NEW d \in Calls, at'[d] = "insert" PROVE req'[d].op = "register"
    <3>1. CASE at[d] = "insert"
      BY <2>1, <3>1 DEF Moves, OnlyRegistrationsInsert
    <3>2. CASE at[d] # "insert"
      <4>1. d = c
        BY <2>1, <2>5, <3>2 DEF Moves
      <4>2. LookupRegister(c)
        BY <1>2, <2>5, <3>2, <4>1, ReceiveStep, InsertStep, EndStep
           DEF LookupLogin, LookupRefresh, Use, Stop, Goto
      <4> QED BY <4>1, <4>2 DEF LookupRegister
    <3> QED BY <3>1, <3>2
  <2> QED BY <1>1, <2>2, <2>3, <2>4, <2>5, TypedStep DEF RegistrationsHaveRows, OnlyRegistrationsInsert, Next
<1> QED BY <1>1, <1>2 DEF Next

LEMMA AccountsInvariant == Spec => []Accounts
<1>1. Init => Accounts
  BY DEF Init, Accounts, Typed, TypeOK, Answers, InFlight, NoRowYet, UniqueRows,
     RegistrationsHaveRows, OnlyRegistrationsInsert
<1>2. Accounts /\ [Next]_vars => Accounts'
  BY AccountsStep
<1> QED BY <1>1, <1>2, PTL DEF Spec

(* Racing registrations of one address leave one account, and one call at   *)
(* most is told that it registered.                                        *)
THEOREM OneAccount == Spec => []OneAccountPerEmail
<1>1. Accounts => OneAccountPerEmail
  <2> SUFFICES ASSUME Accounts PROVE OneAccountPerEmail
    OBVIOUS
  <2>1. ASSUME NEW c \in Registered, NEW d \in Registered, req[c].email = req[d].email
        PROVE  c = d
    <3>1. c \in Calls /\ d \in Calls
      BY DEF Registered
    <3>2. email[c] = email[d] /\ email[c] \in Emails
      BY <2>1, <3>1 DEF Accounts, RegistrationsHaveRows, Registered, Typed, Carries
    <3> QED BY <3>1, <3>2, NothingAssumption DEF Accounts, UniqueRows
  <2> QED BY <2>1 DEF Accounts, UniqueRows, OneAccountPerEmail
<1> QED BY <1>1, AccountsInvariant, PTL
-----------------------------------------------------------------------------
(* Where tokens come from.                                                 *)

(* A call that issues tokens showed the password, or a token issued before. *)
Backed(c) == ShowedPassword(c) \/ ShowedOneOf(Issued, c)

AllBacked == \A c \in Calls : at[c] \in {"store", "ok"} => Backed(c)

LEMMA PasswordsStayShown ==
  ASSUME Accounts, NEW c \in Calls, NEW d \in Calls, Call(c),
         at[d] \in {"store", "ok"}
  PROVE  /\ user'[d] = user[d] /\ user[d] \in Calls /\ req'[d] = req[d]
         /\ ShowedPassword(d) => ShowedPassword(d)'
<1>1. Moves(c)
  BY EachStepMoves DEF Accounts
<1>2. user'[d] = user[d] /\ user[d] \in Calls /\ req'[d] = req[d]
  BY <1>1 DEF Moves, Answers, Accounts, Typed, TypeOK
<1>3. req[d].op = "login" => req[d].email # Nothing
  BY NothingAssumption DEF Accounts, Typed, Carries
<1>4. email[user[d]] # Nothing => email'[user[d]] = email[user[d]]
  BY <1>2, RowsStay
<1> QED BY <1>2, <1>3, <1>4 DEF ShowedPassword

LEMMA BackedStep ==
  ASSUME Accounts, AllBacked, [Next]_vars
  PROVE  AllBacked'
<1> USE DEF Accounts
<1>1. CASE UNCHANGED vars
  BY <1>1 DEF vars, AllBacked, Backed, ShowedPassword, ShowedOneOf, Issued
<1>2. ASSUME NEW c \in Calls,
             Call(c), NEW d \in Calls, at'[d] \in {"store", "ok"}
      PROVE  Backed(d)'
  <2>1. Moves(c)
    BY <1>2, EachStepMoves
  <2>2. CASE at[d] \in {"store", "ok"}
    <3>1. Backed(d)
      BY <2>2 DEF AllBacked
    <3>2. /\ user'[d] = user[d] /\ req'[d] = req[d]
          /\ ShowedPassword(d) => ShowedPassword(d)'
      BY <1>2, <2>2, PasswordsStayShown
    <3> QED BY <2>1, <3>1, <3>2, IssuedStaysIssued DEF Backed, ShowedOneOf
  <2>3. CASE at[d] \notin {"store", "ok"}
    <3>1. d = c
      BY <1>2, <2>1, <2>3 DEF Moves
    <3>2. at[c] # "store"
      BY <2>3, <3>1
    <3>3. InsertUser(c) \/ LookupLogin(c) \/ LookupRefresh(c)
      BY <1>2, <3>1, <3>2, ReceiveStep, EndStep
         DEF LookupRegister, Stop, Goto, Typed, TypeOK
    <3>4. CASE InsertUser(c)
      <4>1. user'[c] = c
        BY <1>2, <3>1, <3>4, InsertStep DEF Typed, TypeOK
      <4>2. req[c].op = "register"
        BY <3>4, InsertStep DEF OnlyRegistrationsInsert
      <4> QED BY <3>1, <3>4, <4>1, <4>2, InsertStep DEF Backed, ShowedPassword
    <3>5. CASE LookupLogin(c)
      BY <1>2, <3>1, <3>5, RowsAreCalls
         DEF LookupLogin, Use, Stop, Goto, Backed, ShowedPassword, Typed, TypeOK
    <3>6. CASE LookupRefresh(c)
      <4>1. PICK t \in Issued : t = req[c].token
        BY <3>6 DEF LookupRefresh, Typed, Carries
      <4>2. /\ user'[c] = user[t] /\ req' = req
            /\ req[c].op = "refresh"
        BY <1>2, <3>1, <3>6, <4>1 DEF LookupRefresh, Use, Stop, Goto, Subject, Typed, TypeOK
      <4>3. t \in Issued' /\ user'[t] = user[t]
        BY <2>1, <4>1, IssuedStaysIssued
      <4> QED BY <3>1, <4>1, <4>2, <4>3 DEF Backed, ShowedOneOf
    <3> QED BY <3>3, <3>4, <3>5, <3>6
  <2> QED BY <2>2, <2>3
<1> QED BY <1>1, <1>2 DEF Next, AllBacked

(* A set of tokens that is closed after a step was closed before it, so it  *)
(* has all the older ones, and the new one by what its call showed.        *)
LEMMA ChainsStep ==
  ASSUME Accounts, AllBacked, TokensGoBackToPasswords, [Next]_vars
  PROVE  TokensGoBackToPasswords'
<1> USE DEF Accounts
<1>1. CASE UNCHANGED vars
  BY <1>1 DEF vars, TokensGoBackToPasswords, ShowedPassword, ShowedOneOf, Issued
<1>2. ASSUME NEW c \in Calls, Call(c) PROVE TokensGoBackToPasswords'
  <2> SUFFICES ASSUME NEW S \in SUBSET Issued',
                      \A d \in Issued' : (ShowedPassword(d) \/ ShowedOneOf(S, d))' => d \in S,
                      NEW d \in Issued'
               PROVE  d \in S
    BY DEF TokensGoBackToPasswords
  <2>1. Moves(c)
    BY <1>2, EachStepMoves
  <2>2. ASSUME NEW t \in Issued
        PROVE  /\ t \in Calls /\ t \in Issued' /\ user'[t] = user[t] /\ req'[t] = req[t]
               /\ ShowedPassword(t) => ShowedPassword(t)'
    <3>1. t \in Calls /\ at[t] \in {"store", "ok"}
      BY DEF Issued
    <3> QED BY <1>2, <2>1, <3>1, PasswordsStayShown, IssuedStaysIssued
  <2>3. Issued \subseteq S
    <3>1. ASSUME NEW t \in Issued, ShowedPassword(t) \/ ShowedOneOf(S \cap Issued, t)
          PROVE  t \in S \cap Issued
      <4>1. CASE ShowedPassword(t)
        BY <2>2, <4>1
      <4>2. CASE ShowedOneOf(S \cap Issued, t)
        <5>1. ShowedOneOf(S, t)'
          BY <2>2, <4>2 DEF ShowedOneOf
        <5> QED BY <2>2, <5>1
      <4> QED BY <3>1, <4>1, <4>2
    <3> QED BY <3>1 DEF TokensGoBackToPasswords
  <2>4. CASE d \notin Issued
    <3>1. d \in Calls /\ at'[d] = "ok"
      BY DEF Issued
    <3>2. d = c
      BY <2>1, <2>4, <3>1 DEF Issued, Moves, Answers
    <3>3. Store(c)
      BY <1>2, <3>1, <3>2, <2>4, ReceiveStep, LookupStep, InsertStep
         DEF Logout, Fail, Goto, Typed, TypeOK
    <3>4. at[c] = "store" /\ UNCHANGED <<email, req, user>>
      BY <3>3 DEF Store
    <3>5. Backed(c)
      BY <3>4 DEF AllBacked
    <3>6. CASE ShowedPassword(c)
      BY <3>2, <3>4, <3>6 DEF ShowedPassword
    <3>7. CASE ShowedOneOf(Issued, c)
      <4>1. ShowedOneOf(S, c)'
        BY <2>3, <3>4, <3>7 DEF ShowedOneOf
      <4> QED BY <3>2, <4>1
    <3> QED BY <3>5, <3>6, <3>7 DEF Backed
  <2> QED BY <2>3, <2>4
<1> QED BY <1>1, <1>2 DEF Next

(* Every token in a client's hands goes back, by a chain of refreshes each  *)
(* of which showed a token of the same account, to a call that registered   *)
(* the account or logged in with its password.                             *)
THEOREM TokensAreEarned == Spec => []TokensGoBackToPasswords
<1>1. Init => AllBacked /\ TokensGoBackToPasswords
  BY DEF Init, AllBacked, TokensGoBackToPasswords, Issued
<1>2. Accounts /\ AllBacked /\ TokensGoBackToPasswords /\ [Next]_vars
        => AllBacked' /\ TokensGoBackToPasswords'
  BY BackedStep, ChainsStep
<1> QED BY <1>1, <1>2, AccountsInvariant, PTL DEF Spec
=============================================================================
