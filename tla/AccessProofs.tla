----------------------------- MODULE AccessProofs -----------------------------
(***************************************************************************)
(* Who may use the application, for any number of users and of requests:   *)
(* the accounts, profiles and tokens of module Accounts, when clients draw *)
(* ids of their own; and, of module Requests, the checks before a          *)
(* controller, the status of what it throws and what is logged of it.      *)
(* The two share no variable.                                              *)
(***************************************************************************)
EXTENDS Accounts, Requests, SequenceTheorems, WellFoundedInduction, TLAPS

-----------------------------------------------------------------------------
(* Accounts.  Records.                                                     *)

LEMMA RowShape ==
    /\ Absent \notin Users
    /\ Absent \notin Musicians
    /\ \A r \in Users : r.email \in Email /\ r.password \in Password
    /\ \A r \in Musicians : r.username \in Username /\ r.user \in UserId
    /\ \A t \in Tokens : t.id \in UserId /\ t.email \in Email /\ t.password \in Password
BY DEF Absent, Users, Musicians, Tokens

AccountSteps == {"find account", "save account"}
ProfileSteps == {"find profile", "find username", "find owner", "save profile"}

LEMMA CallShape ==
    ASSUME NEW k \in Calls
    PROVE  /\ k.do = "nothing" => k = Idle
           /\ k.do \in AccountSteps =>
                /\ k.id \in UserId /\ k.row \in Users
                /\ k = [do |-> k.do, id |-> k.id, row |-> k.row]
           /\ k.do = "find user" => k.email \in Email /\ k.password \in Password
           /\ k.do = "match password" => k.id \in UserId /\ k.row \in Users /\ k.password \in Password
           /\ k.do \in ProfileSteps =>
                /\ k.id \in MusicianId /\ k.row \in Musicians
                /\ k = [do |-> k.do, id |-> k.id, row |-> k.row]
<1>1. CASE k = Idle
  BY <1>1 DEF Idle, AccountSteps, ProfileSteps
<1>2. CASE k \in [do : AccountSteps, id : UserId, row : Users]
  BY <1>2 DEF AccountSteps, ProfileSteps
<1>3. CASE k \in [do : {"find user"}, email : Email, password : Password]
  BY <1>3 DEF AccountSteps, ProfileSteps
<1>4. CASE k \in [do : {"match password"}, id : UserId, row : Users, password : Password]
  BY <1>4 DEF AccountSteps, ProfileSteps
<1>5. CASE k \in [do : ProfileSteps, id : MusicianId, row : Musicians]
  BY <1>5 DEF AccountSteps, ProfileSteps
<1> QED
  BY <1>1, <1>2, <1>3, <1>4, <1>5 DEF Calls, AccountSteps, ProfileSteps

LEMMA IdleCall == Idle \in Calls /\ Idle.do = "nothing"
BY DEF Calls, Idle

LEMMA AccountCall ==
    ASSUME NEW d \in AccountSteps, NEW u \in UserId, NEW r \in Users,
           NEW k, k = [do |-> d, id |-> u, row |-> r]
    PROVE  k \in Calls /\ k.do = d /\ k.id = u /\ k.row = r
BY DEF Calls, AccountSteps

LEMMA LoginCall ==
    ASSUME NEW e \in Email, NEW p \in Password,
           NEW k, k = [do |-> "find user", email |-> e, password |-> p]
    PROVE  k \in Calls /\ k.do = "find user"
BY DEF Calls

LEMMA MatchCall ==
    ASSUME NEW u \in UserId, NEW r \in Users, NEW p \in Password,
           NEW k, k = [do |-> "match password", id |-> u, row |-> r, password |-> p]
    PROVE  k \in Calls /\ k.do = "match password" /\ k.id = u /\ k.row = r
BY DEF Calls

LEMMA ProfileCall ==
    ASSUME NEW d \in ProfileSteps, NEW m \in MusicianId, NEW r \in Musicians,
           NEW k, k = [do |-> d, id |-> m, row |-> r]
    PROVE  k \in Calls /\ k.do = d /\ k.id = m /\ k.row = r
BY DEF Calls, ProfileSteps

\* The step that a call takes to another one of its use case.
LEMMA Onwards ==
    ASSUME NEW k \in Calls, NEW d
    PROVE  /\ k.do \in AccountSteps /\ d \in AccountSteps =>
                [k EXCEPT !.do = d] = [do |-> d, id |-> k.id, row |-> k.row]
           /\ k.do \in ProfileSteps /\ d \in ProfileSteps =>
                [k EXCEPT !.do = d] = [do |-> d, id |-> k.id, row |-> k.row]
<1>1. CASE k.do \in AccountSteps
  <2> DEFINE a == k.do  u == k.id  r == k.row
  <2>1. k = [do |-> a, id |-> u, row |-> r]
    BY <1>1, CallShape
  <2> HIDE DEF a, u, r
  <2>2. [k EXCEPT !.do = d] = [do |-> d, id |-> u, row |-> r]
    BY <2>1
  <2> QED
    BY <2>2, <1>1 DEF u, r, AccountSteps, ProfileSteps
<1>2. CASE k.do \in ProfileSteps
  <2> DEFINE a == k.do  u == k.id  r == k.row
  <2>1. k = [do |-> a, id |-> u, row |-> r]
    BY <1>2, CallShape
  <2> HIDE DEF a, u, r
  <2>2. [k EXCEPT !.do = d] = [do |-> d, id |-> u, row |-> r]
    BY <2>1
  <2> QED
    BY <2>2, <1>2 DEF u, r, AccountSteps, ProfileSteps
<1> QED
  BY <1>1, <1>2

-----------------------------------------------------------------------------
(* Steps that change no row.                                               *)

CallAsked(k) ==
    /\ k.do \in AccountSteps => k.row = accounts[k.id]
    /\ k.do \in ProfileSteps => k.row = profiles[k.id]
    /\ k.do = "match password" => users[k.id] = k.row

LEMMA AskedCalls ==
    ASSUME AccountsInv
    PROVE  \A c \in Slot : call[c] \in Calls /\ CallAsked(call[c])
BY DEF AccountsInv, AccountsTypeOK, AsAsked, CallAsked, AccountSteps, ProfileSteps

LEMMA CallMoves ==
    ASSUME AccountsTypeOK, NEW c \in Slot, NEW k \in Calls, call' = [call EXCEPT ![c] = k]
    PROVE  /\ call' \in [Slot -> Calls]
           /\ call'[c] = k
           /\ \A d \in Slot : d # c => call'[d] = call[d]
BY DEF AccountsTypeOK

\* A step within a use case keeps the invariant when what it goes on with is
\* what was asked for.
LEMMA ThenKeeps ==
    ASSUME AccountsInv, NEW c \in Slot, NEW k \in Calls, CallAsked(k), Then(c, k)
    PROVE  AccountsInv'
<1>1. /\ call' = [call EXCEPT ![c] = k]
      /\ UNCHANGED <<users, musicians, tokens, accounts, profiles, calls>>
  BY DEF Then
<1>2. AccountsTypeOK
  BY DEF AccountsInv
<1>3. /\ call' \in [Slot -> Calls]
      /\ call'[c] = k
      /\ \A d \in Slot : d # c => call'[d] = call[d]
  BY <1>1, <1>2, CallMoves
<1>4. AccountsTypeOK'
  BY <1>1, <1>2, <1>3 DEF AccountsTypeOK
<1>5. AsAsked'
  <2>1. \A d \in Slot : CallAsked(call[d])
    BY AskedCalls
  <2>2. \A d \in Slot : CallAsked(call[d])'
    BY <2>1, <1>1, <1>3 DEF CallAsked
  <2>3. /\ \A u \in UserId : Present(users, u)' => users'[u] = accounts'[u]
        /\ \A m \in MusicianId : Present(musicians, m)' => musicians'[m] = profiles'[m]
    BY <1>1 DEF AccountsInv, AsAsked, Present
  <2> QED
    BY <2>2, <2>3 DEF AsAsked, CallAsked, AccountSteps, ProfileSteps
<1>6. (NoTwoShare /\ TokensAreTrue /\ ProfilesHaveUsers)'
  BY <1>1 DEF AccountsInv, NoTwoShare, TokensAreTrue, ProfilesHaveUsers, Present
<1> QED
  BY <1>4, <1>5, <1>6 DEF AccountsInv

LEMMA ReturnKeeps ==
    ASSUME AccountsInv, NEW c \in Slot, Return(c)
    PROVE  AccountsInv'
<1>1. CallAsked(Idle)
  BY IdleCall DEF CallAsked, AccountSteps, ProfileSteps
<1> QED
  BY <1>1, IdleCall, ThenKeeps DEF Return

LEMMA GotoKeeps ==
    ASSUME AccountsInv, NEW c \in Slot, NEW step, Goto(c, step),
           \/ call[c].do \in AccountSteps /\ step \in AccountSteps
           \/ call[c].do \in ProfileSteps /\ step \in ProfileSteps
    PROVE  AccountsInv'
<1> DEFINE k == [call[c] EXCEPT !.do = step]
<1>1. call[c] \in Calls /\ CallAsked(call[c])
  BY AskedCalls
<1>2. k = [do |-> step, id |-> call[c].id, row |-> call[c].row]
  BY <1>1, Onwards
<1>3. CASE call[c].do \in AccountSteps /\ step \in AccountSteps
  <2>1. call[c].id \in UserId /\ call[c].row \in Users /\ call[c].row = accounts[call[c].id]
    BY <1>1, <1>3, CallShape DEF CallAsked
  <2>2. k \in Calls /\ k.do = step /\ k.id = call[c].id /\ k.row = call[c].row
    <3> HIDE DEF k
    <3> QED
      BY <1>2, <1>3, <2>1, AccountCall
  <2> HIDE DEF k
  <2>3. CallAsked(k)
    BY <2>1, <2>2, <1>3 DEF CallAsked, AccountSteps, ProfileSteps
  <2>4. Then(c, k)
    BY DEF Goto, k
  <2> QED
    BY <2>2, <2>3, <2>4, ThenKeeps
<1>4. CASE call[c].do \in ProfileSteps /\ step \in ProfileSteps
  <2>1. call[c].id \in MusicianId /\ call[c].row \in Musicians /\ call[c].row = profiles[call[c].id]
    BY <1>1, <1>4, CallShape DEF CallAsked
  <2>2. k \in Calls /\ k.do = step /\ k.id = call[c].id /\ k.row = call[c].row
    <3> HIDE DEF k
    <3> QED
      BY <1>2, <1>4, <2>1, ProfileCall
  <2> HIDE DEF k
  <2>3. CallAsked(k)
    BY <2>1, <2>2, <1>4 DEF CallAsked, AccountSteps, ProfileSteps
  <2>4. Then(c, k)
    BY DEF Goto, k
  <2> QED
    BY <2>2, <2>3, <2>4, ThenKeeps
<1> QED
  BY <1>3, <1>4

-----------------------------------------------------------------------------
(* Requests.                                                               *)

Grows(old, new, S) == \A x \in S : old[x] # Absent => new[x] = old[x]

\* A request whose values are those first asked for under its id keeps the
\* invariant.
LEMMA BeginKeeps ==
    ASSUME AccountsInv, NEW c \in Slot, NEW k \in Calls, Begin(c, k),
           accounts' \in [UserId -> Users \cup {Absent}], Grows(accounts, accounts', UserId),
           profiles' \in [MusicianId -> Musicians \cup {Absent}], Grows(profiles, profiles', MusicianId),
           CallAsked(k)'
    PROVE  AccountsInv'
<1>1. /\ call' = [call EXCEPT ![c] = k]
      /\ calls < MaxCalls /\ calls' = calls + 1
      /\ UNCHANGED <<users, musicians, tokens>>
  BY DEF Begin
<1>2. AccountsTypeOK
  BY DEF AccountsInv
<1>3. /\ call' \in [Slot -> Calls]
      /\ call'[c] = k
      /\ \A d \in Slot : d # c => call'[d] = call[d]
  BY <1>1, <1>2, CallMoves
<1>4. AccountsTypeOK'
  BY <1>1, <1>2, <1>3, CallsAssumption DEF AccountsTypeOK
<1>5. AsAsked'
  <2>1. ASSUME NEW d \in Slot PROVE CallAsked(call[d])'
    <3>1. CASE d = c
      BY <3>1, <1>3 DEF CallAsked
    <3>2. CASE d # c
      <4>1. call[d] \in Calls /\ CallAsked(call[d]) /\ call'[d] = call[d]
        BY <3>2, <1>3, AskedCalls
      <4>2. /\ call[d].do \in AccountSteps => call[d].id \in UserId /\ accounts[call[d].id] # Absent
            /\ call[d].do \in ProfileSteps => call[d].id \in MusicianId /\ profiles[call[d].id] # Absent
        BY <4>1, CallShape, RowShape DEF CallAsked
      <4> QED
        BY <4>1, <4>2, <1>1 DEF CallAsked, Grows
    <3> QED
      BY <3>1, <3>2
  <2>2. /\ \A u \in UserId : Present(users, u)' => users'[u] = accounts'[u]
        /\ \A m \in MusicianId : Present(musicians, m)' => musicians'[m] = profiles'[m]
    BY <1>1 DEF AccountsInv, AsAsked, Present, Grows
  <2> QED
    BY <2>1, <2>2 DEF AsAsked, CallAsked, AccountSteps, ProfileSteps
<1>6. (NoTwoShare /\ TokensAreTrue /\ ProfilesHaveUsers)'
  BY <1>1 DEF AccountsInv, NoTwoShare, TokensAreTrue, ProfilesHaveUsers, Present
<1> QED
  BY <1>4, <1>5, <1>6 DEF AccountsInv

LEMMA PostRegisterKeeps ==
    ASSUME AccountsInv, NEW c \in Slot, NEW u \in UserId, NEW row \in Users,
           Draws(accounts, u, row), PostRegister(c, u, row)
    PROVE  AccountsInv'
<1> DEFINE k == [do |-> "find account", id |-> u, row |-> row]
<1>2. Begin(c, k) /\ accounts' = First(accounts, u, row) /\ UNCHANGED profiles
  BY DEF PostRegister
<1>0. k = [do |-> "find account", id |-> u, row |-> row] /\ "find account" \in AccountSteps
  BY DEF AccountSteps
<1> HIDE DEF k
<1>1. k \in Calls /\ k.do = "find account" /\ k.id = u /\ k.row = row
  BY <1>0 DEF Calls
<1>3. /\ accounts \in [UserId -> Users \cup {Absent}]
      /\ profiles \in [MusicianId -> Musicians \cup {Absent}]
  BY DEF AccountsInv, AccountsTypeOK
<1>4. /\ accounts' \in [UserId -> Users \cup {Absent}]
      /\ accounts'[u] = row
      /\ Grows(accounts, accounts', UserId)
  BY <1>2, <1>3, RowShape DEF Draws, Grows, First
<1>5. CallAsked(k)'
  BY <1>1, <1>4 DEF CallAsked, ProfileSteps
<1> QED
  BY <1>1, <1>2, <1>3, <1>4, <1>5, BeginKeeps DEF Grows

LEMMA PostLoginKeeps ==
    ASSUME AccountsInv, NEW c \in Slot, NEW e \in Email, NEW p \in Password, PostLogin(c, e, p)
    PROVE  AccountsInv'
<1> DEFINE k == [do |-> "find user", email |-> e, password |-> p]
<1>1. k \in Calls /\ k.do = "find user"
  BY LoginCall
<1> HIDE DEF k
<1>2. Begin(c, k) /\ UNCHANGED <<accounts, profiles>>
  BY DEF PostLogin, k
<1>3. CallAsked(k)'
  BY <1>1 DEF CallAsked, AccountSteps, ProfileSteps
<1>4. /\ accounts' \in [UserId -> Users \cup {Absent}] /\ Grows(accounts, accounts', UserId)
      /\ profiles' \in [MusicianId -> Musicians \cup {Absent}] /\ Grows(profiles, profiles', MusicianId)
  BY <1>2 DEF AccountsInv, AccountsTypeOK, Grows
<1> QED
  BY <1>1, <1>2, <1>3, <1>4, BeginKeeps

LEMMA PostProfileKeeps ==
    ASSUME AccountsInv, NEW c \in Slot, NEW t \in tokens, NEW m \in MusicianId, NEW n \in Username,
           Draws(profiles, m, [username |-> n, user |-> t.id]), PostProfile(c, t, m, n)
    PROVE  AccountsInv'
<1>1. PICK u \in UserId :
         /\ t.id = u
         /\ Begin(c, [do |-> "find profile", id |-> m, row |-> [username |-> n, user |-> u]])
         /\ profiles' = First(profiles, m, [username |-> n, user |-> u])
  BY DEF PostProfile, Authenticates
<1> DEFINE row == [username |-> n, user |-> u]
           k == [do |-> "find profile", id |-> m, row |-> row]
<1>2. row \in Musicians /\ profiles[m] \in {Absent, row}
  BY <1>1 DEF Musicians, Draws
<1>3. Begin(c, k) /\ profiles' = First(profiles, m, row) /\ UNCHANGED accounts
  BY <1>1 DEF PostProfile
<1> HIDE DEF row
<1>0. k = [do |-> "find profile", id |-> m, row |-> row] /\ "find profile" \in ProfileSteps
  BY DEF ProfileSteps
<1> HIDE DEF k
<1>4. k \in Calls /\ k.do = "find profile" /\ k.id = m /\ k.row = row
  BY <1>0, <1>2 DEF Calls
<1>5. /\ accounts \in [UserId -> Users \cup {Absent}]
      /\ profiles \in [MusicianId -> Musicians \cup {Absent}]
  BY DEF AccountsInv, AccountsTypeOK
<1>6. /\ profiles' \in [MusicianId -> Musicians \cup {Absent}]
      /\ profiles'[m] = row
      /\ Grows(profiles, profiles', MusicianId)
  BY <1>2, <1>3, <1>5, RowShape DEF Grows, First
<1>7. CallAsked(k)'
  BY <1>4, <1>6 DEF CallAsked, AccountSteps
<1> QED
  BY <1>3, <1>4, <1>5, <1>6, <1>7, BeginKeeps DEF Grows

LEMMA ExpireKeeps ==
    ASSUME AccountsInv, NEW t \in tokens, Expire(t)
    PROVE  AccountsInv'
<1>1. /\ tokens' = tokens \ {t}
      /\ UNCHANGED <<users, musicians, accounts, profiles, call, calls>>
  BY DEF Expire
<1>2. AccountsTypeOK'
  BY <1>1 DEF AccountsInv, AccountsTypeOK
<1>3. (NoTwoShare /\ TokensAreTrue /\ ProfilesHaveUsers)'
  BY <1>1 DEF AccountsInv, NoTwoShare, TokensAreTrue, ProfilesHaveUsers, Present
<1>4. AsAsked'
  BY <1>1 DEF AccountsInv, AsAsked, Present
<1> QED
  BY <1>2, <1>3, <1>4 DEF AccountsInv

-----------------------------------------------------------------------------
(* The steps of the use cases.                                             *)

LEMMA FindAccountKeeps ==
    ASSUME AccountsInv, NEW c \in Slot, FindAccount(c)
    PROVE  AccountsInv'
BY ReturnKeeps, GotoKeeps DEF FindAccount, Does, AccountSteps

\* The row a save of an account is about to write.
LEMMA AccountToSave ==
    ASSUME AccountsInv, NEW c \in Slot, Does(c, "save account")
    PROVE  /\ call[c].id \in UserId /\ call[c].row \in Users
           /\ call[c].row = accounts[call[c].id]
           /\ Present(users, call[c].id) => users[call[c].id] = call[c].row
<1>1. call[c] \in Calls /\ CallAsked(call[c]) /\ call[c].do \in AccountSteps
  BY AskedCalls DEF Does, AccountSteps
<1>2. call[c].id \in UserId /\ call[c].row \in Users /\ call[c].row = accounts[call[c].id]
  BY <1>1, CallShape DEF CallAsked
<1> QED
  BY <1>2 DEF AccountsInv, AsAsked

\* An upsert of an account writes a new row or what was there.
LEMMA SaveAccountStays ==
    ASSUME AccountsInv, NEW c \in Slot, SaveAccount(c)
    PROVE  /\ \A u \in UserId : Present(users, u) => users'[u] = users[u]
           /\ users' \in [UserId -> Users \cup {Absent}]
           /\ \A u \in UserId : users'[u] # users[u] =>
                /\ users'[u] = accounts[u]
                /\ EmailIsFree(u, users'[u].email)
           /\ call' = [call EXCEPT ![c] = Idle]
           /\ UNCHANGED <<musicians, tokens, accounts, profiles, calls>>
<1>1. Does(c, "save account")
  BY DEF SaveAccount
<1>2. /\ call[c].id \in UserId /\ call[c].row \in Users
      /\ call[c].row = accounts[call[c].id]
      /\ Present(users, call[c].id) => users[call[c].id] = call[c].row
  BY <1>1, AccountToSave
<1>3. users \in [UserId -> Users \cup {Absent}]
  BY DEF AccountsInv, AccountsTypeOK
<1>4. \/ users' = users
      \/ /\ users' = [users EXCEPT ![call[c].id] = call[c].row]
         /\ EmailIsFree(call[c].id, call[c].row.email)
  BY DEF SaveAccount
<1>5. call' = [call EXCEPT ![c] = Idle] /\ UNCHANGED <<musicians, tokens, accounts, profiles, calls>>
  BY DEF SaveAccount
<1>6. CASE users' = users
  BY <1>6, <1>3, <1>5
<1>7. CASE /\ users' = [users EXCEPT ![call[c].id] = call[c].row]
           /\ EmailIsFree(call[c].id, call[c].row.email)
  BY <1>7, <1>2, <1>3, <1>5
<1> QED
  BY <1>4, <1>6, <1>7

LEMMA SaveAccountKeeps ==
    ASSUME AccountsInv, NEW c \in Slot, SaveAccount(c)
    PROVE  AccountsInv'
<1>1. /\ \A u \in UserId : Present(users, u) => users'[u] = users[u]
      /\ users' \in [UserId -> Users \cup {Absent}]
      /\ \A u \in UserId : users'[u] # users[u] =>
           users'[u] = accounts[u] /\ EmailIsFree(u, users'[u].email)
      /\ call' = [call EXCEPT ![c] = Idle]
      /\ UNCHANGED <<musicians, tokens, accounts, profiles, calls>>
  BY SaveAccountStays
<1>2. AccountsTypeOK
  BY DEF AccountsInv
<1>3. /\ call' \in [Slot -> Calls]
      /\ call'[c] = Idle
      /\ \A d \in Slot : d # c => call'[d] = call[d]
  BY <1>1, <1>2, IdleCall, CallMoves
<1>4. AccountsTypeOK'
  BY <1>1, <1>2, <1>3 DEF AccountsTypeOK
<1>5. \A u \in UserId : Present(users, u) => Present(users, u)'
  BY <1>1 DEF Present
<1>6. NoTwoShare'
  <2>1. ASSUME NEW u \in UserId, NEW v \in UserId, Present(users, u)', Present(users, v)',
               users'[u].email = users'[v].email
        PROVE  u = v
    <3>1. CASE users'[u] = users[u] /\ users'[v] = users[v]
      BY <2>1, <3>1 DEF AccountsInv, NoTwoShare, Present
    <3>2. CASE users'[u] # users[u] /\ users'[v] = users[v]
      BY <2>1, <3>2, <1>1 DEF EmailIsFree, Present
    <3>3. CASE users'[v] # users[v] /\ users'[u] = users[u]
      BY <2>1, <3>3, <1>1 DEF EmailIsFree, Present
    <3>4. CASE users'[u] # users[u] /\ users'[v] # users[v]
      <4>1. users' = users \/ users' = [users EXCEPT ![call[c].id] = call[c].row]
        BY DEF SaveAccount
      <4> QED
        BY <3>4, <4>1, <1>2 DEF AccountsTypeOK
    <3> QED
      BY <3>1, <3>2, <3>3, <3>4
  <2>2. \A m, n \in MusicianId :
          /\ Present(musicians, m)'
          /\ Present(musicians, n)'
          /\ musicians'[m].username = musicians'[n].username \/ musicians'[m].user = musicians'[n].user
          => m = n
    BY <1>1 DEF AccountsInv, NoTwoShare, Present
  <2> QED
    BY <2>1, <2>2 DEF NoTwoShare
<1>7. TokensAreTrue'
  <2>1. \A t \in tokens : t.id \in UserId
    BY <1>2, RowShape DEF AccountsTypeOK
  <2> QED
    BY <1>1, <1>5, <2>1 DEF AccountsInv, TokensAreTrue
<1>8. ProfilesHaveUsers'
  <2>1. \A m \in MusicianId : Present(musicians, m) => musicians[m].user \in UserId
    BY <1>2, RowShape DEF AccountsTypeOK, Present
  <2> QED
    BY <1>1, <1>5, <2>1 DEF AccountsInv, ProfilesHaveUsers, Present
<1>9. AsAsked'
  <2>1. \A u \in UserId : Present(users, u)' => users'[u] = accounts'[u]
    BY <1>1 DEF AccountsInv, AsAsked, Present
  <2>2. ASSUME NEW d \in Slot PROVE CallAsked(call[d])'
    <3>1. CASE d = c
      BY <3>1, <1>3, IdleCall DEF CallAsked, AccountSteps, ProfileSteps
    <3>2. CASE d # c
      <4>1. call[d] \in Calls /\ CallAsked(call[d]) /\ call'[d] = call[d]
        BY <3>2, <1>3, AskedCalls
      <4>2. call[d].do = "match password" => call[d].id \in UserId /\ call[d].row \in Users
        BY <4>1, CallShape
      <4>3. call[d].do = "match password" => users'[call[d].id] = call[d].row
        BY <4>1, <4>2, <1>1, RowShape DEF CallAsked, Present
      <4> QED
        BY <4>1, <4>3, <1>1 DEF CallAsked
    <3> QED
      BY <3>1, <3>2
  <2>3. \A m \in MusicianId : Present(musicians, m)' => musicians'[m] = profiles'[m]
    BY <1>1 DEF AccountsInv, AsAsked, Present
  <2> QED
    BY <2>1, <2>2, <2>3 DEF AsAsked, CallAsked, AccountSteps, ProfileSteps
<1> QED
  BY <1>4, <1>6, <1>7, <1>8, <1>9 DEF AccountsInv

LEMMA FindUserKeeps ==
    ASSUME AccountsInv, NEW c \in Slot, FindUser(c)
    PROVE  AccountsInv'
<1>1. CASE Return(c)
  BY <1>1, ReturnKeeps
<1>2. CASE ~Return(c)
  <2>1. Does(c, "find user")
    BY DEF FindUser
  <2>2. PICK u \in UserId :
           /\ Present(users, u)
           /\ Then(c, [do |-> "match password", id |-> u, row |-> users[u], password |-> call[c].password])
    BY <1>2 DEF FindUser
  <2>3. call[c] \in Calls /\ call[c].do = "find user" /\ users[u] \in Users
    BY <2>1, <2>2, AskedCalls DEF Does, Present, AccountsInv, AccountsTypeOK
  <2>4. PICK r \in Users, p \in Password : r = users[u] /\ p = call[c].password
    BY <2>3, CallShape
  <2> DEFINE k == [do |-> "match password", id |-> u, row |-> r, password |-> p]
  <2>5. Then(c, k)
    BY <2>2, <2>4
  <2>6. k \in Calls /\ k.do = "match password" /\ k.id = u /\ k.row = r
    BY DEF Calls
  <2> HIDE DEF k
  <2>7. CallAsked(k)
    BY <2>4, <2>6 DEF CallAsked, AccountSteps, ProfileSteps
  <2> QED
    BY <2>5, <2>6, <2>7, ThenKeeps
<1> QED
  BY <1>1, <1>2

\* A call that ends and changes neither users nor history keeps what was
\* asked for.
LEMMA EndingStaysAsked ==
    ASSUME AccountsInv, NEW c \in Slot, call' = [call EXCEPT ![c] = Idle],
           UNCHANGED <<users, accounts, profiles>>
    PROVE  \A d \in Slot : call'[d] \in Calls /\ CallAsked(call[d])'
<1>1. AccountsTypeOK
  BY DEF AccountsInv
<1>2. /\ call'[c] = Idle
      /\ \A d \in Slot : d # c => call'[d] = call[d]
  BY <1>1, IdleCall, CallMoves
<1>3. ASSUME NEW d \in Slot PROVE call'[d] \in Calls /\ CallAsked(call[d])'
  <2>1. CASE d = c
    BY <2>1, <1>2, IdleCall DEF CallAsked, AccountSteps, ProfileSteps
  <2>2. CASE d # c
    <3>1. call[d] \in Calls /\ CallAsked(call[d]) /\ call'[d] = call[d]
      BY <2>2, <1>2, AskedCalls
    <3> QED
      BY <3>1 DEF CallAsked
  <2> QED
    BY <2>1, <2>2
<1> QED
  BY <1>3

LEMMA MatchPasswordKeeps ==
    ASSUME AccountsInv, NEW c \in Slot, MatchPassword(c)
    PROVE  AccountsInv'
<1> DEFINE t == [id |-> call[c].id, email |-> call[c].row.email, password |-> call[c].password]
<1>1. /\ Does(c, "match password")
      /\ tokens' = IF call[c].password = call[c].row.password THEN tokens \cup {t} ELSE tokens
      /\ call' = [call EXCEPT ![c] = Idle]
      /\ UNCHANGED <<users, musicians, accounts, profiles, calls>>
  BY DEF MatchPassword
<1>2. AccountsTypeOK
  BY DEF AccountsInv
<1>3. call[c] \in Calls /\ CallAsked(call[c]) /\ call[c].do = "match password"
  BY <1>1, AskedCalls DEF Does
<1>4. /\ call[c].id \in UserId /\ call[c].row \in Users /\ call[c].password \in Password
      /\ users[call[c].id] = call[c].row
      /\ Present(users, call[c].id)
  BY <1>3, CallShape, RowShape DEF CallAsked, Present
<1>5. t \in Tokens /\ t.id = call[c].id /\ t.email = call[c].row.email /\ t.password = call[c].password
  BY <1>4, RowShape DEF Tokens
<1> HIDE DEF t
<1>6. \A d \in Slot : call'[d] \in Calls /\ CallAsked(call[d])'
  BY <1>1, EndingStaysAsked
<1>7. AccountsTypeOK'
  <2>1. call' \in [Slot -> Calls]
    BY <1>1, <1>2, IdleCall, CallMoves
  <2>2. tokens' \in SUBSET Tokens
    BY <1>1, <1>2, <1>5 DEF AccountsTypeOK
  <2> QED
    BY <1>1, <1>2, <2>1, <2>2 DEF AccountsTypeOK
<1>8. TokensAreTrue'
  <2>1. ASSUME NEW x \in tokens'
        PROVE  users[x.id] # Absent /\ users[x.id].email = x.email /\ users[x.id].password = x.password
    <3>1. CASE x \in tokens
      BY <3>1 DEF AccountsInv, TokensAreTrue, Present
    <3>2. CASE x \notin tokens
      <4>1. x = t /\ call[c].password = call[c].row.password
        BY <2>1, <3>2, <1>1
      <4> QED
        BY <4>1, <1>4, <1>5 DEF Present
    <3> QED
      BY <3>1, <3>2
  <2> QED
    BY <2>1, <1>1 DEF TokensAreTrue, Present
<1>9. (NoTwoShare /\ ProfilesHaveUsers)'
  BY <1>1 DEF AccountsInv, NoTwoShare, ProfilesHaveUsers, Present
<1>10. AsAsked'
  <2>1. /\ \A u \in UserId : Present(users, u)' => users'[u] = accounts'[u]
        /\ \A m \in MusicianId : Present(musicians, m)' => musicians'[m] = profiles'[m]
    BY <1>1 DEF AccountsInv, AsAsked, Present
  <2> QED
    BY <1>6, <2>1 DEF AsAsked, CallAsked, AccountSteps, ProfileSteps
<1> QED
  BY <1>7, <1>8, <1>9, <1>10 DEF AccountsInv

LEMMA FindProfileKeeps ==
    ASSUME AccountsInv, NEW c \in Slot, FindProfile(c) \/ FindUsername(c) \/ FindOwner(c)
    PROVE  AccountsInv'
<1>1. CASE FindProfile(c)
  BY <1>1, ReturnKeeps, GotoKeeps DEF FindProfile, Does, ProfileSteps
<1>2. CASE FindUsername(c)
  BY <1>2, ReturnKeeps, GotoKeeps DEF FindUsername, Does, ProfileSteps
<1>3. CASE FindOwner(c)
  BY <1>3, ReturnKeeps, GotoKeeps DEF FindOwner, Does, ProfileSteps
<1> QED
  BY <1>1, <1>2, <1>3

\* An upsert of a profile writes a new row or what was there.
LEMMA SaveProfileStays ==
    ASSUME AccountsInv, NEW c \in Slot, SaveProfile(c)
    PROVE  /\ \A m \in MusicianId : Present(musicians, m) => musicians'[m] = musicians[m]
           /\ musicians' \in [MusicianId -> Musicians \cup {Absent}]
           /\ \A m \in MusicianId : musicians'[m] # musicians[m] =>
                /\ musicians'[m] = profiles[m]
                /\ ProfileIsFree(m, musicians'[m])
                /\ HasUser(musicians'[m])
           /\ \A m, n \in MusicianId :
                musicians'[m] # musicians[m] /\ musicians'[n] # musicians[n] => m = n
           /\ call' = [call EXCEPT ![c] = Idle]
           /\ UNCHANGED <<users, tokens, accounts, profiles, calls>>
<1>1. call[c] \in Calls /\ CallAsked(call[c]) /\ call[c].do \in ProfileSteps
  BY AskedCalls DEF SaveProfile, Does, ProfileSteps
<1>2. /\ call[c].id \in MusicianId /\ call[c].row \in Musicians
      /\ call[c].row = profiles[call[c].id]
      /\ Present(musicians, call[c].id) => musicians[call[c].id] = call[c].row
  BY <1>1, CallShape DEF CallAsked, AccountsInv, AsAsked
<1>3. musicians \in [MusicianId -> Musicians \cup {Absent}]
  BY DEF AccountsInv, AccountsTypeOK
<1>4. \/ musicians' = musicians
      \/ /\ musicians' = [musicians EXCEPT ![call[c].id] = call[c].row]
         /\ ProfileIsFree(call[c].id, call[c].row)
         /\ HasUser(call[c].row)
  BY DEF SaveProfile
<1>5. call' = [call EXCEPT ![c] = Idle] /\ UNCHANGED <<users, tokens, accounts, profiles, calls>>
  BY DEF SaveProfile
<1>6. CASE musicians' = musicians
  BY <1>6, <1>3, <1>5
<1>7. CASE /\ musicians' = [musicians EXCEPT ![call[c].id] = call[c].row]
           /\ ProfileIsFree(call[c].id, call[c].row)
           /\ HasUser(call[c].row)
  BY <1>7, <1>2, <1>3, <1>5
<1> QED
  BY <1>4, <1>6, <1>7

LEMMA SaveProfileKeeps ==
    ASSUME AccountsInv, NEW c \in Slot, SaveProfile(c)
    PROVE  AccountsInv'
<1>1. /\ \A m \in MusicianId : Present(musicians, m) => musicians'[m] = musicians[m]
      /\ musicians' \in [MusicianId -> Musicians \cup {Absent}]
      /\ \A m \in MusicianId : musicians'[m] # musicians[m] =>
           /\ musicians'[m] = profiles[m]
           /\ ProfileIsFree(m, musicians'[m])
           /\ HasUser(musicians'[m])
      /\ \A m, n \in MusicianId :
           musicians'[m] # musicians[m] /\ musicians'[n] # musicians[n] => m = n
      /\ call' = [call EXCEPT ![c] = Idle]
      /\ UNCHANGED <<users, tokens, accounts, profiles, calls>>
  BY SaveProfileStays
<1>2. AccountsTypeOK
  BY DEF AccountsInv
<1>3. call' \in [Slot -> Calls]
  BY <1>1, <1>2, IdleCall, CallMoves
<1>4. AccountsTypeOK'
  BY <1>1, <1>2, <1>3 DEF AccountsTypeOK
<1>5. NoTwoShare'
  <2>1. ASSUME NEW m \in MusicianId, NEW n \in MusicianId,
               Present(musicians, m)', Present(musicians, n)',
               musicians'[m].username = musicians'[n].username \/ musicians'[m].user = musicians'[n].user
        PROVE  m = n
    <3>1. CASE musicians'[m] = musicians[m] /\ musicians'[n] = musicians[n]
      BY <2>1, <3>1 DEF AccountsInv, NoTwoShare, Present
    <3>2. CASE musicians'[m] # musicians[m] /\ musicians'[n] = musicians[n]
      BY <2>1, <3>2, <1>1 DEF ProfileIsFree, Present
    <3>3. CASE musicians'[n] # musicians[n] /\ musicians'[m] = musicians[m]
      BY <2>1, <3>3, <1>1 DEF ProfileIsFree, Present
    <3>4. CASE musicians'[m] # musicians[m] /\ musicians'[n] # musicians[n]
      BY <3>4, <1>1
    <3> QED
      BY <3>1, <3>2, <3>3, <3>4
  <2>2. \A u, v \in UserId :
          Present(users, u)' /\ Present(users, v)' /\ users'[u].email = users'[v].email => u = v
    BY <1>1 DEF AccountsInv, NoTwoShare, Present
  <2> QED
    BY <2>1, <2>2 DEF NoTwoShare
<1>6. TokensAreTrue'
  BY <1>1 DEF AccountsInv, TokensAreTrue, Present
<1>7. ProfilesHaveUsers'
  BY <1>1 DEF AccountsInv, ProfilesHaveUsers, Present, HasUser
<1>8. AsAsked'
  <2>1. \A d \in Slot : CallAsked(call[d])'
    BY <1>1, EndingStaysAsked
  <2>2. /\ \A u \in UserId : Present(users, u)' => users'[u] = accounts'[u]
        /\ \A m \in MusicianId : Present(musicians, m)' => musicians'[m] = profiles'[m]
    BY <1>1 DEF AccountsInv, AsAsked, Present
  <2> QED
    BY <2>1, <2>2 DEF AsAsked, CallAsked, AccountSteps, ProfileSteps
<1> QED
  BY <1>4, <1>5, <1>6, <1>7, <1>8 DEF AccountsInv

-----------------------------------------------------------------------------
(* Theorems.                                                               *)

LEMMA InitKeeps ==
    ASSUME AccountsInit
    PROVE  AccountsInv
<1>1. AccountsTypeOK
  BY CallsAssumption, IdleCall DEF AccountsInit, AccountsTypeOK
<1>2. NoTwoShare /\ TokensAreTrue /\ ProfilesHaveUsers
  BY DEF AccountsInit, NoTwoShare, TokensAreTrue, ProfilesHaveUsers, Present
<1>3. AsAsked
  BY IdleCall DEF AccountsInit, AsAsked, Present
<1> QED
  BY <1>1, <1>2, <1>3 DEF AccountsInv

\* What one step may be, with what it acts on.
LEMMA FreshSteps ==
    ASSUME FreshNext
    PROVE  \/ \E c \in Slot : Steps(c)
           \/ \E c \in Slot, e \in Email, p \in Password : PostLogin(c, e, p)
           \/ \E c \in Slot, u \in UserId, row \in Users :
                 Draws(accounts, u, row) /\ PostRegister(c, u, row)
           \/ \E c \in Slot, t \in tokens, m \in MusicianId, n \in Username :
                 Draws(profiles, m, [username |-> n, user |-> t.id]) /\ PostProfile(c, t, m, n)
           \/ \E t \in tokens : Expire(t)
BY DEF FreshNext, Logins

LEMMA StepsKeep ==
    ASSUME AccountsInv, NEW c \in Slot, Steps(c)
    PROVE  AccountsInv'
<1>1. CASE FindAccount(c)
  BY <1>1, FindAccountKeeps
<1>2. CASE SaveAccount(c)
  BY <1>2, SaveAccountKeeps
<1>3. CASE FindUser(c)
  BY <1>3, FindUserKeeps
<1>4. CASE MatchPassword(c)
  BY <1>4, MatchPasswordKeeps
<1>5. CASE FindProfile(c) \/ FindUsername(c) \/ FindOwner(c)
  BY <1>5, FindProfileKeeps
<1>6. CASE SaveProfile(c)
  BY <1>6, SaveProfileKeeps
<1>7. CASE CallFails(c)
  BY <1>7, ReturnKeeps DEF CallFails
<1> QED
  BY <1>1, <1>2, <1>3, <1>4, <1>5, <1>6, <1>7 DEF Steps

LEMMA NextKeeps ==
    ASSUME AccountsInv, [FreshNext]_accountsVars
    PROVE  AccountsInv'
<1>1. CASE FreshNext
  BY <1>1, FreshSteps, StepsKeep, PostLoginKeeps, PostRegisterKeeps, PostProfileKeeps, ExpireKeeps
<1>2. CASE UNCHANGED accountsVars
  BY <1>2 DEF accountsVars, AccountsInv, AccountsTypeOK, NoTwoShare, TokensAreTrue, ProfilesHaveUsers, AsAsked, Present
<1> QED
  BY <1>1, <1>2

\* Whoever races whom, e-mails, user names and users are taken once, tokens
\* name users that exist with the e-mail and the password they were given
\* for, and profiles have users.
THEOREM AccountsAreSound == FreshSpec => []AccountsInv
<1>1. AccountsInit => AccountsInv
  BY InitKeeps
<1>2. AccountsInv /\ [FreshNext]_accountsVars => AccountsInv'
  BY NextKeeps
<1> QED
  BY <1>1, <1>2, PTL DEF FreshSpec

LEMMA RowsStay ==
    ASSUME AccountsInv, [FreshNext]_accountsVars
    PROVE  /\ \A u \in UserId : Present(users, u) => users'[u] = users[u]
           /\ \A m \in MusicianId : Present(musicians, m) => musicians'[m] = musicians[m]
<1>1. CASE \E c \in Slot : SaveAccount(c)
  BY <1>1, SaveAccountStays
<1>2. CASE \E c \in Slot : SaveProfile(c)
  BY <1>2, SaveProfileStays
<1>3. CASE UNCHANGED <<users, musicians>>
  BY <1>3
<1>4. CASE FreshNext
  <2>1. CASE \E c \in Slot : Steps(c)
    <3>1. PICK c \in Slot : Steps(c)
      BY <2>1
    <3>2. SaveAccount(c) \/ SaveProfile(c) \/ UNCHANGED <<users, musicians>>
      BY <3>1 DEF Steps, FindAccount, FindUser, MatchPassword, FindProfile, FindUsername, FindOwner,
                  CallFails, Return, Goto, Then
    <3> QED
      BY <3>2, <1>1, <1>2, <1>3
  <2>2. CASE ~ \E c \in Slot : Steps(c)
    BY <1>4, <2>2, <1>3, FreshSteps DEF PostLogin, PostRegister, PostProfile, Begin, Expire
  <2> QED
    BY <2>1, <2>2
<1>5. CASE UNCHANGED accountsVars
  BY <1>5, <1>3 DEF accountsVars
<1> QED
  BY <1>4, <1>5

\* No later or repeated request changes an account or a profile.
THEOREM EntriesDoStay == FreshSpec => EntriesStay
<1>1. AccountsInv /\ [FreshNext]_accountsVars =>
        [/\ \A u \in UserId : Present(users, u) => users'[u] = users[u]
         /\ \A m \in MusicianId : Present(musicians, m) => musicians'[m] = musicians[m]]_accountsVars
  BY RowsStay
<1> QED
  BY <1>1, AccountsAreSound, PTL DEF FreshSpec, EntriesStay

-----------------------------------------------------------------------------
(* Requests.  The statuses of exceptions.                                  *)

\* An exception has one status, whichever controller declares it.
StatusTable ==
    [InvalidArgument |-> 400, NotFoundHttp |-> 404, Unauthorized |-> 401, Forbidden |-> 403,
     BandExist |-> 409, BandNotExist |-> 404, SongExist |-> 409, SongInstrumentNotExist |-> 404,
     UploadNotExist |-> 404, UploadNotCancellable |-> 409, InstrumentsNotExist |-> 404,
     MusicianNotExist |-> 404, MusicianExist |-> 409, UsernameExists |-> 409,
     UserHasProfile |-> 409, SongNotExist |-> 404, IncompleteSongInstruments |-> 400,
     AlreadyRequested |-> 409, ProcessNotFound |-> 404, NotCancellable |-> 409,
     SongInstrumentExist |-> 409, VideoNotExist |-> 404, UserAlreadyExists |-> 409,
     InvalidCredentials |-> 401]

\* The table, or the part of it with the exceptions of one controller.
IsPartOfTable(f) ==
    /\ f = [e \in DOMAIN f |-> f[e]]
    /\ \A e \in DOMAIN f : e \in DOMAIN StatusTable /\ f[e] = StatusTable[e]

\* A request that has passed the checks before a stage passes them still:
\* users and profiles stay.
Passed(k) ==
    k.at \in {"profile", "controller"} =>
        /\ k.op \notin Public =>
              /\ k.cred.is = "token"
              /\ k.cred.user \in userIds
              /\ k.op \in ForAdmins => k.cred.admin
        /\ k.at = "profile" => k.op \in NeedsProfile
        /\ k.at = "controller" /\ k.op \in NeedsProfile => k.cred.user \in withProfile

\* What the listener has written, if anything.
LogIsALine ==
    log = Silence \/ \E e \in Exceptions, value \in Payload \cup {NoDetails}, status \in Nat :
        log = LineOf(e, status, value)

\* The inductive invariant: the table holds no status but the one of the
\* exception, so no order of the controllers matters.
AccessInv ==
    /\ RequestsInv
    /\ IsPartOfTable(mapping)
    /\ \A s \in Connection : Passed(inFlight[s])
    /\ LogIsALine

\* A failure as DeclaredStatus has it.
Declared(k) ==
    /\ k.exception \in DOMAIN Declares[k.op] => k.status = Declares[k.op][k.exception]
    /\ k.status # 500 =>
          \/ k.exception \in DOMAIN Defaults /\ k.status = Defaults[k.exception]
          \/ \E op \in built : k.exception \in DOMAIN Declares[op]
    /\ k.message => k.exception # "Error"

\* The table of some controllers, and no other.
Registered(table, controllers) ==
    /\ IsPartOfTable(table)
    /\ DOMAIN table = DOMAIN Defaults \cup UNION {DOMAIN Declares[op] : op \in controllers}

LEMMA TableHasStatuses ==
    /\ \A e \in DOMAIN StatusTable : StatusTable[e] \in Nat \ {500}
    /\ "Error" \notin DOMAIN StatusTable
    /\ IsPartOfTable(Defaults)
BY DEF StatusTable, IsPartOfTable, Defaults

LEMMA OverIsPart ==
    ASSUME NEW f, NEW g, IsPartOfTable(f), IsPartOfTable(g)
    PROVE  /\ IsPartOfTable(Over(f, g))
           /\ DOMAIN Over(f, g) = DOMAIN f \cup DOMAIN g
BY DEF IsPartOfTable, Over

\* What each group of routes declares.
Consistent(R) == \A op \in DOMAIN R : IsPartOfTable(R[op])

LEMMA NoneIsConsistent == IsPartOfTable(None)
BY DEF None, IsPartOfTable

LEMMA BandsAreConsistent == Consistent(BandRoutes)
<1>1. /\ IsPartOfTable(BandPostCreate) /\ IsPartOfTable(BandPutUpdate)
      /\ IsPartOfTable(BandDeleteRemove) /\ IsPartOfTable(BandGetSearch)
      /\ IsPartOfTable(BandSongPostCreate) /\ IsPartOfTable(BandMemberPostCreate)
      /\ IsPartOfTable(BandMemberGetByBand) /\ IsPartOfTable(BandMemberDeleteRemove)
  BY DEF IsPartOfTable, StatusTable, BandPostCreate, BandPutUpdate, BandDeleteRemove, BandGetSearch,
         BandSongPostCreate, BandMemberPostCreate, BandMemberGetByBand, BandMemberDeleteRemove
<1> QED
  BY <1>1, NoneIsConsistent DEF Consistent, BandRoutes

LEMMA UploadsAreConsistent == Consistent(UploadRoutes)
<1>1. /\ IsPartOfTable(PostUpload) /\ IsPartOfTable(PostUploadConfirm)
      /\ IsPartOfTable(PostUploadCancel)
  BY DEF IsPartOfTable, StatusTable, PostUpload, PostUploadConfirm, PostUploadCancel
<1> QED
  BY <1>1 DEF Consistent, UploadRoutes

LEMMA InstrumentsAreConsistent == Consistent(InstrumentsRoutes)
<1>1. IsPartOfTable(InstrumentsGetSearch) /\ IsPartOfTable(InstrumentsPutUpdate)
  BY DEF IsPartOfTable, StatusTable, InstrumentsGetSearch, InstrumentsPutUpdate
<1> QED
  BY <1>1, NoneIsConsistent DEF Consistent, InstrumentsRoutes

LEMMA MusiciansAreConsistent == Consistent(MusicianRoutes)
<1>1. IsPartOfTable(MusicianGetById) /\ IsPartOfTable(ProfilePost)
  BY DEF IsPartOfTable, StatusTable, MusicianGetById, ProfilePost
<1> QED
  BY <1>1, NoneIsConsistent DEF Consistent, MusicianRoutes

LEMMA SongsAreConsistent == Consistent(SongRoutes)
<1>1. IsPartOfTable(SongVideoclipPostRequest) /\ IsPartOfTable(SongVideoclipDeleteCancel)
  BY DEF IsPartOfTable, StatusTable, SongVideoclipPostRequest, SongVideoclipDeleteCancel
<1> QED
  BY <1>1, NoneIsConsistent DEF Consistent, SongRoutes

LEMMA SongInstrumentsAreConsistent == Consistent(SongInstrumentRoutes)
<1>1. /\ IsPartOfTable(SongInstrumentPostCreate) /\ IsPartOfTable(SongInstrumentGetById)
      /\ IsPartOfTable(SongInstrumentPatchEdit) /\ IsPartOfTable(SongInstrumentPatchAssign)
      /\ IsPartOfTable(SongInstrumentPostInvite) /\ IsPartOfTable(SongInstrumentPatchVideo)
  BY DEF IsPartOfTable, StatusTable, SongInstrumentPostCreate, SongInstrumentGetById,
         SongInstrumentPatchEdit, SongInstrumentPatchAssign, SongInstrumentPostInvite,
         SongInstrumentPatchVideo
<1> QED
  BY <1>1, NoneIsConsistent DEF Consistent, SongInstrumentRoutes

LEMMA UsersAreConsistent == Consistent(UserRoutes)
<1>1. IsPartOfTable(UserPostRegister) /\ IsPartOfTable(UserPostLogin)
  BY DEF IsPartOfTable, StatusTable, UserPostRegister, UserPostLogin
<1> QED
  BY <1>1 DEF Consistent, UserRoutes

LEMMA OverIsConsistent ==
    ASSUME NEW f, NEW g, Consistent(f), Consistent(g)
    PROVE  /\ Consistent(Over(f, g))
           /\ DOMAIN Over(f, g) = DOMAIN f \cup DOMAIN g
BY DEF Consistent, Over

\* No controller declares an exception with another status than the others
\* and the defaults do, and none declares 500.
LEMMA DeclaredOnce == Consistent(Declares)
<1> DEFINE songs == Over(UploadRoutes, Over(SongInstrumentRoutes, SongRoutes))
           others == Over(BandRoutes, Over(MusicianRoutes, UserRoutes))
<1>1. Consistent(songs)
  <2>1. Consistent(Over(SongInstrumentRoutes, SongRoutes))
    BY SongInstrumentsAreConsistent, SongsAreConsistent, OverIsConsistent
  <2> QED
    BY <2>1, UploadsAreConsistent, OverIsConsistent
<1>2. Consistent(others)
  <2>1. Consistent(Over(MusicianRoutes, UserRoutes))
    BY MusiciansAreConsistent, UsersAreConsistent, OverIsConsistent
  <2> QED
    BY <2>1, BandsAreConsistent, OverIsConsistent
<1> HIDE DEF songs, others
<1>3. Consistent(Over(songs, others))
  BY <1>1, <1>2, OverIsConsistent
<1>4. Consistent(Over(InstrumentsRoutes, Over(songs, others)))
  BY <1>3, InstrumentsAreConsistent, OverIsConsistent
<1> QED
  BY <1>4 DEF Declares, songs, others

LEMMA OverPicks ==
    ASSUME NEW f, NEW g, NEW x
    PROVE  /\ x \in DOMAIN f => x \in DOMAIN Over(f, g) /\ Over(f, g)[x] = f[x]
           /\ x \notin DOMAIN f /\ x \in DOMAIN g => x \in DOMAIN Over(f, g) /\ Over(f, g)[x] = g[x]
           /\ x \in DOMAIN Over(f, g) => x \in DOMAIN f \cup DOMAIN g
BY DEF Over

\* What controllers throw without declaring it is declared by others.
LEMMA UndeclaredAreExceptions == \A op : Undeclared(op) \subseteq Exceptions
<1> DEFINE songs == Over(UploadRoutes, Over(SongInstrumentRoutes, SongRoutes))
           bands == Over(BandRoutes, Over(MusicianRoutes, UserRoutes))
<1>1. Declares = Over(InstrumentsRoutes, Over(songs, bands))
  BY DEF Declares
<1>2. "instrumentsPutUpdate" \in DOMAIN Declares /\ Declares["instrumentsPutUpdate"] = InstrumentsPutUpdate
  <2> HIDE DEF songs, bands
  <2> QED
    BY <1>1, OverPicks DEF InstrumentsRoutes
<1>3. "bandPutUpdate" \in DOMAIN Declares /\ Declares["bandPutUpdate"] = BandPutUpdate
  <2>1. "bandPutUpdate" \in DOMAIN bands /\ bands["bandPutUpdate"] = BandPutUpdate
    BY OverPicks DEF BandRoutes
  <2>2. "bandPutUpdate" \notin DOMAIN songs
    BY OverPicks DEF UploadRoutes, SongInstrumentRoutes, SongRoutes
  <2> HIDE DEF songs, bands
  <2>3. "bandPutUpdate" \in DOMAIN Over(songs, bands) /\ Over(songs, bands)["bandPutUpdate"] = BandPutUpdate
    BY <2>1, <2>2, OverPicks
  <2>4. "bandPutUpdate" \notin DOMAIN InstrumentsRoutes
    BY DEF InstrumentsRoutes
  <2> QED
    BY <1>1, <2>3, <2>4, OverPicks
<1>4. {"InstrumentsNotExist", "BandNotExist"} \subseteq Exceptions
  BY <1>2, <1>3 DEF Exceptions, InstrumentsPutUpdate, BandPutUpdate
<1> QED
  BY <1>4 DEF Undeclared

LEMMA InvalidIsAnException == "InvalidArgument" \in Exceptions
<1> DEFINE songs == Over(UploadRoutes, Over(SongInstrumentRoutes, SongRoutes))
           bands == Over(BandRoutes, Over(MusicianRoutes, UserRoutes))
           op == "songInstrumentPatchEdit"
<1>1. op \notin DOMAIN InstrumentsRoutes /\ op \notin DOMAIN UploadRoutes
  BY DEF InstrumentsRoutes, UploadRoutes
<1>2. op \in DOMAIN songs /\ songs[op] = SongInstrumentPatchEdit
  BY <1>1, OverPicks DEF SongInstrumentRoutes
<1> HIDE DEF songs, bands
<1>3. op \in DOMAIN Over(songs, bands) /\ Over(songs, bands)[op] = SongInstrumentPatchEdit
  BY <1>2, OverPicks
<1>4. op \in DOMAIN Declares /\ Declares[op] = SongInstrumentPatchEdit
  BY <1>1, <1>3, OverPicks DEF Declares, songs, bands
<1> QED
  BY <1>4 DEF Exceptions, SongInstrumentPatchEdit

LEMMA ErrorIsAnException == {"Forbidden", "Error"} \subseteq Exceptions
BY DEF Exceptions

LEMMA ThrownAreExceptions ==
    ASSUME NEW op \in Operation
    PROVE  /\ op \in DOMAIN Declares
           /\ DOMAIN Declares[op] \subseteq Exceptions
           /\ Throws(op) \subseteq Exceptions
           /\ "Error" \notin DOMAIN Declares[op]
<1>1. op \in DOMAIN Declares
  BY OperationAssumption
<1>2. DOMAIN Declares[op] \subseteq Exceptions
  BY <1>1 DEF Exceptions
<1>3. "Error" \notin DOMAIN Declares[op]
  BY <1>1, DeclaredOnce, TableHasStatuses DEF Consistent, IsPartOfTable
<1>4. Forbids(op) \subseteq {"Forbidden"}
  BY DEF Forbids
<1> QED
  BY <1>1, <1>2, <1>3, <1>4, ErrorIsAnException, UndeclaredAreExceptions, InvalidIsAnException DEF Throws

-----------------------------------------------------------------------------
(* Requests in flight.                                                     *)

LEMMA PublicNeedsNone == NeedsProfile \cap Public = {} /\ "profilePost" \notin Public
BY DEF NeedsProfile, Public, BandRoutes, UploadRoutes

LEMMA CredentialShape ==
    ASSUME NEW cred \in Credentials
    PROVE  cred.is = "token" => cred.user \in User /\ cred.admin \in BOOLEAN
BY DEF Credentials

LEMMA StageShape ==
    ASSUME NEW k \in Stages
    PROVE  /\ k.at \in {"security", "profile", "controller"} => k.op \in Operation /\ k.cred \in Credentials
           /\ k.at \in {"idle", "security", "profile", "controller", "refused", "failed", "answered"}
<1>1. CASE k = NoRequest
  BY <1>1 DEF NoRequest
<1>2. CASE k \in [at : {"security"}, op : Operation, cred : Credentials]
  BY <1>2
<1>3. CASE k \in [at : {"profile", "controller"}, op : Operation, cred : Credentials]
  BY <1>3
<1>4. CASE k \in [at : {"refused"}, op : Operation, cred : Credentials, status : {401, 403}]
  BY <1>4
<1>5. CASE k \in [at : {"failed"}, op : Operation, exception : Exceptions, status : Nat, message : BOOLEAN]
  BY <1>5
<1>6. CASE k \in [at : {"answered"}, op : Operation]
  BY <1>6
<1> QED
  BY <1>1, <1>2, <1>3, <1>4, <1>5, <1>6 DEF Stages

\* The records that the steps put a request into.
LEMMA StagesExist ==
    ASSUME NEW op \in Operation, NEW cred \in Credentials
    PROVE  /\ NoRequest \in Stages /\ NoRequest.at = "idle"
           /\ \A a \in {"security", "profile", "controller"} :
                 [at |-> a, op |-> op, cred |-> cred] \in Stages
           /\ \A t \in {401, 403} :
                 [at |-> "refused", op |-> op, cred |-> cred, status |-> t] \in Stages
           /\ [at |-> "answered", op |-> op] \in Stages
BY DEF Stages, NoRequest

LEMMA FailedStage ==
    ASSUME NEW op \in Operation, NEW e \in Exceptions, NEW t \in Nat
    PROVE  [at |-> "failed", op |-> op, exception |-> e, status |-> t, message |-> TellsMessage(t)] \in Stages
BY DEF Stages, TellsMessage

LEMMA RequestMoves ==
    ASSUME TypeOK, NEW s \in Connection, NEW k \in Stages, Goes(s, k)
    PROVE  /\ inFlight' \in [Connection -> Stages]
           /\ inFlight'[s] = k
           /\ \A t \in Connection : t # s => inFlight'[t] = inFlight[t]
BY DEF TypeOK, Goes

LEMMA TableIsTyped ==
    ASSUME NEW f, NEW S \in SUBSET Operation, Registered(f, S)
    PROVE  DOMAIN f \subseteq Exceptions \cup DOMAIN Defaults
BY OperationAssumption DEF Registered, Exceptions

\* A request that moves on, with users, profiles and controllers that only
\* grow, keeps the invariant if its new stage has what the invariant asks.
LEMMA MovesKeep ==
    ASSUME AccessInv, NEW s \in Connection, NEW k \in Stages, Goes(s, k),
           userIds \subseteq userIds', userIds' \subseteq User,
           withProfile \subseteq withProfile', withProfile' \subseteq userIds',
           built \subseteq built', built' \subseteq Operation,
           Registered(mapping', built'),
           requests' \in 0..MaxRequests,
           LogIsALine',
           Passed(k)',
           k.at = "controller" => k.op \in built',
           k.at = "failed" => Declared(k)'
    PROVE  AccessInv'
<1>1. TypeOK
  BY DEF AccessInv, RequestsInv
<1>2. /\ inFlight' \in [Connection -> Stages]
      /\ inFlight'[s] = k
      /\ \A t \in Connection : t # s => inFlight'[t] = inFlight[t]
  BY <1>1, RequestMoves
<1>3. TypeOK'
  <2>1. DOMAIN mapping' \subseteq Exceptions \cup DOMAIN Defaults
    BY TableIsTyped
  <2> QED
    BY <1>2, <2>1 DEF TypeOK
<1>4. ASSUME NEW t \in Connection PROVE Passed(inFlight[t])'
  <2>1. CASE t = s
    BY <1>2, <2>1 DEF Passed
  <2>2. CASE t # s
    <3>1. Passed(inFlight[t])
      BY DEF AccessInv
    <3> QED
      BY <1>2, <2>2, <3>1 DEF Passed
  <2> QED
    BY <2>1, <2>2
<1>5. ASSUME NEW t \in Connection, inFlight'[t].at = "controller" PROVE inFlight'[t].op \in built'
  <2>1. CASE t = s
    BY <1>2, <1>5, <2>1
  <2>2. CASE t # s
    BY <1>2, <1>5, <2>2 DEF AccessInv, RequestsInv, At
  <2> QED
    BY <2>1, <2>2
<1>6. ASSUME NEW t \in Connection, inFlight'[t].at = "failed" PROVE Declared(inFlight[t])'
  <2>1. CASE t = s
    BY <1>2, <1>6, <2>1 DEF Declared
  <2>2. CASE t # s
    <3>1. Declared(inFlight[t])
      BY <1>2, <1>6, <2>2 DEF AccessInv, RequestsInv, DeclaredStatus, Declared, At
    <3> QED
      BY <1>2, <2>2, <3>1 DEF Declared
  <2> QED
    BY <2>1, <2>2
<1>7. DeclaredStatus'
  BY <1>6 DEF DeclaredStatus, Declared, At
<1>8. RequestsInv'
  BY <1>3, <1>5, <1>7 DEF RequestsInv, Registered, At
<1> QED
  BY <1>4, <1>8 DEF AccessInv, Registered

\* What is there before a step.
LEMMA BeforeAStep ==
    ASSUME AccessInv, NEW s \in Connection
    PROVE  /\ TypeOK
           /\ Registered(mapping, built)
           /\ inFlight[s] \in Stages
           /\ Passed(inFlight[s])
           /\ inFlight[s].at = "controller" => inFlight[s].op \in built
           /\ inFlight[s].at \in {"security", "profile", "controller"} =>
                 inFlight[s].op \in Operation /\ inFlight[s].cred \in Credentials
<1>1. TypeOK
  BY DEF AccessInv, RequestsInv
<1>2. inFlight[s] \in Stages
  BY <1>1 DEF TypeOK
<1> QED
  BY <1>1, <1>2, StageShape DEF AccessInv, RequestsInv, Registered, At

\* A controller that is built adds its exceptions and changes no status.
LEMMA BuildingRegisters ==
    ASSUME NEW table, NEW S \in SUBSET Operation, Registered(table, S), NEW op \in Operation,
           NEW next, next = IF op \in S THEN table ELSE Over(Declares[op], table)
    PROVE  /\ Registered(next, S \cup {op})
           /\ \A e \in DOMAIN table : e \in DOMAIN next /\ next[e] = table[e]
<1>1. IsPartOfTable(Declares[op])
  BY ThrownAreExceptions, DeclaredOnce DEF Consistent
<1>2. CASE op \in S
  BY <1>2 DEF Registered
<1>3. CASE op \notin S
  <2>1. /\ IsPartOfTable(next)
        /\ DOMAIN next = DOMAIN Declares[op] \cup DOMAIN table
    BY <1>1, <1>3, OverIsPart DEF Registered
  <2>2. UNION {DOMAIN Declares[o] : o \in S \cup {op}} =
          DOMAIN Declares[op] \cup UNION {DOMAIN Declares[o] : o \in S}
    OBVIOUS
  <2>3. \A e \in DOMAIN table : e \in DOMAIN next /\ next[e] = table[e]
    BY <2>1 DEF IsPartOfTable, Registered
  <2> QED
    BY <2>1, <2>2, <2>3 DEF Registered
<1> QED
  BY <1>2, <1>3

-----------------------------------------------------------------------------
(* The steps of a request.                                                 *)

\* What a step leaves alone.
Rest == <<userIds, withProfile, requests>>

LEMMA QuietIsALine == ASSUME Quietly PROVE LogIsALine'
BY DEF Quietly, LogIsALine

\* A step to a stage that is none after the checks.
LEMMA QuietMoveKeeps ==
    ASSUME AccessInv, NEW s \in Connection, NEW k \in Stages, Goes(s, k), Quietly,
           k.at \notin {"profile", "controller", "failed"},
           UNCHANGED <<userIds, withProfile, mapping, built>>, requests' \in 0..MaxRequests
    PROVE  AccessInv'
<1>1. LogIsALine'
  BY QuietIsALine
<1>2. TypeOK /\ Registered(mapping, built)
  BY BeforeAStep
<1>3. Registered(mapping', built')
  BY <1>2
<1>4. Passed(k)'
  BY DEF Passed
<1> QED
  BY <1>1, <1>2, <1>3, <1>4, MovesKeep DEF TypeOK

LEMMA ReceiveKeeps ==
    ASSUME AccessInv, NEW s \in Connection, NEW op \in Operation, NEW cred \in Credentials,
           Receive(s, op, cred)
    PROVE  AccessInv'
<1> DEFINE k == [at |-> "security", op |-> op, cred |-> cred]
<1>1. k \in Stages /\ k.at = "security"
  BY StagesExist
<1>2. Goes(s, k) /\ Quietly /\ UNCHANGED <<userIds, withProfile, mapping, built>>
  BY DEF Receive, Quietly
<1>3. requests' \in 0..MaxRequests
  <2>1. requests \in 0..MaxRequests /\ requests < MaxRequests /\ requests' = requests + 1
    BY BeforeAStep DEF Receive, TypeOK
  <2> QED
    BY <2>1, BoundAssumption
<1> HIDE DEF k
<1> QED
  BY <1>1, <1>2, <1>3, QuietMoveKeeps

LEMMA FinishKeeps ==
    ASSUME AccessInv, NEW s \in Connection, Finish(s)
    PROVE  AccessInv'
<1>1. NoRequest \in Stages /\ NoRequest.at = "idle"
  BY DEF Stages, NoRequest
<1>2. Goes(s, NoRequest) /\ Quietly /\ UNCHANGED <<userIds, withProfile, mapping, built>>
  BY DEF Finish
<1>3. requests' \in 0..MaxRequests
  BY BeforeAStep DEF Finish, TypeOK
<1> QED
  BY <1>1, <1>2, <1>3, QuietMoveKeeps

\* What is thrown: something that is in the table, or that no controller of
\* the operation declares.
LEMMA FailKeeps ==
    ASSUME AccessInv, NEW s \in Connection, inFlight[s].at \in {"security", "profile", "controller"},
           NEW e \in Exceptions, NEW value \in Payload \cup {NoDetails}, Fail(s, e, value),
           e \in DOMAIN mapping \/ e \notin DOMAIN Declares[inFlight[s].op],
           UNCHANGED <<userIds, withProfile, mapping, built, requests>>
    PROVE  AccessInv'
<1>1. /\ TypeOK /\ Registered(mapping, built) /\ inFlight[s].op \in Operation
      /\ IsPartOfTable(Declares[inFlight[s].op])
  BY BeforeAStep, ThrownAreExceptions, DeclaredOnce DEF Consistent
<1>2. PICK op \in Operation : op = inFlight[s].op
  BY <1>1
<1>3. StatusOf(e) \in Nat
  BY <1>1, TableHasStatuses DEF StatusOf, Registered, IsPartOfTable
<1>4. PICK t \in Nat : t = StatusOf(e)
  BY <1>3
<1> DEFINE k == [at |-> "failed", op |-> op, exception |-> e, status |-> t, message |-> TellsMessage(t)]
<1>5. /\ Goes(s, k) /\ log' = LineOf(e, t, value)
  BY <1>2, <1>4 DEF Fail
<1>6. /\ k \in Stages /\ k.at = "failed" /\ k.op = op /\ k.exception = e /\ k.status = t
      /\ k.message = TellsMessage(t)
  BY FailedStage
<1> HIDE DEF k
<1>7. LogIsALine'
  BY <1>5 DEF LogIsALine
<1>8. Declared(k)
  <2>1. CASE e \in DOMAIN mapping
    <3>1. /\ t = StatusTable[e] /\ e \in DOMAIN StatusTable /\ e # "Error"
          /\ e \in DOMAIN Defaults \/ \E o \in built : e \in DOMAIN Declares[o]
      BY <1>1, <1>4, <2>1, TableHasStatuses DEF StatusOf, Registered, IsPartOfTable
    <3>2. e \in DOMAIN Declares[op] => t = Declares[op][e]
      BY <1>1, <1>2, <3>1 DEF IsPartOfTable
    <3>3. e \in DOMAIN Defaults => t = Defaults[e]
      BY <3>1, TableHasStatuses DEF IsPartOfTable
    <3> QED
      BY <1>6, <3>1, <3>2, <3>3 DEF Declared
  <2>2. CASE e \notin DOMAIN mapping
    <3>1. t = 500 /\ ~TellsMessage(t)
      BY <1>4, <2>2 DEF StatusOf, TellsMessage
    <3> QED
      BY <1>2, <1>6, <2>2, <3>1 DEF Declared
  <2> QED
    BY <2>1, <2>2
<1>9. Declared(k)'
  BY <1>8 DEF Declared
<1>10. Passed(k)' /\ Registered(mapping', built')
  BY <1>1, <1>6 DEF Passed
<1> QED
  BY <1>1, <1>5, <1>6, <1>7, <1>9, <1>10, MovesKeep DEF TypeOK

\* A request that is let through to its middleware or its controller.
LEMMA StartKeeps ==
    ASSUME AccessInv, NEW s \in Connection, inFlight[s].at \in {"security", "profile"}, Start(s), Quietly,
           UNCHANGED Rest,
           NEW k, k = [at |-> "controller", op |-> inFlight[s].op, cred |-> inFlight[s].cred],
           Passed(k)
    PROVE  AccessInv'
<1>1. /\ TypeOK /\ Registered(mapping, built) /\ inFlight[s].op \in Operation
      /\ inFlight[s].cred \in Credentials /\ built \subseteq Operation
  BY BeforeAStep DEF TypeOK
<1>2. k \in Stages /\ k.at = "controller" /\ k.op = inFlight[s].op
  BY <1>1, StagesExist
<1>3. /\ Goes(s, k) /\ built' = built \cup {k.op}
      /\ mapping' = IF k.op \in built THEN mapping ELSE Over(Declares[k.op], mapping)
  BY <1>2 DEF Start
<1>4. Registered(mapping', built')
  BY <1>1, <1>2, <1>3, BuildingRegisters
<1>5. LogIsALine'
  BY QuietIsALine
<1>6. Passed(k)'
  BY DEF Passed, Rest
<1> QED
  BY <1>1, <1>2, <1>3, <1>4, <1>5, <1>6, MovesKeep DEF TypeOK, Rest

\* What a credential is worth that verifies.
LEMMA VerifiedCredential ==
    ASSUME NEW op, NEW cred \in Credentials, "verified" \in Verifies(op, cred)
    PROVE  /\ cred.is = "token"
           /\ cred.user \in userIds
           /\ op \in ForAdmins => cred.admin
BY DEF Verifies, Credentials

LEMMA RouteKeeps ==
    ASSUME AccessInv, NEW s \in Connection, inFlight[s].at = "security", Route(s), UNCHANGED Rest,
           inFlight[s].op \in Public \/ "verified" \in Verifies(inFlight[s].op, inFlight[s].cred)
    PROVE  AccessInv'
<1>1. /\ TypeOK /\ Registered(mapping, built) /\ inFlight[s].op \in Operation
      /\ inFlight[s].cred \in Credentials
  BY BeforeAStep
<1>2. Quietly
  BY DEF Route
<1>3. CASE inFlight[s].op \in NeedsProfile
  <2>1. PICK op \in Operation, cred \in Credentials : op = inFlight[s].op /\ cred = inFlight[s].cred
    BY <1>1
  <2> DEFINE k == [at |-> "profile", op |-> op, cred |-> cred]
  <2>2. k \in Stages /\ k.at = "profile" /\ k.op = inFlight[s].op /\ k.cred = inFlight[s].cred
    BY <2>1, StagesExist
  <2>3. Goes(s, k) /\ UNCHANGED <<mapping, built>>
    BY <1>3, <2>1 DEF Route
  <2> HIDE DEF k
  <2>4. Passed(k)
    BY <1>1, <1>3, <2>2, VerifiedCredential DEF Passed
  <2>5. Passed(k)'
    BY <2>4 DEF Passed, Rest
  <2>6. LogIsALine'
    BY <1>2, QuietIsALine
  <2>7. Registered(mapping', built')
    BY <1>1, <2>3
  <2> QED
    BY <1>1, <2>2, <2>3, <2>5, <2>6, <2>7, MovesKeep DEF TypeOK, Rest
<1>4. CASE inFlight[s].op \notin NeedsProfile
  <2>1. Start(s)
    BY <1>4 DEF Route
  <2> DEFINE k == [at |-> "controller", op |-> inFlight[s].op, cred |-> inFlight[s].cred]
  <2>2. k.at = "controller" /\ k.op = inFlight[s].op /\ k.cred = inFlight[s].cred
    OBVIOUS
  <2>3. k = [at |-> "controller", op |-> inFlight[s].op, cred |-> inFlight[s].cred]
    OBVIOUS
  <2> HIDE DEF k
  <2>4. Passed(k)
    BY <1>1, <1>4, <2>2, VerifiedCredential DEF Passed
  <2> QED
    BY <1>2, <2>1, <2>3, <2>4, StartKeeps
<1> QED
  BY <1>3, <1>4

LEMMA RefuseKeeps ==
    ASSUME AccessInv, NEW s \in Connection, inFlight[s].at = "security", NEW t \in {401, 403},
           Refuse(s, t), UNCHANGED Rest
    PROVE  AccessInv'
<1>1. /\ TypeOK /\ inFlight[s].op \in Operation /\ inFlight[s].cred \in Credentials
  BY BeforeAStep
<1>2. PICK op \in Operation, cred \in Credentials : op = inFlight[s].op /\ cred = inFlight[s].cred
  BY <1>1
<1> DEFINE k == [at |-> "refused", op |-> op, cred |-> cred, status |-> t]
<1>3. k \in Stages /\ k.at = "refused"
  BY StagesExist
<1>4. Goes(s, k) /\ Quietly /\ UNCHANGED <<mapping, built>>
  BY <1>2 DEF Refuse
<1> HIDE DEF k
<1> QED
  BY <1>1, <1>3, <1>4, QuietMoveKeeps DEF TypeOK, Rest

LEMMA InvalidKeeps ==
    ASSUME AccessInv, NEW s \in Connection, inFlight[s].at = "security", Invalid(s), UNCHANGED Rest
    PROVE  AccessInv'
<1>1. PICK value \in Payload : Fail(s, "InvalidArgument", value)
  BY DEF Invalid
<1>2. "InvalidArgument" \in DOMAIN mapping
  BY BeforeAStep DEF Registered, Defaults
<1> QED
  BY <1>1, <1>2, InvalidIsAnException, FailKeeps DEF Invalid, Rest

LEMMA SecureKeeps ==
    ASSUME AccessInv, NEW s \in Connection, Secure(s)
    PROVE  AccessInv'
<1>1. inFlight[s].at = "security" /\ UNCHANGED Rest
  BY DEF Secure, At, Rest
<1>2. PICK outcome \in Verifies(inFlight[s].op, inFlight[s].cred) :
          IF inFlight[s].op \in Public \/ outcome = "verified"
            THEN Route(s) \/ Invalid(s)
            ELSE Refuse(s, Refusal(outcome))
  BY DEF Secure
<1>3. Refusal(outcome) \in {401, 403}
  BY DEF Refusal
<1>4. CASE inFlight[s].op \in Public \/ outcome = "verified"
  BY <1>1, <1>2, <1>4, RouteKeeps, InvalidKeeps
<1>5. CASE ~ (inFlight[s].op \in Public \/ outcome = "verified")
  BY <1>1, <1>2, <1>3, <1>5, RefuseKeeps
<1> QED
  BY <1>4, <1>5

LEMMA RequireProfileKeeps ==
    ASSUME AccessInv, NEW s \in Connection, RequireProfile(s)
    PROVE  AccessInv'
<1>1. inFlight[s].at = "profile" /\ UNCHANGED Rest
  BY DEF RequireProfile, At, Rest
<1>2. /\ TypeOK /\ Registered(mapping, built) /\ inFlight[s].op \in Operation
      /\ Passed(inFlight[s]) /\ "Error" \notin DOMAIN Declares[inFlight[s].op]
  BY <1>1, BeforeAStep, ThrownAreExceptions
<1>3. CASE inFlight[s].cred.user \in withProfile /\ Start(s) /\ Quietly
  <2> DEFINE k == [at |-> "controller", op |-> inFlight[s].op, cred |-> inFlight[s].cred]
  <2>1. k.at = "controller" /\ k.op = inFlight[s].op /\ k.cred = inFlight[s].cred
    OBVIOUS
  <2>2. k = [at |-> "controller", op |-> inFlight[s].op, cred |-> inFlight[s].cred]
    OBVIOUS
  <2> HIDE DEF k
  <2>3. Passed(k)
    BY <1>1, <1>2, <1>3, <2>1 DEF Passed
  <2> QED
    BY <1>1, <1>3, <2>2, <2>3, StartKeeps
<1>4. CASE Fail(s, "Forbidden", NoDetails) /\ UNCHANGED <<mapping, built>>
  <2>1. "Forbidden" \in DOMAIN mapping
    BY <1>2 DEF Registered, Defaults
  <2> QED
    BY <1>1, <1>4, <2>1, ErrorIsAnException, FailKeeps DEF Rest
<1>5. CASE (\E value \in Payload : Fail(s, "Error", value)) /\ UNCHANGED <<mapping, built>>
  BY <1>1, <1>2, <1>5, ErrorIsAnException, FailKeeps DEF Rest
<1> QED
  BY <1>3, <1>4, <1>5 DEF RequireProfile

LEMMA SucceedKeeps ==
    ASSUME AccessInv, NEW s \in Connection, Succeed(s)
    PROVE  AccessInv'
<1>1. /\ inFlight[s].at = "controller" /\ Quietly /\ UNCHANGED <<mapping, built, requests>>
      /\ Goes(s, [at |-> "answered", op |-> inFlight[s].op])
  BY DEF Succeed, At
<1>2. /\ TypeOK /\ Registered(mapping, built) /\ inFlight[s].op \in Operation
      /\ inFlight[s].cred \in Credentials /\ Passed(inFlight[s])
  BY <1>1, BeforeAStep
<1>3. PICK op \in Operation, cred \in Credentials : op = inFlight[s].op /\ cred = inFlight[s].cred
  BY <1>2
<1> DEFINE k == [at |-> "answered", op |-> op]
<1>4. k \in Stages /\ k.at = "answered" /\ Goes(s, k)
  BY <1>1, <1>3, StagesExist
<1> HIDE DEF k
<1>5. userIds \subseteq userIds' /\ userIds' \subseteq User
  BY <1>2 DEF Succeed, TypeOK
<1>6. withProfile \subseteq withProfile' /\ withProfile' \subseteq userIds'
  <2>1. inFlight[s].op = "profilePost" => inFlight[s].cred.user \in userIds
    BY <1>1, <1>2, PublicNeedsNone DEF Passed
  <2> QED
    BY <1>2, <1>5, <2>1 DEF Succeed, TypeOK
<1>7. LogIsALine' /\ Passed(k)' /\ Registered(mapping', built')
  BY <1>1, <1>2, <1>4, QuietIsALine DEF Passed
<1> QED
  BY <1>1, <1>2, <1>4, <1>5, <1>6, <1>7, MovesKeep DEF TypeOK

LEMMA ThrowKeeps ==
    ASSUME AccessInv, NEW s \in Connection, Throw(s)
    PROVE  AccessInv'
<1>1. inFlight[s].at = "controller" /\ UNCHANGED <<userIds, withProfile, mapping, built, requests>>
  BY DEF Throw, At
<1>2. /\ TypeOK /\ Registered(mapping, built) /\ inFlight[s].op \in Operation
      /\ inFlight[s].op \in built
  BY <1>1, BeforeAStep
<1>3. PICK e \in Throws(inFlight[s].op), value \in Payload \cup {NoDetails} : Fail(s, e, value)
  BY DEF Throw
<1>4. e \in Exceptions
  BY <1>2, ThrownAreExceptions
<1>5. e \in DOMAIN Declares[inFlight[s].op] => e \in DOMAIN mapping
  BY <1>2 DEF Registered
<1> QED
  BY <1>1, <1>3, <1>4, <1>5, FailKeeps

-----------------------------------------------------------------------------
(* Theorems about requests.                                                *)

LEMMA RequestsBegin == Init => AccessInv
<1> SUFFICES ASSUME Init PROVE AccessInv
  OBVIOUS
<1>1. \A s \in Connection : inFlight[s] = NoRequest /\ NoRequest.at = "idle"
  BY DEF Init, NoRequest
<1>2. TypeOK
  BY BoundAssumption DEF Init, TypeOK, Stages, Defaults
<1>3. Registered(mapping, built)
  BY TableHasStatuses DEF Init, Registered
<1>4. \A s \in Connection : Passed(inFlight[s])
  BY <1>1 DEF Passed
<1>5. LogIsALine
  BY DEF Init, LogIsALine
<1>6. RequestsInv
  BY <1>1, <1>2, <1>3 DEF RequestsInv, DeclaredStatus, At, Registered
<1> QED
  BY <1>3, <1>4, <1>5, <1>6 DEF AccessInv, Registered

LEMMA RequestsKeep ==
    ASSUME AccessInv, [Next]_vars
    PROVE  AccessInv'
<1>1. ASSUME NEW s \in Connection, Handles(s) PROVE AccessInv'
  BY <1>1, SecureKeeps, RequireProfileKeeps, SucceedKeeps, ThrowKeeps, FinishKeeps DEF Handles
<1>2. CASE UNCHANGED vars
  BY <1>2 DEF vars, AccessInv, RequestsInv, TypeOK, DeclaredStatus, At, Passed, LogIsALine, IsPartOfTable
<1> QED
  BY <1>1, <1>2, ReceiveKeeps DEF Next

\* Whatever clients send and however requests interleave, what the other
\* theorems about requests rest on holds.
THEOREM AccessInvariant == Spec => []AccessInv
<1> QED
  BY RequestsBegin, RequestsKeep, PTL DEF Spec

\* However requests and the first uses of controllers interleave, an
\* exception that its controller declares is answered with the declared
\* status, and the table is that of the controllers built.
THEOREM StatusesAreDeclared == Spec => []RequestsInv
<1>1. AccessInv => RequestsInv
  BY DEF AccessInv
<1> QED
  BY <1>1, AccessInvariant, PTL

\* A controller that needs one runs for a user that exists, with the role and
\* the profile of its route, whatever came between the checks.
THEOREM OnlyTheEntitledRun == Spec => []EntitledRuns
<1>1. AccessInv => EntitledRuns
  BY DEF AccessInv, EntitledRuns, Passed, At
<1> QED
  BY <1>1, AccessInvariant, PTL

\* No step changes the status of an exception: a controller that is built
\* later declares what it shares with others as they do.
LEMMA StepKeepsStatuses ==
    ASSUME AccessInv, AccessInv', [Next]_vars
    PROVE  \A e \in DOMAIN mapping : e \in DOMAIN mapping' /\ mapping'[e] = mapping[e]
<1>1. built \subseteq built'
  BY DEF Next, Handles, Receive, Secure, Route, Refuse, Invalid, Start, RequireProfile, Succeed,
         Throw, Finish, vars
<1>2. \A e \in DOMAIN mapping : e \in DOMAIN mapping'
  BY <1>1 DEF AccessInv, RequestsInv
<1> QED
  BY <1>2 DEF AccessInv, IsPartOfTable

\* An exception keeps its status while the process runs, in whichever order
\* the controllers are first used.
THEOREM StatusesDoStay == Spec => StatusesStay
<1>1. AccessInv /\ AccessInv' /\ [Next]_vars =>
        [\A e \in DOMAIN mapping : e \in DOMAIN mapping' /\ mapping'[e] = mapping[e]]_vars
  BY StepKeepsStatuses
<1> QED
  BY <1>1, AccessInvariant, PTL DEF Spec, StatusesStay

-----------------------------------------------------------------------------
(* Logged values.  Induction over the numbers is stated of sets: the       *)
(* theorems of the library that take an operator are for other provers.    *)

\* A set that holds 0, and n + 1 whenever it holds n, holds every number.
LEMMA SetInduction ==
    ASSUME NEW T, T \subseteq Nat, 0 \in T, \A n \in Nat : n \in T => n + 1 \in T
    PROVE  T = Nat
<1> DEFINE Out == Nat \ T
<1> SUFFICES ASSUME Out # {} PROVE FALSE
  OBVIOUS
<1>1. PICK n \in Out : \A m \in Out : ~ (<<m, n>> \in OpToRel(<, Nat))
  <2>1. Out \subseteq Nat
    OBVIOUS
  <2> HIDE DEF Out
  <2> QED
    BY <2>1, NatLessThanWellFounded, WFMin
<1>2. n \in Nat /\ n # 0 /\ n - 1 \in Nat
  OBVIOUS
<1>3. n - 1 \in Out
  OBVIOUS
<1>4. <<n - 1, n>> \in OpToRel(<, Nat)
  BY <1>2 DEF OpToRel
<1> QED
  BY <1>1, <1>3, <1>4

\* What the walk of a value writes at each depth.
IsWalk(value, f) == f = [depth \in 0..(MaxDepth + 1) |-> Visits(value, f[depth + 1], depth)]

\* A value too deep is cut, whatever is below it.
LEMMA DeepestVisit ==
    ASSUME NEW value, NEW x, NEW y, NEW depth, TooDeep(depth)
    PROVE  Visits(value, x, depth) = Visits(value, y, depth)
BY DEF Visits, Visit

\* From the deepest upwards, such a walk exists.
LEMMA WalkExists ==
    ASSUME NEW value
    PROVE  \E f : IsWalk(value, f)
<1> DEFINE N == MaxDepth + 1
           From(f, m) == f = [depth \in (N - m)..N |-> Visits(value, f[depth + 1], depth)]
           T == {m \in Nat : m <= N => \E f : From(f, m)}
<1>1. N \in Nat /\ TooDeep(N)
  BY DepthAssumption DEF TooDeep
<1> HIDE DEF N
<1>2. 0 \in T
  <2> DEFINE f == [depth \in N..N |-> Visits(value, value, depth)]
  <2>1. \A depth \in N..N : Visits(value, f[depth + 1], depth) = Visits(value, value, depth)
    <3>1. \A depth \in N..N : depth = N
      BY <1>1
    <3> QED
      BY <1>1, <3>1, DeepestVisit
  <2>2. f = [depth \in N..N |-> Visits(value, f[depth + 1], depth)]
    BY <2>1
  <2>3. N - 0 = N
    BY <1>1
  <2> HIDE DEF f
  <2> QED
    BY <2>2, <2>3
<1>3. ASSUME NEW m \in Nat, m \in T PROVE m + 1 \in T
  <2> SUFFICES ASSUME m + 1 <= N PROVE \E f : From(f, m + 1)
    OBVIOUS
  <2>1. m <= N
    BY <1>1
  <2>2. PICK f : From(f, m)
    BY <1>3, <2>1
  <2> DEFINE d == N - (m + 1)
             g == [depth \in d..N |-> IF depth = d THEN Visits(value, f[d + 1], d) ELSE f[depth]]
  <2>3. /\ d \in Nat /\ d + 1 = N - m /\ d + 1 \in (N - m)..N
        /\ \A depth \in d..N : depth = d \/ depth \in (N - m)..N
        /\ \A depth \in (N - m)..N : depth \in d..N /\ depth # d
        /\ \A depth \in (N - m)..N : depth = N \/ depth + 1 \in (N - m)..N
    BY <1>1
  <2> HIDE DEF d
  <2>4. \A depth \in (N - m)..N : g[depth] = f[depth] /\ f[depth] = Visits(value, f[depth + 1], depth)
    BY <2>2, <2>3
  <2>5. g[d] = Visits(value, g[d + 1], d)
    <3>1. d \in d..N /\ g[d] = Visits(value, f[d + 1], d)
      BY <1>1, <2>3
    <3> QED
      BY <2>3, <2>4, <3>1
  <2>6. ASSUME NEW depth \in (N - m)..N PROVE g[depth] = Visits(value, g[depth + 1], depth)
    <3>1. CASE depth = N
      BY <1>1, <2>4, <3>1, DeepestVisit
    <3>2. CASE depth # N
      <4>1. depth + 1 \in (N - m)..N
        BY <2>3, <3>2
      <4> QED
        BY <2>4, <4>1
    <3> QED
      BY <3>1, <3>2
  <2>7. DOMAIN g = d..N /\ g = [depth \in d..N |-> g[depth]]
    OBVIOUS
  <2> HIDE DEF g
  <2>8. g = [depth \in d..N |-> Visits(value, g[depth + 1], depth)]
    BY <2>3, <2>5, <2>6, <2>7
  <2> QED
    BY <2>8 DEF d
<1>4. T = Nat
  <2>1. T \subseteq Nat
    OBVIOUS
  <2> HIDE DEF T
  <2> QED
    BY <1>2, <1>3, <2>1, SetInduction
<1>5. \E f : From(f, N)
  BY <1>1, <1>4
<1>6. N - N = 0
  BY <1>1
<1> QED
  BY <1>5, <1>6 DEF IsWalk, N

\* The lines of a value are those of some walk.
LEMMA SanitizedWalks ==
    ASSUME NEW value
    PROVE  \E f : /\ Sanitized(value) = f[0][value.root][{}]
                  /\ \A depth \in 0..(MaxDepth + 1) : f[depth] = Visits(value, f[depth + 1], depth)
<1> DEFINE f == CHOOSE g : IsWalk(value, g)
<1>1. IsWalk(value, f)
  BY WalkExists
<1>2. Sanitized(value) = f[0][value.root][{}]
  BY DEF Sanitized, IsWalk
<1> HIDE DEF f
<1> QED
  BY <1>1, <1>2 DEF IsWalk

-----------------------------------------------------------------------------
(* What a walk writes.                                                     *)

Unsafe == Secrets \cup Aliased \cup Bare
Masks == {"***", "[REDACTED]"}

\* A line that may be written of a value that has "left" levels below it.
IsSafe(value, left, l) ==
    \E p \in Seq(Fields(value)) : \E marks :
        /\ l = [path |-> p, says |-> marks]
        /\ Len(p) <= left
        /\ marks \cap Unsafe = {}
        /\ (\E i \in DOMAIN p : Strategy(p[i]) # "none") => marks \subseteq Masks

AllSafe(value, left, lines) == \A l \in lines : IsSafe(value, left, l)

LEMMA LeafIsSafe ==
    ASSUME NEW value, NEW left \in Nat, NEW marks, marks \cap Unsafe = {}
    PROVE  AllSafe(value, left, Leaf(marks))
<1> DEFINE p == <<>>
<1>1. p \in Seq(Fields(value)) /\ Len(p) = 0 /\ \A i \in DOMAIN p : FALSE
  OBVIOUS
<1>2. Leaf(marks) = {[path |-> p, says |-> marks]}
  BY DEF Leaf
<1> HIDE DEF p
<1>3. Len(p) <= left /\ ((\E i \in DOMAIN p : Strategy(p[i]) # "none") => marks \subseteq Masks)
  BY <1>1
<1>4. IsSafe(value, left, [path |-> p, says |-> marks])
  BY <1>1, <1>3 DEF IsSafe
<1> QED
  BY <1>2, <1>4 DEF AllSafe

LEMMA MasksAreSafe == Masks \cap Unsafe = {} /\ Mask \in Masks
BY DEF Masks, Unsafe, Secrets, Aliased, Bare, Mask

LEMMA CleanIsSafe ==
    ASSUME NEW parts
    PROVE  CleanText(parts) \cap Unsafe = {}
BY MasksAreSafe DEF CleanText, Unsafe

LEMMA MaskedIsMask ==
    ASSUME NEW strategy, NEW v
    PROVE  Masked(strategy, v) \subseteq Masks /\ Masked(strategy, v) \cap Unsafe = {}
BY MasksAreSafe DEF Masked, Masks

\* What is safe one level deeper, or masked, is safe under its field.
LEMMA UnderIsSafe ==
    ASSUME NEW value, NEW left \in Nat, left # 0, NEW k \in Fields(value), NEW lines,
           AllSafe(value, left - 1, lines),
           Strategy(k) # "none" => \A l \in lines : l.says \subseteq Masks
    PROVE  AllSafe(value, left, Under(k, lines))
<1> SUFFICES ASSUME NEW l \in lines PROVE IsSafe(value, left, [l EXCEPT !.path = <<k>> \o @])
  BY DEF AllSafe, Under
<1>0. PICK p \in Seq(Fields(value)) : \E marks :
        /\ l = [path |-> p, says |-> marks]
        /\ Len(p) <= left - 1
        /\ marks \cap Unsafe = {}
        /\ (\E i \in DOMAIN p : Strategy(p[i]) # "none") => marks \subseteq Masks
  BY DEF AllSafe, IsSafe
<1>1. PICK marks :
        /\ l = [path |-> p, says |-> marks]
        /\ Len(p) <= left - 1
        /\ marks \cap Unsafe = {}
        /\ (\E i \in DOMAIN p : Strategy(p[i]) # "none") => marks \subseteq Masks
  BY <1>0
<1> DEFINE q == <<k>> \o p
<1>2. /\ q \in Seq(Fields(value)) /\ Len(q) = Len(p) + 1
      /\ DOMAIN q = 1..(Len(p) + 1) /\ DOMAIN p = 1..Len(p) /\ Len(p) \in Nat
      /\ q[1] = k /\ \A i \in 2..(Len(p) + 1) : q[i] = p[i - 1]
  OBVIOUS
<1>3. q = <<k>> \o l.path
  BY <1>1
<1> HIDE DEF q
<1>4. [l EXCEPT !.path = <<k>> \o @] = [path |-> q, says |-> marks]
  <2>1. [l EXCEPT !.path = <<k>> \o @] = [l EXCEPT !.path = q]
    BY <1>3
  <2>2. [l EXCEPT !.path = q] = [path |-> q, says |-> marks]
    BY <1>1
  <2> QED
    BY <2>1, <2>2
<1>5. Len(q) <= left
  BY <1>1, <1>2
<1>6. ASSUME NEW i \in DOMAIN q, Strategy(q[i]) # "none" PROVE marks \subseteq Masks
  <2>1. CASE i = 1
    BY <1>1, <1>2, <1>6, <2>1
  <2>2. CASE i # 1
    <3>1. i \in 2..(Len(p) + 1) /\ i - 1 \in DOMAIN p
      BY <1>2, <2>2
    <3> QED
      BY <1>1, <1>2, <1>6, <3>1
  <2> QED
    BY <2>1, <2>2
<1> QED
  BY <1>1, <1>2, <1>4, <1>5, <1>6 DEF IsSafe

\* What a graph holds.
LEMMA GraphShape ==
    ASSUME NEW value, IsGraph(value), NEW n \in Node
    PROVE  /\ value.node[n].is \in {"text", "number", "error", "object", "array"}
           /\ value.node[n].is \in {"object", "array"} =>
                 \A k \in DOMAIN value.node[n].holds :
                     value.node[n].holds[k] \in Node /\ k \in Fields(value)
           /\ value.node[n].is = "array" => \A k \in DOMAIN value.node[n].holds : Strategy(k) = "none"
           /\ value.node[n].is = "error" => value.node[n].name \notin Unsafe
<1>1. value.node[n].is \in {"object", "array"} =>
          DOMAIN value.node[n].holds \subseteq Fields(value)
  BY DEF Fields
<1> QED
  BY <1>1 DEF IsGraph, Unsafe

LEMMA DirectIsSafe ==
    ASSUME NEW value, IsGraph(value), NEW n \in Node, NEW left \in Nat,
           value.node[n].is \in {"error", "number", "text"}
    PROVE  AllSafe(value, left, Direct(value.node[n]))
<1>1. CASE value.node[n].is = "error"
  <2>1. {value.node[n].name} \cap Unsafe = {}
    BY <1>1, GraphShape
  <2> QED
    BY <1>1, <2>1, LeafIsSafe DEF Direct
<1>2. CASE value.node[n].is = "number"
  <2>1. {"number"} \cap Unsafe = {}
    BY DEF Unsafe, Secrets, Aliased, Bare
  <2> QED
    BY <1>2, <2>1, LeafIsSafe DEF Direct
<1>3. CASE value.node[n].is = "text"
  BY <1>3, CleanIsSafe, LeafIsSafe DEF Direct
<1> QED
  BY <1>1, <1>2, <1>3

\* A walk whose deeper part writes nothing unsafe writes nothing unsafe.
LEMMA VisitIsSafe ==
    ASSUME NEW value, IsGraph(value), NEW below, NEW depth \in 0..MaxDepth, NEW left \in Nat,
           left = MaxDepth + 1 - depth,
           \A m \in Node : \A seen \in SUBSET Node : AllSafe(value, left - 1, below[m][seen]),
           NEW n \in Node, NEW seen \in SUBSET Node
    PROVE  AllSafe(value, left, Visit(value, below, depth, n, seen))
<1> DEFINE v == value.node[n]
<1>1. left # 0 /\ ~TooDeep(depth)
  BY DepthAssumption DEF TooDeep
<1>2. CASE v.is \in {"error", "number", "text"}
  BY <1>1, <1>2, DirectIsSafe DEF Visit
<1>3. CASE v.is \in {"object", "array"} /\ n \in seen
  <2>1. {"[Circular]"} \cap Unsafe = {}
    BY DEF Unsafe, Secrets, Aliased, Bare
  <2> QED
    BY <1>1, <1>3, <2>1, LeafIsSafe DEF Visit
<1>4. CASE v.is \in {"object", "array"} /\ n \notin seen
  <2>1. Visit(value, below, depth, n, seen) =
          UNION {Under(k, Nested(value, below, n, seen, k)) : k \in DOMAIN v.holds}
    BY <1>1, <1>4 DEF Visit
  <2>2. ASSUME NEW k \in DOMAIN v.holds
        PROVE  AllSafe(value, left, Under(k, Nested(value, below, n, seen, k)))
    <3>1. v.holds[k] \in Node /\ k \in Fields(value) /\ (v.is = "array" => Strategy(k) = "none")
      BY <1>4, GraphShape
    <3>2. CASE v.is = "object" /\ Strategy(k) # "none"
      <4> DEFINE marks == Masked(Strategy(k), value.node[v.holds[k]])
      <4>1. Nested(value, below, n, seen, k) = Leaf(marks)
        BY <3>2 DEF Nested
      <4>2. marks \subseteq Masks /\ marks \cap Unsafe = {}
        BY MaskedIsMask
      <4> HIDE DEF marks
      <4>3. left - 1 \in Nat
        BY <1>1
      <4>4. AllSafe(value, left - 1, Leaf(marks))
        BY <4>2, <4>3, LeafIsSafe
      <4>5. \A l \in Leaf(marks) : l.says \subseteq Masks
        BY <4>2 DEF Leaf
      <4> QED
        BY <1>1, <3>1, <4>1, <4>4, <4>5, UnderIsSafe
    <3>3. CASE ~ (v.is = "object" /\ Strategy(k) # "none")
      <4>1. Nested(value, below, n, seen, k) = below[v.holds[k]][Below(value, n, seen)]
        BY <3>3 DEF Nested
      <4>2. Below(value, n, seen) \in SUBSET Node
        BY DEF Below
      <4>3. Strategy(k) = "none"
        BY <1>4, <3>1, <3>3
      <4> QED
        BY <1>1, <3>1, <4>1, <4>2, <4>3, UnderIsSafe
    <3> QED
      BY <3>2, <3>3
  <2> QED
    BY <2>1, <2>2 DEF AllSafe
<1> QED
  BY <1>2, <1>3, <1>4, GraphShape

\* So nothing unsafe is written of a graph, at any depth.
LEMMA SanitizedIsSafe ==
    ASSUME NEW value, IsGraph(value)
    PROVE  AllSafe(value, MaxDepth + 1, Sanitized(value))
<1>1. PICK f : /\ Sanitized(value) = f[0][value.root][{}]
               /\ \A depth \in 0..(MaxDepth + 1) : f[depth] = Visits(value, f[depth + 1], depth)
  BY SanitizedWalks
<1> DEFINE Safe(depth, left) ==
              \A n \in Node : \A seen \in SUBSET Node : AllSafe(value, left, f[depth][n][seen])
           T == {left \in Nat : left <= MaxDepth + 1 => Safe(MaxDepth + 1 - left, left)}
<1>2. 0 \in T
  <2>1. MaxDepth + 1 \in 0..(MaxDepth + 1) /\ TooDeep(MaxDepth + 1) /\ MaxDepth + 1 - 0 = MaxDepth + 1
    BY DepthAssumption DEF TooDeep
  <2>2. {"[Truncated]"} \cap Unsafe = {}
    BY DEF Unsafe, Secrets, Aliased, Bare
  <2>3. AllSafe(value, 0, Leaf({"[Truncated]"}))
    BY <2>2, LeafIsSafe
  <2>4. ASSUME NEW n \in Node, NEW seen \in SUBSET Node
        PROVE  f[MaxDepth + 1][n][seen] = Leaf({"[Truncated]"})
    <3> DEFINE below == f[MaxDepth + 1 + 1]
               depth == MaxDepth + 1
    <3>1. f[depth] = Visits(value, below, depth) /\ TooDeep(depth)
      BY <1>1, <2>1
    <3> HIDE DEF below, depth
    <3>2. f[depth][n][seen] = Visit(value, below, depth, n, seen)
      BY <3>1 DEF Visits
    <3>3. Visit(value, below, depth, n, seen) = Leaf({"[Truncated]"})
      BY <3>1 DEF Visit
    <3> QED
      BY <3>2, <3>3 DEF depth
  <2> QED
    BY <2>1, <2>3, <2>4
<1>3. ASSUME NEW left \in Nat, left \in T PROVE left + 1 \in T
  <2> SUFFICES ASSUME left + 1 <= MaxDepth + 1 PROVE Safe(MaxDepth + 1 - (left + 1), left + 1)
    OBVIOUS
  <2> DEFINE depth == MaxDepth + 1 - (left + 1)
  <2>1. /\ depth \in 0..MaxDepth /\ depth \in 0..(MaxDepth + 1) /\ depth + 1 = MaxDepth + 1 - left
        /\ left <= MaxDepth + 1 /\ left + 1 = MaxDepth + 1 - depth /\ left + 1 - 1 = left
    BY DepthAssumption
  <2>2. Safe(depth + 1, left)
    BY <1>3, <2>1
  <2> HIDE DEF depth
  <2>3. f[depth] = Visits(value, f[depth + 1], depth)
    BY <1>1, <2>1
  <2>4. ASSUME NEW n \in Node, NEW seen \in SUBSET Node
        PROVE  AllSafe(value, left + 1, f[depth][n][seen])
    <3>1. f[depth][n][seen] = Visit(value, f[depth + 1], depth, n, seen)
      BY <2>3 DEF Visits
    <3> QED
      BY <2>1, <2>2, <3>1, VisitIsSafe
  <2> QED
    BY <2>4 DEF depth
<1>4. T = Nat
  <2>1. T \subseteq Nat
    OBVIOUS
  <2> HIDE DEF T
  <2> QED
    BY <1>2, <1>3, <2>1, SetInduction
<1>5. Safe(0, MaxDepth + 1)
  <2>1. MaxDepth + 1 \in T /\ MaxDepth + 1 - (MaxDepth + 1) = 0
    BY <1>4, DepthAssumption
  <2> QED
    BY <2>1
<1>6. value.root \in Node
  BY DEF IsGraph
<1> QED
  BY <1>1, <1>5, <1>6

LEMMA LoggedIsSafe ==
    ASSUME NEW value, IsGraph(value)
    PROVE  AllSafe(value, MaxDepth + 1, Logged(value))
<1>1. CASE value.node[value.root].is = "error"
  <2>1. {value.node[value.root].name} \cap Unsafe = {}
    BY <1>1, GraphShape DEF IsGraph
  <2> QED
    BY <1>1, <2>1, LeafIsSafe, DepthAssumption DEF Logged
<1>2. CASE value.node[value.root].is # "error"
  BY <1>2, SanitizedIsSafe DEF Logged
<1> QED
  BY <1>1, <1>2

-----------------------------------------------------------------------------
(* What a walk does not leave out.                                         *)

\* A way from n of m fields, as the reference has it for the root.
IsWayFrom(value, n, m, p, w) ==
    /\ p \in [1..m -> Fields(value)]
    /\ w \in [1..(m + 1) -> Node]
    /\ w[1] = n
    /\ \A i \in 1..m :
          /\ value.node[w[i]].is \in {"object", "array"}
          /\ p[i] \in DOMAIN value.node[w[i]].holds
          /\ w[i + 1] = value.node[w[i]].holds[p[i]]
          /\ value.node[w[i]].is = "object" => Strategy(p[i]) = "none"
    /\ \A i, j \in 1..(m + 1) : w[i] = w[j] => i = j
    /\ value.node[w[m + 1]].is = "text"

\* m elements of a sequence, without its first.
Later(s, m) == [i \in 1..m |-> s[i + 1]]

\* The way from the next value.
LeadsOn(value, n, m, p, w) ==
    /\ IsWayFrom(value, w[2], m, Later(p, m), Later(w, m + 1))
    /\ Later(w, m + 1)[m + 1] = w[m + 2]
    /\ \A i \in 1..(m + 1) : Later(w, m + 1)[i] # n

LEMMA WayGoesOn ==
    ASSUME NEW value, NEW n, NEW m \in Nat, NEW p, NEW w, IsWayFrom(value, n, m + 1, p, w)
    PROVE  LeadsOn(value, n, m, p, w)
<1> DEFINE q == Later(p, m)
           x == Later(w, m + 1)
<1> USE DEF Later
<1>1. \A i \in 1..m : i + 1 \in 1..(m + 1) /\ i \in 1..(m + 1) /\ i + 1 + 1 = i + 2
  OBVIOUS
<1>2. \A i \in 1..(m + 1) : i + 1 \in 1..(m + 1 + 1) /\ i + 1 # 1
  OBVIOUS
<1>3. 1 \in 1..(m + 1) /\ 1 \in 1..(m + 1 + 1) /\ m + 1 \in 1..(m + 1) /\ m + 1 + 1 = m + 2
  OBVIOUS
<1>4. q \in [1..m -> Fields(value)]
  BY <1>1 DEF IsWayFrom
<1>5. x \in [1..(m + 1) -> Node]
  BY <1>2 DEF IsWayFrom
<1>6. x[1] = w[2] /\ x[m + 1] = w[m + 2]
  BY <1>3
<1>7. ASSUME NEW i \in 1..m
      PROVE  /\ value.node[x[i]].is \in {"object", "array"}
             /\ q[i] \in DOMAIN value.node[x[i]].holds
             /\ x[i + 1] = value.node[x[i]].holds[q[i]]
             /\ value.node[x[i]].is = "object" => Strategy(q[i]) = "none"
  <2>1. x[i] = w[i + 1] /\ x[i + 1] = w[i + 1 + 1] /\ q[i] = p[i + 1] /\ i + 1 \in 1..(m + 1)
    BY <1>1, <1>2
  <2> QED
    BY <2>1 DEF IsWayFrom
<1>8. ASSUME NEW i \in 1..(m + 1), NEW j \in 1..(m + 1), x[i] = x[j] PROVE i = j
  <2>1. w[i + 1] = w[j + 1]
    BY <1>8
  <2>2. i + 1 = j + 1
    BY <1>2, <2>1 DEF IsWayFrom
  <2> QED
    BY <2>2
<1>9. ASSUME NEW i \in 1..(m + 1) PROVE x[i] # n
  BY <1>2, <1>3 DEF IsWayFrom
<1>10. value.node[x[m + 1]].is = "text"
  BY <1>3, <1>6 DEF IsWayFrom
<1> QED
  <2>1. IsWayFrom(value, w[2], m, q, x)
    <3> HIDE DEF q, x
    <3> QED
      BY <1>4, <1>5, <1>6, <1>7, <1>8, <1>10 DEF IsWayFrom
  <2> QED
    BY <1>6, <1>9, <2>1 DEF LeadsOn

\* The text at the end of a way is among the lines.
Shows(value, lines, m, p, w) ==
    [path |-> p, says |-> CleanText(value.node[w[m + 1]].parts)] \in lines

LEMMA TextIsShown ==
    ASSUME NEW value, IsGraph(value), NEW below, NEW depth \in 0..MaxDepth,
           NEW n \in Node, NEW seen, NEW p, NEW w, IsWayFrom(value, n, 0, p, w)
    PROVE  Shows(value, Visit(value, below, depth, n, seen), 0, p, w)
<1>1. ~TooDeep(depth)
  BY DepthAssumption DEF TooDeep
<1>2. w[1] = n /\ w[0 + 1] = n /\ value.node[n].is = "text"
  BY DEF IsWayFrom
<1>3. Visit(value, below, depth, n, seen) = Leaf(CleanText(value.node[n].parts))
  BY <1>1, <1>2 DEF Visit, Direct
<1>4. p = <<>>
  BY DEF IsWayFrom
<1> QED
  BY <1>2, <1>3, <1>4 DEF Shows, Leaf

LEMMA PathReplaced ==
    ASSUME NEW q, NEW marks, NEW r
    PROVE  [[path |-> q, says |-> marks] EXCEPT !.path = r] = [path |-> r, says |-> marks]
OBVIOUS

\* What is shown one level deeper is shown under the field.
LEMMA VisitShows ==
    ASSUME NEW value, IsGraph(value), NEW below, NEW depth \in 0..MaxDepth,
           NEW n \in Node, NEW seen \in SUBSET Node, n \notin seen,
           NEW m \in Nat, NEW p, NEW w, IsWayFrom(value, n, m + 1, p, w),
           NEW q, q = Later(p, m), NEW x, x = Later(w, m + 1),
           Shows(value, below[w[2]][Below(value, n, seen)], m, q, x)
    PROVE  Shows(value, Visit(value, below, depth, n, seen), m + 1, p, w)
<1>0. IsWayFrom(value, w[2], m, q, x) /\ x[m + 1] = w[m + 2]
  <2>1. LeadsOn(value, n, m, p, w)
    BY WayGoesOn
  <2> QED
    BY <2>1 DEF LeadsOn
<1>1. ~TooDeep(depth)
  BY DepthAssumption DEF TooDeep
<1>2. PICK k : k = p[1]
  OBVIOUS
<1>3. /\ 1 \in 1..(m + 1) /\ 1 + 1 = 2
      /\ w[1] = n /\ value.node[n].is \in {"object", "array"} /\ k \in DOMAIN value.node[n].holds
      /\ w[2] = value.node[n].holds[k] /\ k \in Fields(value)
      /\ value.node[n].is = "object" => Strategy(k) = "none"
  <2>1. 1 \in 1..(m + 1) /\ 1 + 1 = 2
    OBVIOUS
  <2> QED
    BY <1>2, <2>1 DEF IsWayFrom
<1>4. Visit(value, below, depth, n, seen) =
        UNION {Under(j, Nested(value, below, n, seen, j)) : j \in DOMAIN value.node[n].holds}
  BY <1>1, <1>3 DEF Visit
<1>5. Nested(value, below, n, seen, k) = below[w[2]][Below(value, n, seen)]
  BY <1>3 DEF Nested
<1> DEFINE marks == CleanText(value.node[w[m + 2]].parts)
           l == [path |-> q, says |-> marks]
<1>6. l \in Nested(value, below, n, seen, k)
  BY <1>5, <1>0 DEF Shows
<1>7. [l EXCEPT !.path = <<k>> \o @] = [path |-> <<k>> \o q, says |-> marks]
  <2> DEFINE r == <<k>> \o q
  <2>1. l.path = q /\ <<k>> \o l.path = r
    OBVIOUS
  <2> HIDE DEF r, marks
  <2>2. [l EXCEPT !.path = <<k>> \o @] = [l EXCEPT !.path = r]
    <3> HIDE DEF l
    <3> QED
      BY <2>1
  <2>3. [l EXCEPT !.path = r] = [path |-> r, says |-> marks]
    BY PathReplaced
  <2> QED
    BY <2>2, <2>3 DEF r
<1>8. <<k>> \o q = p
  <2>1. p \in [1..(m + 1) -> Fields(value)] /\ q \in [1..m -> Fields(value)]
    BY <1>0 DEF IsWayFrom
  <2>2. /\ p \in Seq(Fields(value)) /\ Len(p) = m + 1
        /\ q \in Seq(Fields(value)) /\ Len(q) = m
        /\ <<k>> \in Seq(Fields(value)) /\ Len(<<k>>) = 1 /\ <<k>>[1] = k
    BY <1>3, <2>1
  <2> DEFINE r == <<k>> \o q
  <2>3. r \in Seq(Fields(value)) /\ Len(r) = m + 1 /\ r[1] = k
        /\ \A i \in 2..(m + 1) : r[i] = q[i - 1]
    BY <2>2
  <2> HIDE DEF r
  <2>4. ASSUME NEW i \in 1..(m + 1) PROVE r[i] = p[i]
    <3>1. CASE i = 1
      BY <1>2, <2>3, <3>1
    <3>2. CASE i # 1
      <4>1. i \in 2..(m + 1) /\ i - 1 \in 1..m /\ i - 1 + 1 = i
        BY <3>2
      <4>2. q[i - 1] = p[i]
        BY <4>1 DEF Later
      <4> QED
        BY <2>3, <4>1, <4>2
    <3> QED
      BY <3>1, <3>2
  <2>5. r = p
    BY <2>2, <2>3, <2>4
  <2> QED
    BY <2>5 DEF r
<1>9. [path |-> p, says |-> marks] \in Under(k, Nested(value, below, n, seen, k))
  <2>1. [l EXCEPT !.path = <<k>> \o @] \in Under(k, Nested(value, below, n, seen, k))
    <3> HIDE DEF l
    <3> QED
      BY <1>6 DEF Under
  <2> QED
    BY <1>7, <1>8, <2>1
<1>10. m + 1 + 1 = m + 2
  OBVIOUS
<1> HIDE DEF l, marks
<1>11. [path |-> p, says |-> marks] \in Visit(value, below, depth, n, seen)
  BY <1>3, <1>4, <1>9
<1> QED
  BY <1>10, <1>11 DEF Shows, marks

\* Every text at the end of a way that does not get too deep is written.
LEMMA WalkShows ==
    ASSUME NEW value, IsGraph(value), NEW f,
           \A depth \in 0..(MaxDepth + 1) : f[depth] = Visits(value, f[depth + 1], depth),
           NEW m \in Nat
    PROVE  \A depth \in 0..MaxDepth : \A n \in Node : \A seen \in SUBSET Node : \A p, w :
               /\ depth + m <= MaxDepth
               /\ IsWayFrom(value, n, m, p, w)
               /\ \A i \in 1..(m + 1) : w[i] \notin seen
               => Shows(value, f[depth][n][seen], m, p, w)
<1> DEFINE ShowsAll(k) ==
              \A depth \in 0..MaxDepth : \A n \in Node : \A seen \in SUBSET Node : \A p, w :
                  /\ depth + k <= MaxDepth
                  /\ IsWayFrom(value, n, k, p, w)
                  /\ \A i \in 1..(k + 1) : w[i] \notin seen
                  => Shows(value, f[depth][n][seen], k, p, w)
           T == {k \in Nat : ShowsAll(k)}
<1>1. ASSUME NEW depth \in 0..MaxDepth, NEW n \in Node, NEW seen \in SUBSET Node
      PROVE  /\ f[depth][n][seen] = Visit(value, f[depth + 1], depth, n, seen)
             /\ depth + 1 \in 0..(MaxDepth + 1)
  <2>1. depth \in 0..(MaxDepth + 1) /\ depth + 1 \in 0..(MaxDepth + 1)
    BY DepthAssumption
  <2>2. f[depth] = Visits(value, f[depth + 1], depth)
    BY <2>1
  <2> QED
    BY <2>1, <2>2 DEF Visits
<1>2. 0 \in T
  <2>1. ShowsAll(0)
    BY <1>1, TextIsShown
  <2> QED
    BY <2>1
<1>3. ASSUME NEW k \in Nat, k \in T PROVE k + 1 \in T
  <2>1. ASSUME NEW depth \in 0..MaxDepth, NEW n \in Node, NEW seen \in SUBSET Node, NEW p, NEW w,
               depth + (k + 1) <= MaxDepth,
               IsWayFrom(value, n, k + 1, p, w),
               \A i \in 1..(k + 1 + 1) : w[i] \notin seen
        PROVE  Shows(value, f[depth][n][seen], k + 1, p, w)
    <3> DEFINE q == Later(p, k)
               x == Later(w, k + 1)
               others == Below(value, n, seen)
    <3>1. \A i \in 1..(k + 1) : x[i] = w[i + 1] /\ i + 1 \in 1..(k + 1 + 1)
      BY DEF Later
    <3>2. /\ IsWayFrom(value, w[2], k, q, x) /\ \A i \in 1..(k + 1) : x[i] # n
      <4>1. LeadsOn(value, n, k, p, w)
        BY <2>1, WayGoesOn
      <4> QED
        BY <4>1 DEF LeadsOn, q, x
    <3>3. /\ w[2] \in Node /\ n \notin seen
          /\ others \in SUBSET Node /\ others = seen \cup {n}
      <4>1. 1 \in 1..(k + 1 + 1) /\ 2 \in 1..(k + 1 + 1)
        OBVIOUS
      <4> QED
        BY <2>1, <4>1 DEF IsWayFrom, Below
    <3>4. \A i \in 1..(k + 1) : x[i] \notin others
      BY <2>1, <3>1, <3>2, <3>3
    <3>5. depth + 1 \in 0..MaxDepth /\ depth + 1 + k <= MaxDepth
      BY <2>1, DepthAssumption
    <3> HIDE DEF others, q, x
    <3>6. Shows(value, f[depth + 1][w[2]][others], k, q, x)
      BY <1>3, <3>2, <3>3, <3>4, <3>5
    <3>7. Shows(value, Visit(value, f[depth + 1], depth, n, seen), k + 1, p, w)
      BY <2>1, <3>3, <3>6, VisitShows DEF others, q, x
    <3> QED
      BY <1>1, <3>7
  <2> QED
    BY <2>1
<1>4. T = Nat
  <2>1. T \subseteq Nat
    OBVIOUS
  <2> HIDE DEF T
  <2> QED
    BY <1>2, <1>3, <2>1, SetInduction
<1> QED
  BY <1>4

\* The reference is contained in what is logged of a graph.
LEMMA ReadableIsLogged ==
    ASSUME NEW value, IsGraph(value)
    PROVE  ReadableTexts(value) \subseteq Logged(value)
<1>1. ASSUME NEW l \in ReadableTexts(value)
      PROVE  \E m \in 0..MaxDepth : \E p, w :
                /\ IsWayFrom(value, value.root, m, p, w)
                /\ l = [path |-> p, says |-> CleanText(value.node[w[m + 1]].parts)]
  <2>1. PICK p \in BoundedSeq(Fields(value), MaxDepth) :
          \E w \in [1..(Len(p) + 1) -> Node] :
              /\ IsWay(value, p, w)
              /\ NamesNothingSensitive(value, p, w)
              /\ WithoutRepetition(w)
              /\ value.node[w[Len(p) + 1]].is = "text"
              /\ l = [path |-> p, says |-> CleanText(value.node[w[Len(p) + 1]].parts)]
    BY <1>1 DEF ReadableTexts
  <2>2. PICK m \in 0..MaxDepth : p \in [1..m -> Fields(value)]
    BY <2>1 DEF BoundedSeq, SeqOf
  <2>3. Len(p) = m /\ DOMAIN p = 1..m
    BY <2>2
  <2>4. PICK w \in [1..(m + 1) -> Node] :
              /\ IsWay(value, p, w)
              /\ NamesNothingSensitive(value, p, w)
              /\ WithoutRepetition(w)
              /\ value.node[w[m + 1]].is = "text"
              /\ l = [path |-> p, says |-> CleanText(value.node[w[m + 1]].parts)]
    BY <2>1, <2>3
  <2>5. IsWayFrom(value, value.root, m, p, w)
    BY <2>2, <2>3, <2>4 DEF IsWayFrom, IsWay, NamesNothingSensitive, WithoutRepetition
  <2> QED
    BY <2>4, <2>5
<1>2. ASSUME NEW l \in ReadableTexts(value) PROVE l \in Sanitized(value)
  <2>0. PICK m \in 0..MaxDepth : \E p, w :
                /\ IsWayFrom(value, value.root, m, p, w)
                /\ l = [path |-> p, says |-> CleanText(value.node[w[m + 1]].parts)]
    BY <1>1
  <2>1. PICK p, w :
                /\ IsWayFrom(value, value.root, m, p, w)
                /\ l = [path |-> p, says |-> CleanText(value.node[w[m + 1]].parts)]
    BY <2>0
  <2>2. PICK f : /\ Sanitized(value) = f[0][value.root][{}]
                 /\ \A depth \in 0..(MaxDepth + 1) : f[depth] = Visits(value, f[depth + 1], depth)
    BY SanitizedWalks
  <2>3. 0 \in 0..MaxDepth /\ 0 + m <= MaxDepth /\ value.root \in Node /\ {} \in SUBSET Node /\ m \in Nat
    BY DepthAssumption DEF IsGraph
  <2>4. Shows(value, f[0][value.root][{}], m, p, w)
    BY <2>1, <2>2, <2>3, WalkShows
  <2> QED
    BY <2>1, <2>2, <2>4 DEF Shows
<1>3. value.node[value.root].is = "error" => ReadableTexts(value) = {}
  <2> SUFFICES ASSUME value.node[value.root].is = "error", NEW l \in ReadableTexts(value) PROVE FALSE
    OBVIOUS
  <2>0. PICK m \in 0..MaxDepth : \E p, w : IsWayFrom(value, value.root, m, p, w)
    BY <1>1
  <2>1. PICK p, w : IsWayFrom(value, value.root, m, p, w)
    BY <2>0
  <2>2. CASE m = 0
    BY <2>1, <2>2 DEF IsWayFrom
  <2>3. CASE m # 0
    <3>1. 1 \in 1..m
      BY <2>3
    <3> QED
      BY <2>1, <3>1 DEF IsWayFrom
  <2> QED
    BY <2>2, <2>3
<1> QED
  BY <1>2, <1>3 DEF Logged

-----------------------------------------------------------------------------
(* Theorems about the log.                                                 *)

LEMMA NamesAreSafe == \A e \in Exceptions : {e} \cap Unsafe = {}
<1>1. \A e \in DOMAIN StatusTable \cup {"Error"} : {e} \cap Unsafe = {}
  BY DEF StatusTable, Unsafe, Secrets, Aliased, Bare
<1>2. Exceptions \subseteq DOMAIN StatusTable \cup {"Error"}
  <2>1. \A op \in DOMAIN Declares : DOMAIN Declares[op] \subseteq DOMAIN StatusTable
    BY DeclaredOnce DEF Consistent, IsPartOfTable
  <2>2. "Forbidden" \in DOMAIN StatusTable
    BY DEF StatusTable
  <2> QED
    BY <2>1, <2>2 DEF Exceptions
<1> QED
  BY <1>1, <1>2

\* A line of the listener holds nothing unsafe.
LEMMA LinesAreSafe ==
    ASSUME AccessInv, log # Silence
    PROVE  \E value : AllSafe(value, MaxDepth + 1, log.lines)
<1>1. PICK e \in Exceptions, value \in Payload \cup {NoDetails}, status \in Nat :
          log = LineOf(e, status, value)
  BY DEF AccessInv, LogIsALine
<1>2. CASE status = 500
  <2>1. log.lines = Leaf({e})
    BY <1>1, <1>2 DEF LineOf
  <2>2. AllSafe(value, MaxDepth + 1, Leaf({e}))
    BY NamesAreSafe, LeafIsSafe, DepthAssumption
  <2> QED
    BY <2>1, <2>2
<1>3. CASE status # 500
  <2>1. log.lines = Logged(value)
    BY <1>1, <1>3 DEF LineOf, Lines
  <2>2. AllSafe(value, MaxDepth + 1, Logged(value))
    BY LoggedIsSafe, PayloadAssumption
  <2> QED
    BY <2>1, <2>2
<1> QED
  BY <1>2, <1>3

LEMMA SafeLine ==
    ASSUME NEW value, NEW left, NEW l, IsSafe(value, left, l)
    PROVE  /\ l.says \cap (Secrets \cup Aliased \cup Bare) = {}
           /\ (\E i \in DOMAIN l.path : Strategy(l.path[i]) # "none") => l.says \subseteq {"***", "[REDACTED]"}
           /\ Len(l.path) <= left
BY DEF IsSafe, Unsafe, Masks

\* Of values that share, contain themselves or are deep, nothing below a
\* sensitive field and no fragment that looks like a secret is logged.
THEOREM SecretsDoStayOut == Spec => []SecretsStayOut
<1>1. AccessInv => SecretsStayOut
  <2> SUFFICES ASSUME AccessInv, log # Silence, NEW l \in log.lines
               PROVE  /\ l.says \cap (Secrets \cup Aliased \cup Bare) = {}
                      /\ (\E i \in DOMAIN l.path : Strategy(l.path[i]) # "none") => l.says \subseteq {"***", "[REDACTED]"}
    BY DEF SecretsStayOut
  <2>1. PICK value : IsSafe(value, MaxDepth + 1, l)
    BY LinesAreSafe DEF AllSafe
  <2> QED
    BY <2>1, SafeLine
<1> QED
  BY <1>1, AccessInvariant, PTL

\* And every text that can be reached without a sensitive field, a repetition
\* or too many levels is logged as it is, and no line is deeper than that.
THEOREM TheRestIsThere == Spec => []TheRestIsLogged
<1>1. AccessInv => TheRestIsLogged
  <2>1. ASSUME AccessInv, log # Silence, log.status # 500, log.value \in Payload
        PROVE  Readable[log.value] \subseteq log.lines
    <3>1. PICK e \in Exceptions, value \in Payload \cup {NoDetails}, status \in Nat :
              log = LineOf(e, status, value)
      BY <2>1 DEF AccessInv, LogIsALine
    <3>2. status # 500 /\ log.value = value
      BY <2>1, <3>1 DEF LineOf
    <3>3. log.lines = Logged(value)
      BY <3>1, <3>2 DEF LineOf, Lines
    <3>4. Readable[value] = ReadableTexts(value)
      BY <2>1, <3>2 DEF Readable
    <3> QED
      BY <3>2, <3>3, <3>4, ReadableIsLogged, PayloadAssumption
  <2>2. ASSUME AccessInv, log # Silence, NEW l \in log.lines
        PROVE  Len(l.path) <= MaxDepth + 1
    <3>1. PICK value : IsSafe(value, MaxDepth + 1, l)
      BY <2>2, LinesAreSafe DEF AllSafe
    <3> QED
      BY <3>1, SafeLine
  <2> QED
    BY <2>1, <2>2 DEF TheRestIsLogged
<1> QED
  BY <1>1, AccessInvariant, PTL

=============================================================================
