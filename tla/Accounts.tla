------------------------------- MODULE Accounts -------------------------------
(***************************************************************************)
(* Registration, login and profiles: users with their e-mail and password, *)
(* the tokens a login returns, and the musicians, one per user, that the   *)
(* rest of the application knows people by.                                *)
(*                                                                         *)
(* Every use case searches first and saves some awaits later, with a hash  *)
(* of the password or further searches in between; what two of them race   *)
(* for is settled by the unique indexes of the tables.  The clients draw   *)
(* the ids.  A call in flight is the record of what it does next.          *)
(*                                                                         *)
(* Artificial: MaxCalls caps the API calls.                                *)
(***************************************************************************)
EXTENDS Integers

CONSTANTS
    UserId,
    Email,
    Password,
    MusicianId,
    Username,
    Slot,       \* API calls that can be in flight at a time
    MaxCalls

ASSUME CallsAssumption == MaxCalls \in Nat

VARIABLES
    users,      \* the User rows
    musicians,  \* the Musician rows
    tokens,     \* tokens that have been issued and have not expired
    accounts,   \* history: what was first asked for under each user id
    profiles,   \* history: and under each musician id
    call,
    calls

accountsVars == <<users, musicians, tokens, accounts, profiles, call, calls>>

Absent == [is |-> "absent"]
Users == [email : Email, password : Password]
Musicians == [username : Username, user : UserId]
Tokens == [id : UserId, email : Email, password : Password]

Idle == [do |-> "nothing"]
Calls ==
    {Idle}
    \cup [do : {"find account", "save account"}, id : UserId, row : Users]
    \cup [do : {"find user"}, email : Email, password : Password]
    \cup [do : {"match password"}, id : UserId, row : Users, password : Password]
    \cup [do : {"find profile", "find username", "find owner", "save profile"},
          id : MusicianId, row : Musicians]

AccountsTypeOK ==
    /\ users \in [UserId -> Users \cup {Absent}]
    /\ musicians \in [MusicianId -> Musicians \cup {Absent}]
    /\ tokens \in SUBSET Tokens
    /\ accounts \in [UserId -> Users \cup {Absent}]
    /\ profiles \in [MusicianId -> Musicians \cup {Absent}]
    /\ call \in [Slot -> Calls]
    /\ calls \in 0..MaxCalls

AccountsInit ==
    /\ users = [u \in UserId |-> Absent]
    /\ musicians = [m \in MusicianId |-> Absent]
    /\ tokens = {}
    /\ accounts = [u \in UserId |-> Absent]
    /\ profiles = [m \in MusicianId |-> Absent]
    /\ call = [c \in Slot |-> Idle]
    /\ calls = 0

-----------------------------------------------------------------------------
(* The controllers.                                                        *)

Begin(c, k) ==
    /\ call[c] = Idle
    /\ calls < MaxCalls
    /\ calls' = calls + 1
    /\ call' = [call EXCEPT ![c] = k]
    /\ UNCHANGED <<users, musicians, tokens>>

First(history, id, row) ==
    IF history[id] = Absent THEN [history EXCEPT ![id] = row] ELSE history

PostRegister(c, u, row) ==
    /\ Begin(c, [do |-> "find account", id |-> u, row |-> row])
    /\ accounts' = First(accounts, u, row)
    /\ UNCHANGED profiles

PostLogin(c, e, p) ==
    /\ Begin(c, [do |-> "find user", email |-> e, password |-> p])
    /\ UNCHANGED <<accounts, profiles>>

\* LocalJwtBearerToken.verifyJWT: the user of the token must exist.
Authenticates(t, u) == t.id = u /\ users[u] # Absent

PostProfile(c, t, m, n) ==
    /\ \E u \in UserId :
          /\ Authenticates(t, u)
          /\ LET row == [username |-> n, user |-> u]
             IN  /\ Begin(c, [do |-> "find profile", id |-> m, row |-> row])
                 /\ profiles' = First(profiles, m, row)
    /\ UNCHANGED accounts

Expire(t) ==
    /\ tokens' = tokens \ {t}
    /\ UNCHANGED <<users, musicians, accounts, profiles, call, calls>>

-----------------------------------------------------------------------------
(* The use cases.                                                          *)

Does(c, step) == call[c].do = step

Then(c, k) ==
    /\ call' = [call EXCEPT ![c] = k]
    /\ UNCHANGED <<users, musicians, tokens, accounts, profiles, calls>>

Goto(c, step) == Then(c, [call[c] EXCEPT !.do = step])
Return(c) == Then(c, Idle)

Present(rows, id) == rows[id] # Absent

\* UserRegister.run: the e-mail is looked up, the id is not.
FindAccount(c) ==
    /\ Does(c, "find account")
    /\ IF \E u \in UserId : Present(users, u) /\ users[u].email = call[c].row.email
         THEN Return(c)
         ELSE Goto(c, "save account")

\* Mutant: the email column has no unique index.
EmailIsFreeAnyway(u, e) == TRUE

\* User_email_key
EmailIsFree(u, e) == \A v \in UserId \ {u} : Present(users, v) => users[v].email # e

\* Mutant: the row is looked up by its e-mail.
SaveAccountByEmail(c) ==
    /\ Does(c, "save account")
    /\ LET k == call[c]
       IN  users' = [u \in UserId |->
              IF u = k.id THEN k.row
              ELSE IF Present(users, u) /\ users[u].email = k.row.email THEN Absent ELSE users[u]]
    /\ call' = [call EXCEPT ![c] = Idle]
    /\ UNCHANGED <<musicians, tokens, accounts, profiles, calls>>

\* UserPrismaRepository.save, an upsert by id.
SaveAccount(c) ==
    /\ Does(c, "save account")
    /\ LET k == call[c]
       IN  IF EmailIsFree(k.id, k.row.email)
             THEN users' = [users EXCEPT ![k.id] = k.row]
             ELSE UNCHANGED users
    /\ call' = [call EXCEPT ![c] = Idle]
    /\ UNCHANGED <<musicians, tokens, accounts, profiles, calls>>

\* UserLogin.run
FindUser(c) ==
    /\ Does(c, "find user")
    /\ LET k == call[c]
       IN  \/ /\ \A u \in UserId : ~(Present(users, u) /\ users[u].email = k.email)
              /\ Return(c)
           \/ \E u \in UserId :
                 /\ Present(users, u)
                 /\ users[u].email = k.email
                 /\ Then(c, [do |-> "match password", id |-> u, row |-> users[u],
                             password |-> k.password])

\* Mutant: the promise of the comparison is not awaited, and is truthy.
MatchAny(c) ==
    /\ Does(c, "match password")
    /\ LET k == call[c]
       IN  tokens' = tokens \cup {[id |-> k.id, email |-> k.row.email, password |-> k.password]}
    /\ call' = [call EXCEPT ![c] = Idle]
    /\ UNCHANGED <<users, musicians, accounts, profiles, calls>>

\* The token names the id and the e-mail of the row that was read.  (The
\* password it was given for is history.)
MatchPassword(c) ==
    /\ Does(c, "match password")
    /\ LET k == call[c]
       IN  tokens' = IF k.password = k.row.password
                       THEN tokens \cup {[id |-> k.id, email |-> k.row.email, password |-> k.password]}
                       ELSE tokens
    /\ call' = [call EXCEPT ![c] = Idle]
    /\ UNCHANGED <<users, musicians, accounts, profiles, calls>>

ByUsername(n) == {m \in MusicianId : Present(musicians, m) /\ musicians[m].username = n}
ByUser(u) == {m \in MusicianId : Present(musicians, m) /\ musicians[m].user = u}

\* MusicianCreator.run: with the same values it succeeds, with others it is a
\* conflict.
FindProfile(c) ==
    /\ Does(c, "find profile")
    /\ IF Present(musicians, call[c].id) THEN Return(c) ELSE Goto(c, "find username")

FindUsername(c) ==
    /\ Does(c, "find username")
    /\ IF ByUsername(call[c].row.username) # {}
         THEN Return(c)
         ELSE Goto(c, "find owner")

FindOwner(c) ==
    /\ Does(c, "find owner")
    /\ IF ByUser(call[c].row.user) # {}
         THEN Return(c)
         ELSE Goto(c, "save profile")

\* Musician_username_key and Musician_userId_key
ProfileIsFree(m, r) ==
    \A n \in MusicianId \ {m} : Present(musicians, n) =>
        musicians[n].username # r.username /\ musicians[n].user # r.user

\* Musician_userId_fkey
HasUser(r) == Present(users, r.user)

\* Mutant: the relation to the user and the indexes are missing, as if the
\* searches were enough.
SaveProfileUnchecked(c) ==
    /\ Does(c, "save profile")
    /\ musicians' = [musicians EXCEPT ![call[c].id] = call[c].row]
    /\ call' = [call EXCEPT ![c] = Idle]
    /\ UNCHANGED <<users, tokens, accounts, profiles, calls>>

\* PrismaMusicianRepository.save, an upsert by id that also needs the user.
SaveProfile(c) ==
    /\ Does(c, "save profile")
    /\ LET k == call[c]
       IN  IF ProfileIsFree(k.id, k.row) /\ HasUser(k.row)
             THEN musicians' = [musicians EXCEPT ![k.id] = k.row]
             ELSE UNCHANGED musicians
    /\ call' = [call EXCEPT ![c] = Idle]
    /\ UNCHANGED <<users, tokens, accounts, profiles, calls>>

\* A statement fails, or the instance dies.
CallFails(c) == call[c] # Idle /\ Return(c)

-----------------------------------------------------------------------------
Steps(c) ==
    \/ FindAccount(c) \/ SaveAccount(c)
    \/ FindUser(c) \/ MatchPassword(c)
    \/ FindProfile(c) \/ FindUsername(c) \/ FindOwner(c) \/ SaveProfile(c)
    \/ CallFails(c)

Logins == \E c \in Slot, e \in Email, p \in Password : PostLogin(c, e, p)

AccountsNext ==
    \/ \E c \in Slot : Steps(c)
    \/ Logins
    \/ \E c \in Slot, u \in UserId, row \in Users : PostRegister(c, u, row)
    \/ \E c \in Slot, t \in tokens, m \in MusicianId, n \in Username : PostProfile(c, t, m, n)
    \/ \E t \in tokens : Expire(t)

AccountsSpec == AccountsInit /\ [][AccountsNext]_accountsVars

\* The ids are random: no two clients draw the same.  One client may repeat
\* its request under the same id, with the same values.
Draws(history, id, row) == history[id] \in {Absent, row}

FreshNext ==
    \/ \E c \in Slot : Steps(c)
    \/ Logins
    \/ \E c \in Slot, u \in UserId, row \in Users :
          Draws(accounts, u, row) /\ PostRegister(c, u, row)
    \/ \E c \in Slot, t \in tokens, m \in MusicianId, n \in Username :
          /\ Draws(profiles, m, [username |-> n, user |-> t.id])
          /\ PostProfile(c, t, m, n)
    \/ \E t \in tokens : Expire(t)

FreshSpec == AccountsInit /\ [][FreshNext]_accountsVars

-----------------------------------------------------------------------------
(* Properties.                                                             *)

\* However two registrations race between their searches and their saves,
\* no two users have one e-mail and no two musicians one name or one user.
NoTwoShare ==
    /\ \A u, v \in UserId :
          Present(users, u) /\ Present(users, v) /\ users[u].email = users[v].email => u = v
    /\ \A m, n \in MusicianId :
          /\ Present(musicians, m)
          /\ Present(musicians, n)
          /\ musicians[m].username = musicians[n].username \/ musicians[m].user = musicians[n].user
          => m = n

\* A token names a user who exists, has its e-mail, and whose password was
\* given for it, as long as the token lasts.
TokensAreTrue ==
    \A t \in tokens :
        /\ Present(users, t.id)
        /\ users[t.id].email = t.email
        /\ users[t.id].password = t.password

\* Every musician is some user's.
ProfilesHaveUsers == \A m \in MusicianId : Present(musicians, m) => Present(users, musicians[m].user)

\* The strengthening: rows, and rows about to be saved, are what was asked
\* for under their id; a login goes on from a row that is still there.
AsAsked ==
    /\ \A u \in UserId : Present(users, u) => users[u] = accounts[u]
    /\ \A m \in MusicianId : Present(musicians, m) => musicians[m] = profiles[m]
    /\ \A c \in Slot :
          /\ call[c].do \in {"find account", "save account"} => call[c].row = accounts[call[c].id]
          /\ call[c].do \in {"find profile", "find username", "find owner", "save profile"}
                => call[c].row = profiles[call[c].id]
          /\ call[c].do = "match password" => users[call[c].id] = call[c].row

\* However registrations and logins race, accounts and profiles are unique,
\* belong together and are what their tokens say.
AccountsInv == AccountsTypeOK /\ NoTwoShare /\ TokensAreTrue /\ ProfilesHaveUsers /\ AsAsked

\* Whatever is requested later, or again, an account and a profile stay what
\* they were.
EntriesStay ==
    [][/\ \A u \in UserId : Present(users, u) => users'[u] = users[u]
       /\ \A m \in MusicianId : Present(musicians, m) => musicians'[m] = musicians[m]]_accountsVars

=============================================================================
