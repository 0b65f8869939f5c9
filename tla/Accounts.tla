------------------------------ MODULE Accounts ------------------------------
(***************************************************************************)
(* Accounts: users, their node keys and sessions at the control plane      *)
(* (auth.service.ts), and what the tabs of one browser keep of them in the *)
(* local storage they share (identity.ts, auth-session.ts): a session      *)
(* token and, apart from it, the account with its node's private key.      *)
(* Pages call the control plane and use the answer whenever it comes, also *)
(* after a logout or another login. A tab's handler runs to its end before *)
(* another tab's; a private key is named by its node; passwords are right. *)
(***************************************************************************)
EXTENDS Integers, Sequences, FiniteSets

CONSTANTS
    Users,        \* user names
    Tabs,
    DisplayNames,
    Legacy,       \* this browser holds a key of the time before accounts
    MaxCalls,     \* bound on calls
    MaxSessions   \* bound on sessions

ASSUME BoundAssumption == MaxCalls \in Nat /\ MaxSessions \in Nat
ASSUME LegacyAssumption == Legacy \in BOOLEAN

VARIABLES
    users,      \* registered users: their node and display name
    fresh,      \* node keys generated so far
    members,    \* the display name in a user's membership rows
    sessions,   \* of which user, and whether it is still valid
    token,      \* SESSION_KEY: a session, or 0
    account,    \* ACCOUNT_KEY, or NoAccount
    migrated,   \* MIGRATED_KEY
    page,       \* "auth" (login, register) or "app" by tab
    calls,      \* calls under way
    made        \* calls made

server == <<users, fresh, members, sessions>>
browser == <<token, account, migrated, page>>
vars == <<server, browser, calls, made>>

NoNode == -1
LegacyNode == 0
Nodes == Nat
NoUser == [node |-> NoNode, name |-> ""]
Names == DisplayNames \cup {""}
NoAccount == [user |-> "", node |-> NoNode, key |-> NoNode, name |-> ""]
Accounts == [user : Users, node : Nodes, key : Nodes, name : Names]
Kinds == {"register", "login", "me", "rename"}
Phases == {"sent", "checked", "created", "stored", "answered"}
Calls ==
    [id : 1..MaxCalls, tab : Tabs, kind : Kinds, phase : Phases, user : Users \cup {""},
     session : 0..MaxSessions, legacy : BOOLEAN, name : Names, node : Nodes \cup {NoNode}]

registered == {u \in Users : users[u] # NoUser}
isLoggedIn == token # 0 /\ account # NoAccount
Valid(s) == s # 0 /\ sessions[s].valid

(* One user at most has registered in another browser before.              *)
Init ==
    /\ \E u0 \in Users : users \in {[u \in Users |-> NoUser],
           [u \in Users |-> IF u = u0 THEN [node |-> 1, name |-> ""] ELSE NoUser]}
    /\ fresh = 1
    /\ members = [u \in Users |-> ""]
    /\ sessions = <<>>
    /\ token = 0 /\ account = NoAccount /\ migrated = FALSE
    /\ page = [t \in Tabs |-> "auth"]
    /\ calls = {} /\ made = 0
-----------------------------------------------------------------------------
(* Calls *)

Call(t, kind, u, name, legacy) ==
    /\ made < MaxCalls
    /\ made' = made + 1
    /\ calls' = calls \cup
        {[id |-> made + 1, tab |-> t, kind |-> kind, phase |-> "sent", user |-> u,
          session |-> token, legacy |-> legacy, name |-> name, node |-> NoNode]}

To(c, d) == calls' = (calls \ {c}) \cup {d}
Ends(c) == calls' = calls \ {c}

(* AuthPage.submit, also of a page another tab has logged in behind.       *)
Submit(t, kind, u, name) ==
    /\ page[t] = "auth"
    /\ Call(t, kind, u, name, Legacy /\ ~migrated)
    /\ UNCHANGED <<server, browser>>

(* A page behind RequireAuth or GuestOnly is opened: the guard reads the   *)
(* storage, useIdentity asks whose session it is.                          *)
Open(t) ==
    /\ IF isLoggedIn
       THEN /\ page' = [page EXCEPT ![t] = "app"]
            /\ Call(t, "me", "", "", FALSE)
       ELSE /\ page' = [page EXCEPT ![t] = "auth"]
            /\ UNCHANGED <<calls, made>>
    /\ UNCHANGED <<server, token, account, migrated>>

(* The user menu's form, shown also after a logout in another tab.         *)
Rename(t, name) ==
    /\ page[t] = "app"
    /\ Call(t, "rename", "", name, FALSE)
    /\ UNCHANGED <<server, browser>>

(* clearAuthSession: the session itself is not revoked.                    *)
Logout(t) ==
    /\ page[t] = "app"
    /\ token' = 0 /\ account' = NoAccount
    /\ page' = [page EXCEPT ![t] = "auth"]
    /\ UNCHANGED <<server, migrated, calls, made>>
-----------------------------------------------------------------------------
(* The control plane *)

(* An error, a lost request or answer.                                     *)
CallFails(c) ==
    /\ Ends(c)
    /\ UNCHANGED <<server, browser, made>>

(* register: the name is looked up before its password is hashed.          *)
RegisterCheck(c) ==
    /\ c.kind = "register" /\ c.phase = "sent" /\ c.user \notin registered
    /\ To(c, [c EXCEPT !.phase = "checked"])
    /\ UNCHANGED <<server, browser, made>>

(* Mutant: whoever checked the name takes it, and a node key is anyone's.  *)
RegisterCommitUnchecked(c) ==
    /\ c.kind = "register" /\ c.phase = "checked"
    /\ fresh' = IF c.legacy THEN fresh ELSE fresh + 1
    /\ LET node == IF c.legacy THEN LegacyNode ELSE fresh + 1
       IN  /\ users' = [users EXCEPT ![c.user] = [node |-> node, name |-> c.name]]
           /\ To(c, [c EXCEPT !.phase = "created", !.node = node])
    /\ UNCHANGED <<members, sessions, browser, made>>

(* Its transaction: user and key together, unless the name or the node     *)
(* has become someone else's (unique columns).                             *)
RegisterCommit(c) ==
    /\ c.kind = "register" /\ c.phase = "checked"
    /\ c.user \notin registered
    /\ c.legacy => \A u \in Users : users[u].node # LegacyNode
    /\ fresh' = IF c.legacy THEN fresh ELSE fresh + 1
    /\ LET node == IF c.legacy THEN LegacyNode ELSE fresh + 1
       IN  /\ users' = [users EXCEPT ![c.user] = [node |-> node, name |-> c.name]]
           /\ To(c, [c EXCEPT !.phase = "created", !.node = node])
    /\ UNCHANGED <<members, sessions, browser, made>>

(* login: user, key and name as they are now.                              *)
Login(c) ==
    /\ c.kind = "login" /\ c.phase = "sent" /\ c.user \in registered
    /\ To(c, [c EXCEPT !.phase = "created", !.node = users[c.user].node,
                       !.name = users[c.user].name])
    /\ UNCHANGED <<server, browser, made>>

IssueSession(c) ==
    /\ c.phase = "created" /\ Len(sessions) < MaxSessions
    /\ sessions' = Append(sessions, [user |-> c.user, valid |-> TRUE])
    /\ To(c, [c EXCEPT !.phase = "answered", !.session = Len(sessions) + 1])
    /\ UNCHANGED <<users, fresh, members, browser, made>>

(* me: the user and key of the session the request came with.              *)
Me(c) ==
    /\ c.kind = "me" /\ c.phase = "sent" /\ Valid(c.session)
    /\ LET u == sessions[c.session].user
       IN  To(c, [c EXCEPT !.phase = "answered", !.user = u, !.node = users[u].node,
                           !.name = users[u].name])
    /\ UNCHANGED <<server, browser, made>>

(* updateDisplayName: the account's name, and after it the memberships'.   *)
RenameAccount(c) ==
    /\ c.kind = "rename" /\ c.phase = "sent" /\ Valid(c.session)
    /\ LET u == sessions[c.session].user
       IN  /\ users' = [users EXCEPT ![u].name = c.name]
           /\ To(c, [c EXCEPT !.phase = "stored", !.user = u])
    /\ UNCHANGED <<fresh, members, sessions, browser, made>>

RenameMember(c) ==
    /\ c.kind = "rename" /\ c.phase = "stored"
    /\ members' = [members EXCEPT ![c.user] = c.name]
    /\ To(c, [c EXCEPT !.phase = "answered"])
    /\ UNCHANGED <<users, fresh, sessions, browser, made>>

Expire(s) ==
    /\ Valid(s)
    /\ sessions' = [sessions EXCEPT ![s].valid = FALSE]
    /\ UNCHANGED <<users, fresh, members, browser, calls, made>>
-----------------------------------------------------------------------------
(* Answers at the browser *)

(* Mutant: an account that is there already is brought up to date.         *)
AuthAnsweredMerges(c) ==
    /\ c.kind \in {"register", "login"} /\ c.phase = "answered"
    /\ token' = c.session
    /\ account' = [user |-> c.user, node |-> c.node, name |-> c.name,
                   key |-> IF account = NoAccount THEN c.node ELSE account.key]
    /\ migrated' = (migrated \/ c.legacy)
    /\ page' = [page EXCEPT ![c.tab] = "app"]
    /\ Ends(c)
    /\ UNCHANGED <<server, made>>

(* applyAuthSession, whatever is stored; the old key counts as migrated    *)
(* after a login too, although only a registration takes it along.         *)
AuthAnswered(c) ==
    /\ c.kind \in {"register", "login"} /\ c.phase = "answered"
    /\ token' = c.session
    /\ account' = [user |-> c.user, node |-> c.node, key |-> c.node, name |-> c.name]
    /\ migrated' = (migrated \/ c.legacy)
    /\ page' = [page EXCEPT ![c.tab] = "app"]
    /\ Ends(c)
    /\ UNCHANGED <<server, made>>

(* Mutant: the profile is stored without a look at what is there.          *)
MeAnsweredAnyway(c) ==
    /\ c.kind = "me" /\ c.phase = "answered"
    /\ account' = [account EXCEPT !.user = c.user, !.node = c.node, !.name = c.name]
    /\ Ends(c)
    /\ UNCHANGED <<server, token, migrated, page, made>>

(* refreshStoredIdentityFromProfile: everything but the private key of     *)
(* the account that is stored by now.                                      *)
MeAnswered(c) ==
    /\ c.kind = "me" /\ c.phase = "answered"
    /\ account' = IF account = NoAccount THEN account
                  ELSE [account EXCEPT !.user = c.user, !.node = c.node, !.name = c.name]
    /\ Ends(c)
    /\ UNCHANGED <<server, token, migrated, page, made>>

(* saveDisplayName, into the account that is stored by now.                *)
RenameAnswered(c) ==
    /\ c.kind = "rename" /\ c.phase = "answered"
    /\ account' = IF account = NoAccount THEN account ELSE [account EXCEPT !.name = c.name]
    /\ Ends(c)
    /\ UNCHANGED <<server, token, migrated, page, made>>

(* What the server and the network do with a call, and the page with its   *)
(* answer.                                                                 *)
Progress(c) ==
    \/ CallFails(c)
    \/ RegisterCheck(c) \/ RegisterCommit(c) \/ Login(c) \/ IssueSession(c)
    \/ Me(c) \/ RenameAccount(c) \/ RenameMember(c)
    \/ AuthAnswered(c) \/ MeAnswered(c) \/ RenameAnswered(c)

Next ==
    \/ \E t \in Tabs :
        \/ \E u \in Users, n \in DisplayNames : Submit(t, "register", u, n)
        \/ \E u \in Users : Submit(t, "login", u, "")
        \/ Open(t) \/ Logout(t)
        \/ \E n \in DisplayNames : Rename(t, n)
    \/ \E c \in calls : Progress(c)
    \/ \E s \in 1..Len(sessions) : Expire(s)

Spec == Init /\ [][Next]_vars
-----------------------------------------------------------------------------
TypeOK ==
    /\ users \in [Users -> [node : Nodes, name : Names] \cup {NoUser}]
    /\ fresh \in Nat /\ \A u \in Users : users[u].node <= fresh
    /\ members \in [Users -> Names]
    /\ sessions \in Seq([user : registered, valid : BOOLEAN]) /\ Len(sessions) <= MaxSessions
    /\ token \in 0..Len(sessions)
    /\ account \in Accounts \cup {NoAccount}
    /\ migrated \in BOOLEAN
    /\ page \in [Tabs -> {"auth", "app"}]
    /\ calls \subseteq Calls /\ made \in 0..MaxCalls
    /\ \A c \in calls : c.session <= Len(sessions)

(* Registrations race for a name and, from the tabs of one browser, for    *)
(* its old key: still no node is two users', and who is answered with a    *)
(* key is answered with the key the user has and keeps.                    *)
NodesAreOwn ==
    /\ \A u, v \in registered : users[u].node = users[v].node => u = v
    /\ \A c \in calls : c.node # NoNode => users[c.user].node = c.node

(* Whatever answers come late, the private key in the browser is the one   *)
(* of the session beside it, and the account's node is its user's.         *)
KeyIsOfSession ==
    account # NoAccount =>
        /\ account.node = users[account.user].node
        /\ token # 0 /\ account.key = users[sessions[token].user].node

(* After a logout nothing that was under way brings an account back: only  *)
(* the answer of a login or a registration does.                           *)
LogoutStands ==
    [][account = NoAccount /\ account' # NoAccount =>
        \E c \in calls \ calls' : c.kind \in {"register", "login"} /\ c.phase = "answered"]_vars

(* The node a browser shows and its private key are of one account.        *)
AccountIsWhole == account.node = account.key

(* A key of the time before accounts that counts as migrated is some       *)
(* account's.                                                              *)
MigratedIsKept == migrated => \E u \in Users : users[u].node = LegacyNode
==============================================================================
