------------------------------ MODULE Accounts ------------------------------
(***************************************************************************)
(* How people get in: signing in with login.gov (pkg/auth/authentication), *)
(* the session that lives in a cookie (pkg/auth), the rows of users and of *)
(* the users of an application, which are found by e-mail and linked to    *)
(* the user on the way, the creation of a service member, and the access   *)
(* code a service member claims (pkg/services/accesscode).  A browser has  *)
(* one person, and a person one browser.                                   *)
(*                                                                         *)
(* There is no session on the server.  Every response sets the cookie of   *)
(* its application: the middleware writes back the session the request     *)
(* came with, and a handler that knows better overwrites that.  Responses  *)
(* arrive in any order.  login.gov is external; a person has one login     *)
(* there.                                                                  *)
(***************************************************************************)
EXTENDS Integers, FiniteSets

CONSTANTS
  People,
  Tabs,       \* what may have a request in progress: the tabs of browsers
  RoleApps,   \* the applications whose users need a record: "office" stands
              \* for TSP too, "admin" differs
  Visits,     \* who goes to which application
  Codes,      \* the access codes
  None

Apps == RoleApps \union {"mil"}

ASSUME AppsAssumption ==
  /\ RoleApps \subseteq {"office", "admin"}
  /\ Visits \subseteq People \X Apps

(* NULL is no id.                                                          *)
ASSUME NoneAssumption == None \notin People \union Tabs

VARIABLES
  users,      \* the people with a row in users
  members,    \* the people with a row in service_members
  record,     \* the rows of office_users and admin_users, by e-mail
  holder,     \* access_codes.service_member_id
  codeLock,   \* the tab whose transaction has the row of a code locked
  jar,        \* the session cookie of each person for each application
  login,      \* the cookie lg_state: the tab that was sent to login.gov last
  tab,        \* the requests
  told        \* the members that were answered that a code is theirs

accountsVars == <<users, members, record, holder, codeLock, jar, login, tab, told>>
rowsUnchanged == UNCHANGED <<users, members, record, holder, codeLock, told>>
cookiesUnchanged == UNCHANGED <<jar, login>>

(* A session always has the user and the token; these are its other ids.   *)
Session == [member : BOOLEAN, role : BOOLEAN]
NoIds == [member |-> FALSE, role |-> FALSE]

Record == [there : BOOLEAN, linked : BOOLEAN, disabled : BOOLEAN]

Idle == [pc |-> "idle"]
(* A request of p at application a, with the session it came with.         *)
Request(where, p, a) == [pc |-> where, person |-> p, app |-> a, session |-> jar[p][a]]

InHand(t) == tab[t].pc # "idle"

AccountsInit ==
  /\ users = {} /\ members = {}
  /\ record \in [RoleApps -> [People -> {x \in Record : ~ x.linked /\ (x.disabled => x.there)}]]
  /\ \A a \in RoleApps, p \in People : record[a][p].there => <<p, a>> \in Visits
  /\ holder = [c \in Codes |-> None]
  /\ codeLock = [c \in Codes |-> None]
  /\ jar = [p \in People |-> [a \in Apps |-> None]]
  /\ login = [p \in People |-> [a \in Apps |-> None]]
  /\ tab = [t \in Tabs |-> Idle]
  /\ told = {}

-----------------------------------------------------------------------------
(* A response with the session s in its cookie is on its way.  The state   *)
(* cookie goes with it when the callback does not belong to it.            *)
Answered(t, s) ==
  [pc |-> "answered", person |-> tab[t].person, app |-> tab[t].app, session |-> s,
   forget |-> FALSE]

Answer(t, s) == tab' = [tab EXCEPT ![t] = Answered(t, s)]

(* An error is answered with what the middleware wrote.                    *)
Refuse(t) == Answer(t, tab[t].session)

At(t, where) == tab' = [tab EXCEPT ![t].pc = where]

(* RedirectHandler.  Who is signed in is sent to the landing page.         *)
Redirect(t, p, a) ==
  /\ ~ InHand(t)
  /\ jar[p][a] = None
  /\ tab' = [tab EXCEPT ![t] = Request("redirected", p, a)]
  /\ rowsUnchanged /\ cookiesUnchanged

(* The browser follows to login.gov and takes the state cookie of this tab *)
(* along; the session cookie that came with it has nobody.                 *)
FollowRedirect(t) ==
  LET x == tab[t]
  IN  /\ x.pc = "redirected"
      /\ jar' = [jar EXCEPT ![x.person][x.app] = x.session]
      /\ login' = [login EXCEPT ![x.person][x.app] = t]
      /\ At(t, "away")
      /\ rowsUnchanged

(* login.gov sends the person back with an error: they declined.           *)
Decline(t) ==
  /\ tab[t].pc = "away"
  /\ Answer(t, jar[tab[t].person][tab[t].app])
  /\ rowsUnchanged /\ cookiesUnchanged

(* CallbackHandler compares the state with the cookie.                     *)
Callback(t) ==
  LET p == tab[t].person
      a == tab[t].app
      back == [Request("fetching", p, a) EXCEPT !.session = jar[p][a]]
  IN  /\ tab[t].pc = "away"
      /\ tab' = [tab EXCEPT ![t] =
           CASE login[p][a] = t -> back
             [] login[p][a] = None -> Answered(t, jar[p][a])
             [] OTHER -> [Answered(t, None) EXCEPT !.forget = TRUE]]
      /\ rowsUnchanged /\ cookiesUnchanged

(* FetchUserIdentity joins the user with the records linked to it.         *)
FetchUserIdentity(t) ==
  LET p == tab[t].person
  IN  /\ tab[t].pc = "fetching"
      /\ IF p \in users
           THEN tab' = [tab EXCEPT ![t] =
                  [pc |-> "known", person |-> p, app |-> tab[t].app, session |-> tab[t].session,
                   member |-> p \in members,
                   linked |-> tab[t].app # "mil" /\ record[tab[t].app][p].linked]]
           ELSE At(t, "unknown")
      /\ rowsUnchanged /\ cookiesUnchanged

(* What a session has from before, with the ids found now.                 *)
With(s, member, role) ==
  [member |-> member \/ (s # None /\ s.member), role |-> role \/ (s # None /\ s.role)]

(* authorizeKnownUser, up to the record that is to be linked.  A record    *)
(* that is not linked is looked for by e-mail, disabled or not.            *)
AuthorizeKnownUser(t) ==
  LET x == tab[t]
      r == record[x.app][x.person]
  IN  /\ x.pc = "known"
      /\ IF x.app = "mil" THEN Answer(t, With(x.session, x.member, FALSE))
         ELSE IF x.linked
           THEN IF r.disabled THEN Refuse(t) ELSE Answer(t, With(x.session, x.member, TRUE))
         ELSE IF r.there
           THEN tab' = [tab EXCEPT ![t] =
                  [pc |-> IF x.app = "admin" THEN "linkingAdmin" ELSE "linking",
                   person |-> x.person, app |-> x.app, session |-> x.session,
                   next |-> With(x.session, x.member, TRUE)]]
         ELSE Refuse(t)
      /\ rowsUnchanged /\ cookiesUnchanged

(* authorizeUnknownUser looks for the record before it creates the user.   *)
AuthorizeUnknownUser(t) ==
  LET x == tab[t]
      r == record[x.app][x.person]
  IN  /\ x.pc = "unknown"
      /\ IF x.app # "mil" /\ (~ r.there \/ r.disabled) THEN Refuse(t) ELSE At(t, "newUser")
      /\ rowsUnchanged /\ cookiesUnchanged

(* Faulty: the user is not saved, and nobody looks at the validation       *)
(* errors.                                                                 *)
CreateUserUnchecked(t) ==
  LET x == tab[t]
  IN  /\ x.pc = "newUser"
      /\ Answer(t, With(x.session, FALSE, FALSE))
      /\ rowsUnchanged /\ cookiesUnchanged

(* CreateUser: login_gov_uuid is unique, another tab may have been first.  *)
CreateUser(t) ==
  LET x == tab[t]
  IN  /\ x.pc = "newUser"
      /\ users' = users \union {x.person}
      /\ IF x.person \in users THEN Refuse(t)
         ELSE IF x.app = "mil" THEN Answer(t, With(x.session, FALSE, FALSE))
         ELSE tab' = [tab EXCEPT ![t] =
                [pc |-> "linking", person |-> x.person, app |-> x.app, session |-> x.session,
                 next |-> With(x.session, FALSE, TRUE)]]
      /\ UNCHANGED <<members, record, holder, codeLock, told>> /\ cookiesUnchanged

Link(x) == record' = [record EXCEPT ![x.app][x.person].linked = TRUE]

(* Faulty: the error of saving the record is dropped.                      *)
LinkRecordUnchecked(t) ==
  /\ tab[t].pc = "linking"
  /\ Link(tab[t]) \/ UNCHANGED record
  /\ Answer(t, tab[t].next)
  /\ UNCHANGED <<users, members, holder, codeLock, told>> /\ cookiesUnchanged

(* The record is saved with the user, then the session is written.         *)
LinkRecord(t) ==
  /\ tab[t].pc = "linking"
  /\ Link(tab[t])
  /\ Answer(t, tab[t].next)
  /\ UNCHANGED <<users, members, holder, codeLock, told>> /\ cookiesUnchanged

(* For a known administrator the validation errors are compared with nil,  *)
(* which they never are: the record is linked and the answer is an error.  *)
LinkAdminRecord(t) ==
  /\ tab[t].pc = "linkingAdmin"
  /\ Link(tab[t])
  /\ Refuse(t)
  /\ UNCHANGED <<users, members, holder, codeLock, told>> /\ cookiesUnchanged

-----------------------------------------------------------------------------
(* Any request that changes nothing.                                       *)
View(t, p, a) ==
  /\ ~ InHand(t)
  /\ jar[p][a] # None
  /\ tab' = [tab EXCEPT ![t] = [pc |-> "answered", person |-> p, app |-> a,
                                session |-> jar[p][a], forget |-> FALSE]]
  /\ rowsUnchanged /\ cookiesUnchanged

(* LogoutHandler deletes the cookie.                                       *)
Logout(t, p, a) ==
  /\ ~ InHand(t)
  /\ jar[p][a] # None
  /\ tab' = [tab EXCEPT ![t] = [pc |-> "answered", person |-> p, app |-> a,
                                session |-> None, forget |-> FALSE]]
  /\ rowsUnchanged /\ cookiesUnchanged

(* CreateServiceMemberHandler: a user may have one service member; the new *)
(* one is put into the session.                                            *)
BeginServiceMember(t, p) ==
  /\ ~ InHand(t)
  /\ jar[p]["mil"] # None
  /\ tab' = [tab EXCEPT ![t] = Request("creating", p, "mil")]
  /\ rowsUnchanged /\ cookiesUnchanged

CreateServiceMember(t) ==
  LET p == tab[t].person
  IN  /\ tab[t].pc = "creating"
      /\ members' = members \union {p}
      /\ IF p \in members THEN Refuse(t) ELSE Answer(t, With(tab[t].session, TRUE, FALSE))
      /\ UNCHANGED <<users, record, holder, codeLock, told>> /\ cookiesUnchanged

(* ClaimAccessCodeHandler asks for a service member in the session.        *)
BeginClaim(t, p, c) ==
  /\ ~ InHand(t)
  /\ jar[p]["mil"] # None
  /\ jar[p]["mil"].member
  /\ tab' = [tab EXCEPT ![t] = [pc |-> "claiming", person |-> p, app |-> "mil",
                                session |-> jar[p]["mil"], code |-> c]]
  /\ rowsUnchanged /\ cookiesUnchanged

(* Faulty: the code is read without FOR UPDATE.                            *)
FetchAccessCode(t) ==
  /\ tab[t].pc = "claiming"
  /\ IF holder[tab[t].code] # None THEN Refuse(t) ELSE At(t, "unclaimed")
  /\ rowsUnchanged /\ cookiesUnchanged

(* fetchAccessCodeForUpdate locks the row until the transaction ends.      *)
FetchAccessCodeForUpdate(t) ==
  LET c == tab[t].code
  IN  /\ tab[t].pc = "claiming"
      /\ codeLock[c] = None
      /\ IF holder[c] # None
           THEN Refuse(t) /\ UNCHANGED codeLock
           ELSE At(t, "unclaimed") /\ codeLock' = [codeLock EXCEPT ![c] = t]
      /\ UNCHANGED <<users, members, record, holder, told>> /\ cookiesUnchanged

(* The code is saved with its service member; the answer says so.          *)
ClaimAccessCode(t) ==
  LET x == tab[t]
  IN  /\ x.pc = "unclaimed"
      /\ holder' = [holder EXCEPT ![x.code] = x.person]
      /\ codeLock' = [codeLock EXCEPT ![x.code] = None]
      /\ told' = told \union {<<x.code, x.person>>}
      /\ Refuse(t)
      /\ UNCHANGED <<users, members, record>> /\ cookiesUnchanged

-----------------------------------------------------------------------------
(* The response reaches the browser.                                       *)
Arrive(t) ==
  LET x == tab[t]
  IN  /\ x.pc = "answered"
      /\ jar' = [jar EXCEPT ![x.person][x.app] = x.session]
      /\ login' = [login EXCEPT ![x.person][x.app] = IF x.forget THEN None ELSE @]
      /\ tab' = [tab EXCEPT ![t] = Idle]
      /\ rowsUnchanged

Unlocked(t) == [c \in Codes |-> IF codeLock[c] = t THEN None ELSE codeLock[c]]

(* A call to login.gov or to the database fails and is answered with an    *)
(* error; what was committed before stays.                                 *)
Error(t) ==
  /\ tab[t].pc \in {"fetching", "known", "unknown", "newUser", "linking", "linkingAdmin",
                    "creating", "claiming", "unclaimed"}
  /\ codeLock' = Unlocked(t)
  /\ Refuse(t)
  /\ UNCHANGED <<users, members, record, holder, told>> /\ cookiesUnchanged

(* The response is lost or its tab is closed, or the server restarts and   *)
(* the transaction of the request is rolled back.                          *)
Lose(t) ==
  /\ InHand(t)
  /\ codeLock' = Unlocked(t)
  /\ tab' = [tab EXCEPT ![t] = Idle]
  /\ UNCHANGED <<users, members, record, holder, told>> /\ cookiesUnchanged

(* A cookie that was not written for a quarter of an hour is gone.         *)
Expire(p, a) ==
  /\ jar[p][a] # None
  /\ jar' = [jar EXCEPT ![p][a] = None]
  /\ rowsUnchanged /\ UNCHANGED <<login, tab>>

(* "In case they managed to login before the office_user record was        *)
(* created": records come with migrations.                                 *)
AddRecord(p, a) ==
  /\ ~ record[a][p].there
  /\ record' = [record EXCEPT ![a][p].there = TRUE]
  /\ UNCHANGED <<users, members, holder, codeLock, told, tab>> /\ cookiesUnchanged

SignIn(t) ==
  \/ FollowRedirect(t) \/ Callback(t) \/ FetchUserIdentity(t)
  \/ AuthorizeKnownUser(t) \/ AuthorizeUnknownUser(t) \/ CreateUser(t) \/ LinkRecord(t) \/ LinkAdminRecord(t)

Serve(t) ==
  \/ SignIn(t) \/ CreateServiceMember(t)
  \/ FetchAccessCodeForUpdate(t) \/ ClaimAccessCode(t)
  \/ Arrive(t)

Ask(t, p) ==
  \/ \E a \in {a \in Apps : <<p, a>> \in Visits} :
       Redirect(t, p, a) \/ View(t, p, a) \/ Logout(t, p, a)
  \/ BeginServiceMember(t, p)
  \/ \E c \in Codes : BeginClaim(t, p, c)

AccountsNext ==
  \/ \E t \in Tabs : Serve(t) \/ Decline(t) \/ Error(t) \/ Lose(t) \/ \E p \in People : Ask(t, p)
  \/ \E p \in People : \/ \E a \in Apps : Expire(p, a)
                       \/ \E a \in {a \in RoleApps : <<p, a>> \in Visits} : AddRecord(p, a)

AccountsSpec == AccountsInit /\ [][AccountsNext]_accountsVars

-----------------------------------------------------------------------------
AccountsTypeOK ==
  /\ users \subseteq People /\ members \subseteq users
  /\ record \in [RoleApps -> [People -> Record]]
  /\ holder \in [Codes -> People \union {None}]
  /\ codeLock \in [Codes -> Tabs \union {None}]
  /\ jar \in [People -> [Apps -> Session \union {None}]]
  /\ login \in [People -> [Apps -> Tabs \union {None}]]
  /\ told \subseteq Codes \X People

(* What a session says of p at application a is in the database.           *)
Backed(p, a, s) ==
  s # None =>
    /\ p \in users
    /\ s.member => p \in members
    /\ s.role => a # "mil" /\ record[a][p].linked

(* A session never names a row that is not there: whatever statement fails *)
(* between the creation of the user and the cookie, and whatever response  *)
(* overwrites the cookie, the ids of every session in a browser or on the  *)
(* way to one are of a user, a service member and a linked record that are *)
(* committed.  Handlers use the ids without looking them up again.         *)
CookieIsBacked ==
  /\ \A p \in People, a \in Apps : Backed(p, a, jar[p][a])
  /\ \A t \in Tabs :
       tab[t].pc = "answered" => Backed(tab[t].person, tab[t].app, tab[t].session)

(* A service member who was answered that a code is theirs keeps it, though*)
(* another claims it at the same time: claimAccessCode reads the code with *)
(* FOR UPDATE and saves the whole row.                                     *)
CodesAreKept == \A x \in told : holder[x[1]] = x[2]
=============================================================================
