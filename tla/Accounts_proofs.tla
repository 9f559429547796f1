--------------------------- MODULE Accounts_proofs ---------------------------
(***************************************************************************)
(* That sessions name only rows that are committed, and that an access     *)
(* code stays with who was told to have it, for any number of people,      *)
(* tabs, applications and codes.  The ideas: users, service members and    *)
(* links are only ever added, so that what a request found out at any      *)
(* time stays true; and a request that saves a code has had its row locked *)
(* since it found it without a holder.                                     *)
(***************************************************************************)
EXTENDS Accounts, TLAPS

Sessions == Session \union {None}

(* The shapes of a request, by its step.                                   *)
Asking == [pc : {"redirected", "away", "fetching", "unknown", "newUser", "creating"},
           person : People, app : Apps, session : Sessions]
Found == [pc : {"known"}, person : People, app : Apps, session : Sessions,
          member : BOOLEAN, linked : BOOLEAN]
Linking == [pc : {"linking", "linkingAdmin"}, person : People, app : RoleApps,
            session : Sessions, next : Session]
Claiming == [pc : {"claiming", "unclaimed"}, person : People, app : {"mil"},
             session : Sessions, code : Codes]
Answering == [pc : {"answered"}, person : People, app : Apps, session : Sessions,
              forget : BOOLEAN]
Progress == {Idle} \union Asking \union Found \union Linking \union Claiming \union Answering

Records == [RoleApps -> [People -> Record]]
Jars == [People -> [Apps -> Sessions]]
Logins == [People -> [Apps -> Tabs \union {None}]]

Typed ==
  /\ users \subseteq People /\ members \subseteq users
  /\ record \in Records
  /\ holder \in [Codes -> People \union {None}]
  /\ codeLock \in [Codes -> Tabs \union {None}]
  /\ jar \in Jars
  /\ login \in Logins
  /\ told \subseteq Codes \X People
  /\ tab \in [Tabs -> Progress]

(* Backed, of any rows.                                                    *)
Backs(us, ms, rec, p, a, s) ==
  s # None =>
    /\ p \in us
    /\ s.member => p \in ms
    /\ s.role => a # "mil" /\ rec[a][p].linked

(* What a request holds is in the rows; the role it is about to write in   *)
(* its session is not, before the record is linked.                        *)
SoundTab(x, us, ms, rec) ==
  /\ x.pc # "idle" => Backs(us, ms, rec, x.person, x.app, x.session)
  /\ x.pc = "known" =>
       /\ x.person \in us
       /\ x.member => x.person \in ms
       /\ x.linked => x.app # "mil" /\ rec[x.app][x.person].linked
  /\ x.pc \in {"linking", "linkingAdmin"} =>
       /\ x.person \in us
       /\ x.next.member => x.person \in ms
  /\ x.pc = "creating" => x.session # None

SoundJars(cookies, us, ms, rec) ==
  \A p \in People, a \in Apps : Backs(us, ms, rec, p, a, cookies[p][a])

(* A request that will save a code has its row locked, and nobody has it.  *)
Locked(x, t, locks, holders) ==
  x.pc = "unclaimed" => locks[x.code] = t /\ holders[x.code] = None

(* The inductive invariant.                                                *)
Inv ==
  /\ Typed
  /\ SoundJars(jar, users, members, record)
  /\ \A t \in Tabs : SoundTab(tab[t], users, members, record)
  /\ \A t \in Tabs : Locked(tab[t], t, codeLock, holder)
  /\ CodesAreKept
-----------------------------------------------------------------------------
(* Requests and sessions.                                                  *)

LEMMA Shapes ==
  ASSUME NEW x \in Progress
  PROVE  /\ x.pc = "idle" \/ (x.person \in People /\ x.app \in Apps /\ x.session \in Sessions)
         /\ x.pc \in {"redirected", "away", "fetching", "unknown", "newUser", "creating"}
              => x \in Asking
         /\ x.pc = "known" => x \in Found
         /\ x.pc \in {"linking", "linkingAdmin"} => x \in Linking
         /\ x.pc \in {"claiming", "unclaimed"} => x \in Claiming
         /\ x.pc = "answered" => x \in Answering
<1>1. CASE x = Idle  BY <1>1 DEF Idle
<1>2. CASE x \in Asking  BY <1>2 DEF Asking
<1>3. CASE x \in Found  BY <1>3 DEF Found
<1>4. CASE x \in Linking  BY <1>4 DEF Linking, Apps
<1>5. CASE x \in Claiming  BY <1>5 DEF Claiming, Apps
<1>6. CASE x \in Answering  BY <1>6 DEF Answering
<1> QED  BY <1>1, <1>2, <1>3, <1>4, <1>5, <1>6 DEF Progress

LEMMA IdleShape == Idle \in Progress /\ Idle.pc = "idle"
BY DEF Idle, Progress

(* What holds of every request in hand.                                    *)
LEMMA InTab ==
  ASSUME Inv, NEW t \in Tabs
  PROVE  /\ tab[t] \in Progress
         /\ SoundTab(tab[t], users, members, record)
         /\ Locked(tab[t], t, codeLock, holder)
         /\ tab[t].pc # "idle" =>
              /\ tab[t].person \in People /\ tab[t].app \in Apps /\ tab[t].session \in Sessions
              /\ Backs(users, members, record, tab[t].person, tab[t].app, tab[t].session)
<1>1. tab[t] \in Progress  BY DEF Inv, Typed
<1>2. SoundTab(tab[t], users, members, record)  BY DEF Inv
<1>3. Locked(tab[t], t, codeLock, holder)  BY DEF Inv
<1> QED  BY <1>1, <1>2, <1>3, Shapes DEF SoundTab

LEMMA InJar ==
  ASSUME Inv, NEW p \in People, NEW a \in Apps
  PROVE  jar[p][a] \in Sessions /\ Backs(users, members, record, p, a, jar[p][a])
BY DEF Inv, Typed, Jars, SoundJars

LEMMA WithBacked ==
  ASSUME NEW us, NEW ms, NEW rec, NEW p, NEW a, NEW s \in Sessions,
         Backs(us, ms, rec, p, a, s), p \in us,
         NEW member \in BOOLEAN, member => p \in ms,
         NEW role \in BOOLEAN, role => a # "mil" /\ rec[a][p].linked
  PROVE  With(s, member, role) \in Session /\ Backs(us, ms, rec, p, a, With(s, member, role))
<1> DEFINE m == member \/ (s # None /\ s.member)
           o == role \/ (s # None /\ s.role)
<1>1. s # None => s.member \in BOOLEAN /\ s.role \in BOOLEAN  BY DEF Sessions, Session
<1>2. m \in BOOLEAN /\ o \in BOOLEAN  BY <1>1
<1>3. m => p \in ms  BY DEF Backs
<1>4. o => a # "mil" /\ rec[a][p].linked  BY DEF Backs
<1>5. With(s, member, role) = [member |-> m, role |-> o]  BY DEF With
<1> HIDE DEF m, o
<1> QED  BY <1>2, <1>3, <1>4, <1>5 DEF Backs, Session

(* An answer to a request.                                                 *)
LEMMA AnsweredSound ==
  ASSUME NEW p \in People, NEW a \in Apps, NEW s \in Sessions, NEW forget \in BOOLEAN,
         NEW us, NEW ms, NEW rec, Backs(us, ms, rec, p, a, s)
  PROVE  LET x == [pc |-> "answered", person |-> p, app |-> a, session |-> s,
                   forget |-> forget]
         IN  x \in Progress /\ SoundTab(x, us, ms, rec) /\ x.pc = "answered"
BY DEF Progress, Answering, SoundTab
-----------------------------------------------------------------------------
(* Rows.                                                                   *)

(* Users, service members and links are added, and nothing is taken away.  *)
Grow(us, ms, rec, us2, ms2, rec2) ==
  /\ us \subseteq us2 /\ ms \subseteq ms2
  /\ \A a \in RoleApps, p \in People : rec[a][p].linked => rec2[a][p].linked

LEMMA BacksStill ==
  ASSUME NEW us, NEW ms, NEW rec, NEW us2, NEW ms2, NEW rec2,
         Grow(us, ms, rec, us2, ms2, rec2),
         NEW p \in People, NEW a \in Apps, NEW s, Backs(us, ms, rec, p, a, s)
  PROVE  Backs(us2, ms2, rec2, p, a, s)
BY DEF Backs, Grow, Apps

LEMMA SoundStill ==
  ASSUME NEW us, NEW ms, NEW rec, NEW us2, NEW ms2, NEW rec2,
         Grow(us, ms, rec, us2, ms2, rec2),
         NEW x \in Progress, SoundTab(x, us, ms, rec)
  PROVE  SoundTab(x, us2, ms2, rec2)
<1>1. x.pc # "idle" => x.person \in People /\ x.app \in Apps  BY Shapes
<1>2. x.pc # "idle" => Backs(us2, ms2, rec2, x.person, x.app, x.session)
  BY <1>1, BacksStill DEF SoundTab
<1>3. x.pc = "known" =>
        /\ x.person \in us2
        /\ x.member => x.person \in ms2
        /\ x.linked => x.app # "mil" /\ rec2[x.app][x.person].linked
  BY <1>1 DEF SoundTab, Grow, Apps
<1>4. x.pc \in {"linking", "linkingAdmin"} =>
        x.person \in us2 /\ (x.next.member => x.person \in ms2)
  BY DEF SoundTab, Grow
<1> QED  BY <1>2, <1>3, <1>4 DEF SoundTab
-----------------------------------------------------------------------------
(* Steps.                                                                  *)

(* Rows grow, and t goes on with x, which is not at a code.                *)
LEMMA TabStep ==
  ASSUME Inv, UNCHANGED <<jar, login, holder, codeLock, told>>,
         users' \subseteq People, members' \subseteq users', record' \in Records,
         Grow(users, members, record, users', members', record'),
         NEW t \in Tabs, NEW x \in Progress, tab' = [tab EXCEPT ![t] = x],
         x.pc # "unclaimed", SoundTab(x, users', members', record')
  PROVE  Inv'
<1>1. tab \in [Tabs -> Progress] /\ tab'[t] = x /\ \A u \in Tabs \ {t} : tab'[u] = tab[u]
  BY DEF Inv, Typed
<1>2. Typed'
  <2>1. tab' \in [Tabs -> Progress]  BY <1>1
  <2> QED  BY <2>1 DEF Inv, Typed
<1>3. SoundJars(jar', users', members', record')
  <2>1. \A p \in People, a \in Apps : Backs(users', members', record', p, a, jar[p][a])
    BY InJar, BacksStill
  <2> QED  BY <2>1 DEF SoundJars
<1>4. ASSUME NEW u \in Tabs PROVE SoundTab(tab'[u], users', members', record')
  <2>1. tab[u] \in Progress /\ SoundTab(tab[u], users, members, record)  BY InTab
  <2>2. SoundTab(tab[u], users', members', record')  BY <2>1, SoundStill
  <2> QED  BY <1>1, <2>2
<1>5. ASSUME NEW u \in Tabs PROVE Locked(tab'[u], u, codeLock', holder')
  <2>1. Locked(tab[u], u, codeLock, holder)  BY InTab
  <2> QED  BY <1>1, <2>1 DEF Locked
<1>6. CodesAreKept'  BY DEF Inv, CodesAreKept
<1> QED  BY <1>2, <1>3, <1>4, <1>5, <1>6 DEF Inv

LEMMA RowsStay ==
  ASSUME Inv, rowsUnchanged
  PROVE  /\ UNCHANGED <<users, members, record, holder, codeLock, told>>
         /\ users' \subseteq People /\ members' \subseteq users' /\ record' \in Records
         /\ Grow(users, members, record, users', members', record')
BY DEF rowsUnchanged, Inv, Typed, Grow

(* t goes on and no row changes.                                           *)
LEMMA QuietStep ==
  ASSUME Inv, rowsUnchanged, cookiesUnchanged,
         NEW t \in Tabs, NEW x \in Progress, tab' = [tab EXCEPT ![t] = x],
         x.pc # "unclaimed", SoundTab(x, users, members, record)
  PROVE  Inv'
<1>1. UNCHANGED <<jar, login>>  BY DEF cookiesUnchanged
<1>2. SoundTab(x, users', members', record')
  BY RowsStay
<1> QED  BY <1>1, <1>2, RowsStay, TabStep

(* t is answered with a session that is backed by then.                    *)
LEMMA AnswerStep ==
  ASSUME Inv, UNCHANGED <<jar, login, holder, codeLock, told>>,
         users' \subseteq People, members' \subseteq users', record' \in Records,
         Grow(users, members, record, users', members', record'),
         NEW t \in Tabs, tab[t].pc # "idle", NEW s \in Sessions, Answer(t, s),
         Backs(users', members', record', tab[t].person, tab[t].app, s)
  PROVE  Inv'
<1> DEFINE x == [pc |-> "answered", person |-> tab[t].person, app |-> tab[t].app,
                 session |-> s, forget |-> FALSE]
<1>1. tab' = [tab EXCEPT ![t] = x]  BY DEF Answer, Answered
<1>2. tab[t].person \in People /\ tab[t].app \in Apps  BY InTab
<1>3. x \in Progress /\ SoundTab(x, users', members', record') /\ x.pc = "answered"
  BY <1>2, AnsweredSound
<1> HIDE DEF x
<1> QED  BY <1>1, <1>3, TabStep

(* t is answered with the session it came with.                            *)
LEMMA RefuseStep ==
  ASSUME Inv, UNCHANGED <<jar, login, holder, codeLock, told>>,
         users' \subseteq People, members' \subseteq users', record' \in Records,
         Grow(users, members, record, users', members', record'),
         NEW t \in Tabs, tab[t].pc # "idle", Refuse(t)
  PROVE  Inv'
<1>1. /\ tab[t].person \in People /\ tab[t].app \in Apps /\ tab[t].session \in Sessions
      /\ Backs(users, members, record, tab[t].person, tab[t].app, tab[t].session)
  BY InTab
<1>2. Backs(users', members', record', tab[t].person, tab[t].app, tab[t].session)
  BY <1>1, BacksStill
<1>3. Answer(t, tab[t].session)  BY DEF Refuse
<1> QED  BY <1>1, <1>2, <1>3, AnswerStep
-----------------------------------------------------------------------------
(* Signing in.                                                             *)

(* A request is made, with the session in the jar.                         *)
LEMMA RequestSound ==
  ASSUME Inv, rowsUnchanged, cookiesUnchanged, NEW t \in Tabs, NEW p \in People,
         NEW a \in Apps, NEW where \in {"redirected", "creating"},
         where = "creating" => jar[p][a] # None,
         tab' = [tab EXCEPT ![t] = Request(where, p, a)]
  PROVE  Inv'
<1> DEFINE x == [pc |-> where, person |-> p, app |-> a, session |-> jar[p][a]]
<1>1. tab' = [tab EXCEPT ![t] = x]  BY DEF Request
<1>2. jar[p][a] \in Sessions /\ Backs(users, members, record, p, a, jar[p][a])  BY InJar
<1>3. x \in Progress  BY <1>2 DEF Progress, Asking
<1>4. /\ x.pc = where /\ x.person = p /\ x.app = a /\ x.session = jar[p][a]  OBVIOUS
<1> HIDE DEF x
<1>5. SoundTab(x, users, members, record)  BY <1>2, <1>4 DEF SoundTab
<1>6. x.pc # "unclaimed"  BY <1>4
<1> QED  BY <1>1, <1>3, <1>5, <1>6, QuietStep

LEMMA RedirectSound ==
  ASSUME Inv, NEW t \in Tabs, NEW p \in People, NEW a \in Apps, Redirect(t, p, a)
  PROVE  Inv'
<1>1. "redirected" \in {"redirected", "creating"} /\ "redirected" # "creating"  OBVIOUS
<1> QED  BY <1>1, RequestSound DEF Redirect

(* A request goes on with nothing but its step changed.                    *)
LEMMA AtStep ==
  ASSUME Inv, NEW t \in Tabs, At(t, "away") \/ At(t, "unknown") \/ At(t, "newUser"),
         tab[t].pc \in {"redirected", "fetching", "unknown"}
  PROVE  \E x \in Progress : /\ tab' = [tab EXCEPT ![t] = x]
                             /\ x.pc \in {"away", "unknown", "newUser"}
                             /\ x.person = tab[t].person /\ x.app = tab[t].app
                             /\ SoundTab(x, users, members, record)
<1>1. PICK where \in {"away", "unknown", "newUser"} : At(t, where)  OBVIOUS
<1> DEFINE x == [tab[t] EXCEPT !.pc = where]
<1>2. tab' = [tab EXCEPT ![t] = x]  BY <1>1 DEF At
<1>3. tab[t] \in Asking  BY InTab, Shapes
<1>4. /\ x \in Asking /\ x.pc = where /\ x.person = tab[t].person /\ x.app = tab[t].app
      /\ x.session = tab[t].session
  BY <1>3 DEF Asking
<1>5. tab[t].pc # "idle" /\ where # "idle"  OBVIOUS
<1>6. Backs(users, members, record, tab[t].person, tab[t].app, tab[t].session)
  BY <1>5, InTab
<1> HIDE DEF x
<1>7. SoundTab(x, users, members, record)  BY <1>4, <1>6 DEF SoundTab
<1>8. x \in Progress  BY <1>4 DEF Progress
<1> QED  BY <1>2, <1>4, <1>7, <1>8

LEMMA FollowSound ==
  ASSUME Inv, NEW t \in Tabs, FollowRedirect(t)
  PROVE  Inv'
<1> DEFINE p == tab[t].person
           a == tab[t].app
           s == tab[t].session
<1>1. /\ tab[t].pc = "redirected" /\ jar' = [jar EXCEPT ![p][a] = s]
      /\ login' = [login EXCEPT ![p][a] = t] /\ At(t, "away") /\ rowsUnchanged
  BY DEF FollowRedirect
<1>2. /\ p \in People /\ a \in Apps /\ s \in Sessions
      /\ Backs(users, members, record, p, a, s)
  BY <1>1, InTab
<1>3. PICK x \in Progress : /\ tab' = [tab EXCEPT ![t] = x]
                            /\ x.pc \in {"away", "unknown", "newUser"}
                            /\ SoundTab(x, users, members, record)
  BY <1>1, AtStep
<1> HIDE DEF p, a, s
<1>4. UNCHANGED <<users, members, record, holder, codeLock, told>>  BY <1>1 DEF rowsUnchanged
<1>5. jar' \in Jars /\ login' \in Logins
  BY <1>1, <1>2 DEF Inv, Typed, Jars, Logins
<1>6. /\ tab' \in [Tabs -> Progress] /\ tab'[t] = x
      /\ \A u \in Tabs \ {t} : tab'[u] = tab[u]
  BY <1>3 DEF Inv, Typed
<1>7. Typed'  BY <1>4, <1>5, <1>6 DEF Inv, Typed
<1>8. SoundJars(jar', users, members, record)
  BY <1>1, <1>2, InJar DEF SoundJars, Inv, Typed, Jars
<1>9. \A u \in Tabs : SoundTab(tab'[u], users, members, record)  BY <1>3, <1>6, InTab
<1>10. \A u \in Tabs : Locked(tab'[u], u, codeLock, holder)
  BY <1>3, <1>6, InTab DEF Locked
<1>11. CodesAreKept'  BY <1>4 DEF Inv, CodesAreKept
<1> QED  BY <1>4, <1>7, <1>8, <1>9, <1>10, <1>11 DEF Inv

LEMMA DeclineSound ==
  ASSUME Inv, NEW t \in Tabs, Decline(t)
  PROVE  Inv'
<1>1. /\ tab[t].pc = "away" /\ Answer(t, jar[tab[t].person][tab[t].app])
      /\ rowsUnchanged /\ UNCHANGED <<jar, login>>
  BY DEF Decline, cookiesUnchanged
<1>2. tab[t].person \in People /\ tab[t].app \in Apps /\ tab[t].pc # "idle"  BY <1>1, InTab
<1>3. /\ jar[tab[t].person][tab[t].app] \in Sessions
      /\ Backs(users, members, record, tab[t].person, tab[t].app,
               jar[tab[t].person][tab[t].app])
  BY <1>2, InJar
<1>4. Backs(users', members', record', tab[t].person, tab[t].app,
            jar[tab[t].person][tab[t].app])
  BY <1>1, <1>3, RowsStay
<1> QED  BY <1>1, <1>2, <1>3, <1>4, RowsStay, AnswerStep

LEMMA CallbackSound ==
  ASSUME Inv, NEW t \in Tabs, Callback(t)
  PROVE  Inv'
<1> DEFINE p == tab[t].person
           a == tab[t].app
           s == jar[p][a]
           back == [pc |-> "fetching", person |-> p, app |-> a, session |-> s]
           answer == [pc |-> "answered", person |-> p, app |-> a, session |-> s,
                      forget |-> FALSE]
           reset == [pc |-> "answered", person |-> p, app |-> a, session |-> None,
                     forget |-> TRUE]
<1>1. tab[t].pc = "away" /\ rowsUnchanged /\ cookiesUnchanged  BY DEF Callback
<1>2. \/ tab' = [tab EXCEPT ![t] = back]
      \/ tab' = [tab EXCEPT ![t] = answer]
      \/ tab' = [tab EXCEPT ![t] = reset]
  <2>1. [Request("fetching", p, a) EXCEPT !.session = jar[p][a]] = back  BY DEF Request
  <2>2. Answered(t, jar[p][a]) = answer  BY DEF Answered
  <2>3. [Answered(t, None) EXCEPT !.forget = TRUE] = reset
    <3> DEFINE R == [pc : {"answered"}, person : {p}, app : {a}, session : {None},
                     forget : BOOLEAN]
               e == [Answered(t, None) EXCEPT !.forget = TRUE]
    <3>1. Answered(t, None) \in R  BY DEF Answered
    <3>2. e \in R /\ e.forget = TRUE  BY <3>1
    <3>3. reset \in R /\ reset.forget = TRUE  OBVIOUS
    <3> HIDE DEF e, reset
    <3>4. e = reset  BY <3>2, <3>3
    <3> QED  BY <3>4 DEF e
  <2>4. CASE login[p][a] = t
    <3>1. tab' = [tab EXCEPT ![t] = [Request("fetching", p, a) EXCEPT !.session = jar[p][a]]]
      BY <2>4, NoneAssumption DEF Callback
    <3> QED  BY <2>1, <3>1
  <2>5. CASE login[p][a] # t /\ login[p][a] = None
    <3>1. tab' = [tab EXCEPT ![t] = Answered(t, jar[p][a])]  BY <2>5 DEF Callback
    <3> QED  BY <2>2, <3>1
  <2>6. CASE login[p][a] # t /\ login[p][a] # None
    <3>1. tab' = [tab EXCEPT ![t] = [Answered(t, None) EXCEPT !.forget = TRUE]]
      BY <2>6 DEF Callback
    <3> QED  BY <2>3, <3>1
  <2> QED  BY <2>4, <2>5, <2>6
<1>3. p \in People /\ a \in Apps  BY <1>1, InTab
<1>4. s \in Sessions /\ Backs(users, members, record, p, a, s)  BY <1>3, InJar
<1> HIDE DEF p, a, s
<1>5. back \in Progress /\ SoundTab(back, users, members, record) /\ back.pc # "unclaimed"
  BY <1>3, <1>4 DEF Progress, Asking, SoundTab
<1>6. answer \in Progress /\ SoundTab(answer, users, members, record) /\ answer.pc # "unclaimed"
  BY <1>3, <1>4, AnsweredSound
<1>7. reset \in Progress /\ SoundTab(reset, users, members, record) /\ reset.pc # "unclaimed"
  <2>1. None \in Sessions /\ Backs(users, members, record, p, a, None)  BY DEF Sessions, Backs
  <2> QED  BY <1>3, <2>1, AnsweredSound
<1> HIDE DEF back, answer, reset
<1> QED  BY <1>1, <1>2, <1>5, <1>6, <1>7, QuietStep

LEMMA FetchIdentitySound ==
  ASSUME Inv, NEW t \in Tabs, FetchUserIdentity(t)
  PROVE  Inv'
<1> DEFINE p == tab[t].person
           a == tab[t].app
           s == tab[t].session
           linked == a # "mil" /\ record[a][p].linked
           x == [pc |-> "known", person |-> p, app |-> a, session |-> s,
                 member |-> p \in members, linked |-> linked]
<1>1. tab[t].pc = "fetching" /\ rowsUnchanged /\ cookiesUnchanged  BY DEF FetchUserIdentity
<1>2. /\ p \in People /\ a \in Apps /\ s \in Sessions
      /\ Backs(users, members, record, p, a, s)
  BY <1>1, InTab
<1>3. CASE p \in users
  <2>1. tab' = [tab EXCEPT ![t] = x]  BY <1>3 DEF FetchUserIdentity
  <2>2. linked \in BOOLEAN
    <3>1. a # "mil" => record[a][p] \in Record  BY <1>2 DEF Apps, Inv, Typed, Records
    <3> QED  BY <3>1 DEF Record
  <2>3. linked => a # "mil" /\ record[a][p].linked  OBVIOUS
  <2> HIDE DEF linked, p, a, s
  <2>4. x \in Found  BY <1>2, <2>2 DEF Found
  <2>5. /\ x.pc = "known" /\ x.person = p /\ x.app = a /\ x.session = s
        /\ x.member = (p \in members) /\ x.linked = linked
    OBVIOUS
  <2> HIDE DEF x
  <2>6. SoundTab(x, users, members, record)  BY <1>2, <1>3, <2>3, <2>5 DEF SoundTab
  <2>7. x \in Progress  BY <2>4 DEF Progress
  <2> QED  BY <1>1, <2>1, <2>5, <2>6, <2>7, QuietStep
<1>4. CASE p \notin users
  <2>1. At(t, "unknown")  BY <1>4 DEF FetchUserIdentity
  <2>2. PICK x1 \in Progress : /\ tab' = [tab EXCEPT ![t] = x1]
                               /\ x1.pc \in {"away", "unknown", "newUser"}
                               /\ SoundTab(x1, users, members, record)
    BY <1>1, <2>1, AtStep
  <2> QED  BY <1>1, <2>2, QuietStep
<1> QED  BY <1>3, <1>4

LEMMA AuthorizeUnknownSound ==
  ASSUME Inv, NEW t \in Tabs, AuthorizeUnknownUser(t)
  PROVE  Inv'
<1>1. tab[t].pc = "unknown" /\ rowsUnchanged /\ cookiesUnchanged /\ UNCHANGED <<jar, login>>
  BY DEF AuthorizeUnknownUser, cookiesUnchanged
<1>2. CASE Refuse(t)  BY <1>1, <1>2, RowsStay, RefuseStep
<1>3. CASE At(t, "newUser")
  <2>1. PICK x \in Progress : /\ tab' = [tab EXCEPT ![t] = x]
                              /\ x.pc \in {"away", "unknown", "newUser"}
                              /\ SoundTab(x, users, members, record)
    BY <1>1, <1>3, AtStep
  <2> QED  BY <1>1, <2>1, QuietStep
<1> QED  BY <1>2, <1>3 DEF AuthorizeUnknownUser

LEMMA AuthorizeKnownSound ==
  ASSUME Inv, NEW t \in Tabs, AuthorizeKnownUser(t)
  PROVE  Inv'
<1> DEFINE p == tab[t].person
           a == tab[t].app
           s == tab[t].session
           member == tab[t].member
<1>1. tab[t].pc = "known" /\ rowsUnchanged /\ cookiesUnchanged /\ UNCHANGED <<jar, login>>
  BY DEF AuthorizeKnownUser, cookiesUnchanged
<1>2. tab[t].pc # "idle"  BY <1>1
<1>3. /\ p \in People /\ a \in Apps /\ s \in Sessions
      /\ Backs(users, members, record, p, a, s)
  BY <1>2, InTab
<1>4. tab[t] \in Found  BY <1>1, InTab, Shapes
<1>5. member \in BOOLEAN  BY <1>4 DEF Found
<1>6. /\ p \in users /\ (member => p \in members)
      /\ tab[t].linked => a # "mil" /\ record[a][p].linked
  BY <1>1, InTab DEF SoundTab
<1>7. CASE Refuse(t)  BY <1>1, <1>2, <1>7, RowsStay, RefuseStep
<1>8. ASSUME NEW role \in BOOLEAN, Answer(t, With(s, member, role)),
             role => a # "mil" /\ record[a][p].linked
      PROVE  Inv'
  <2> DEFINE next == With(s, member, role)
  <2>1. next \in Session /\ Backs(users, members, record, p, a, next)
    <3> HIDE DEF p, a, s, member
    <3> QED  BY <1>3, <1>5, <1>6, <1>8, WithBacked
  <2>2. Answer(t, next)  BY <1>8
  <2> HIDE DEF next
  <2>3. next \in Sessions /\ Backs(users', members', record', p, a, next)
    BY <1>1, <2>1, RowsStay DEF Sessions
  <2> QED  BY <1>1, <1>2, <2>2, <2>3, RowsStay, AnswerStep
<1>9. ASSUME NEW where \in {"linking", "linkingAdmin"}, a # "mil",
             tab' = [tab EXCEPT ![t] = [pc |-> where, person |-> p, app |-> a, session |-> s,
                                        next |-> With(s, member, TRUE)]]
      PROVE  Inv'
  <2> DEFINE next == With(s, member, TRUE)
             x == [pc |-> where, person |-> p, app |-> a, session |-> s, next |-> next]
  <2>1. next \in Session /\ (next.member => p \in members)
    <3> HIDE DEF p, a
    <3>1. s # None => s.member \in BOOLEAN /\ s.role \in BOOLEAN
      BY <1>3 DEF Sessions, Session
    <3>2. (s # None /\ s.member) => p \in members  BY <1>3 DEF Backs
    <3> QED  BY <1>5, <1>6, <3>1, <3>2 DEF With, Session
  <2>2. tab' = [tab EXCEPT ![t] = x]  BY <1>9
  <2>3. a \in RoleApps  BY <1>3, <1>9 DEF Apps
  <2> HIDE DEF next, p, a, s
  <2>4. x \in Linking  BY <1>3, <2>1, <2>3 DEF Linking
  <2>5. x.pc = where /\ x.person = p /\ x.app = a /\ x.session = s /\ x.next = next
    OBVIOUS
  <2> HIDE DEF x
  <2>6. SoundTab(x, users, members, record)  BY <1>3, <1>6, <2>1, <2>5 DEF SoundTab
  <2>7. x \in Progress /\ x.pc # "unclaimed"  BY <2>4, <2>5 DEF Progress
  <2> QED  BY <1>1, <2>2, <2>6, <2>7, QuietStep
<1>10. CASE a = "mil"
  <2>1. Answer(t, With(s, member, FALSE))  BY <1>10 DEF AuthorizeKnownUser
  <2> QED  BY <1>8, <2>1
<1>11. CASE a # "mil" /\ tab[t].linked /\ ~ Refuse(t)
  <2>1. Answer(t, With(s, member, TRUE))  BY <1>11 DEF AuthorizeKnownUser
  <2> QED  BY <1>6, <1>8, <1>11, <2>1
<1>12. CASE a # "mil" /\ ~ tab[t].linked /\ ~ Refuse(t)
  <2>1. \/ tab' = [tab EXCEPT ![t] = [pc |-> "linking", person |-> p, app |-> a,
                                      session |-> s, next |-> With(s, member, TRUE)]]
        \/ tab' = [tab EXCEPT ![t] = [pc |-> "linkingAdmin", person |-> p, app |-> a,
                                      session |-> s, next |-> With(s, member, TRUE)]]
    <3>1. tab' = [tab EXCEPT ![t] = [pc |-> IF a = "admin" THEN "linkingAdmin" ELSE "linking",
                                     person |-> p, app |-> a, session |-> s,
                                     next |-> With(s, member, TRUE)]]
      BY <1>12 DEF AuthorizeKnownUser
    <3> QED  BY <3>1
  <2> QED  BY <1>9, <1>12, <2>1
<1> QED  BY <1>7, <1>10, <1>11, <1>12

LEMMA CreateUserSound ==
  ASSUME Inv, NEW t \in Tabs, CreateUser(t)
  PROVE  Inv'
<1> DEFINE p == tab[t].person
           a == tab[t].app
           s == tab[t].session
<1>1. /\ tab[t].pc = "newUser" /\ users' = users \union {p}
      /\ UNCHANGED <<members, record, holder, codeLock, told, jar, login>>
  BY DEF CreateUser, cookiesUnchanged
<1>2. tab[t].pc # "idle"  BY <1>1
<1>3. /\ p \in People /\ a \in Apps /\ s \in Sessions
      /\ Backs(users, members, record, p, a, s)
  BY <1>2, InTab
<1>4. /\ users' \subseteq People /\ members' \subseteq users' /\ record' \in Records
      /\ Grow(users, members, record, users', members', record') /\ p \in users'
  BY <1>1, <1>3 DEF Inv, Typed, Grow
<1>5. Backs(users', members', record', p, a, s)  BY <1>3, <1>4, BacksStill
<1>6. CASE Refuse(t)  BY <1>1, <1>2, <1>4, <1>6, RefuseStep
<1>7. CASE Answer(t, With(s, FALSE, FALSE))
  <2> DEFINE next == With(s, FALSE, FALSE)
  <2>1. next \in Session /\ Backs(users', members', record', p, a, next)
    <3>1. \A no \in BOOLEAN : ~ no =>
            With(s, no, no) \in Session /\ Backs(users', members', record', p, a, With(s, no, no))
      <4> HIDE DEF p, a, s
      <4> QED  BY <1>3, <1>4, <1>5, WithBacked
    <3> QED  BY <3>1
  <2>2. Answer(t, next)  BY <1>7
  <2> HIDE DEF next
  <2>3. next \in Sessions  BY <2>1 DEF Sessions
  <2> QED  BY <1>1, <1>2, <1>4, <2>1, <2>2, <2>3, AnswerStep
<1>8. CASE ~ Refuse(t) /\ a # "mil"
  <2> DEFINE next == With(s, FALSE, TRUE)
             x == [pc |-> "linking", person |-> p, app |-> a, session |-> s, next |-> next]
  <2>1. tab' = [tab EXCEPT ![t] = x]  BY <1>8 DEF CreateUser
  <2>2. next \in Session /\ (next.member => p \in members)
    <3> HIDE DEF p, a
    <3>1. s # None => s.member \in BOOLEAN /\ s.role \in BOOLEAN
      BY <1>3 DEF Sessions, Session
    <3>2. (s # None /\ s.member) => p \in members  BY <1>3 DEF Backs
    <3> QED  BY <3>1, <3>2 DEF With, Session
  <2>3. a \in RoleApps  BY <1>3, <1>8 DEF Apps
  <2> HIDE DEF next, p, a, s
  <2>4. x \in Linking  BY <1>3, <2>2, <2>3 DEF Linking
  <2>5. x.pc = "linking" /\ x.person = p /\ x.app = a /\ x.session = s /\ x.next = next
    OBVIOUS
  <2> HIDE DEF x
  <2>6. SoundTab(x, users', members', record')
    BY <1>1, <1>4, <1>5, <2>2, <2>5 DEF SoundTab
  <2>7. x \in Progress /\ x.pc # "unclaimed"  BY <2>4, <2>5 DEF Progress
  <2> QED  BY <1>1, <1>4, <2>1, <2>6, <2>7, TabStep
<1> QED  BY <1>6, <1>7, <1>8 DEF CreateUser

(* The record of t is linked, and that is all that happens to the rows.    *)
LEMMA LinkRows ==
  ASSUME Inv, NEW t \in Tabs, tab[t].pc \in {"linking", "linkingAdmin"}, Link(tab[t]),
         UNCHANGED <<users, members>>
  PROVE  /\ users' \subseteq People /\ members' \subseteq users' /\ record' \in Records
         /\ Grow(users, members, record, users', members', record')
         /\ tab[t].app \in RoleApps /\ tab[t].person \in People
         /\ record'[tab[t].app][tab[t].person].linked
<1> DEFINE p == tab[t].person
           a == tab[t].app
           old == record[a][p]
           new == [old EXCEPT !.linked = TRUE]
<1>1. tab[t] \in Linking  BY InTab, Shapes
<1>2. p \in People /\ a \in RoleApps  BY <1>1 DEF Linking
<1>3. record \in Records /\ old \in Record  BY <1>2 DEF Inv, Typed, Records
<1>4. new \in Record /\ new.linked  BY <1>3 DEF Record
<1>5. record' = [record EXCEPT ![a] = [record[a] EXCEPT ![p] = new]]  BY DEF Link
<1> HIDE DEF p, a, old, new
<1>6. /\ record' \in Records /\ record'[a][p].linked
      /\ \A b \in RoleApps, q \in People :
           record'[b][q] = IF b = a /\ q = p THEN new ELSE record[b][q]
  BY <1>2, <1>3, <1>4, <1>5 DEF Records
<1>7. Grow(users, members, record, users', members', record')
  BY <1>4, <1>6 DEF Grow
<1>8. users' \subseteq People /\ members' \subseteq users'  BY DEF Inv, Typed
<1> QED  BY <1>2, <1>6, <1>7, <1>8 DEF p, a

LEMMA LinkSound ==
  ASSUME Inv, NEW t \in Tabs, LinkRecord(t)
  PROVE  Inv'
<1> DEFINE next == tab[t].next
<1>1. /\ tab[t].pc = "linking" /\ Link(tab[t]) /\ Answer(t, next)
      /\ UNCHANGED <<users, members, holder, codeLock, told, jar, login>>
  BY DEF LinkRecord, cookiesUnchanged
<1>2. /\ users' \subseteq People /\ members' \subseteq users' /\ record' \in Records
      /\ Grow(users, members, record, users', members', record')
      /\ tab[t].app \in RoleApps /\ tab[t].person \in People
      /\ record'[tab[t].app][tab[t].person].linked
  BY <1>1, LinkRows
<1>3. tab[t] \in Linking  BY <1>1, InTab, Shapes
<1>4. next \in Session  BY <1>3 DEF Linking
<1>5. tab[t].person \in users /\ (next.member => tab[t].person \in members)
  BY <1>1, InTab DEF SoundTab
<1> HIDE DEF next
<1>6. tab[t].app # "mil"  BY <1>2, AppsAssumption
<1>7. next \in Sessions /\ Backs(users', members', record', tab[t].person, tab[t].app, next)
  BY <1>1, <1>2, <1>4, <1>5, <1>6 DEF Backs, Sessions
<1>8. tab[t].pc # "idle"  BY <1>1
<1> QED  BY <1>1, <1>2, <1>7, <1>8, AnswerStep

LEMMA LinkAdminSound ==
  ASSUME Inv, NEW t \in Tabs, LinkAdminRecord(t)
  PROVE  Inv'
<1>1. /\ tab[t].pc = "linkingAdmin" /\ Link(tab[t]) /\ Refuse(t)
      /\ UNCHANGED <<users, members, holder, codeLock, told, jar, login>>
  BY DEF LinkAdminRecord, cookiesUnchanged
<1>2. tab[t].pc # "idle"  BY <1>1
<1> QED  BY <1>1, <1>2, LinkRows, RefuseStep
-----------------------------------------------------------------------------
(* Requests of who is signed in.                                           *)

LEMMA ViewSound ==
  ASSUME Inv, NEW t \in Tabs, NEW p \in People, NEW a \in Apps,
         View(t, p, a) \/ Logout(t, p, a)
  PROVE  Inv'
<1>1. rowsUnchanged /\ cookiesUnchanged  BY DEF View, Logout
<1>2. PICK s \in {jar[p][a], None} :
        tab' = [tab EXCEPT ![t] = [pc |-> "answered", person |-> p, app |-> a,
                                   session |-> s, forget |-> FALSE]]
  BY DEF View, Logout
<1>3. s \in Sessions /\ Backs(users, members, record, p, a, s)
  <2>1. CASE s = None  BY <2>1 DEF Sessions, Backs
  <2>2. CASE s = jar[p][a]  BY <2>2, InJar
  <2> QED  BY <2>1, <2>2
<1> DEFINE x == [pc |-> "answered", person |-> p, app |-> a, session |-> s, forget |-> FALSE]
<1>4. tab' = [tab EXCEPT ![t] = x]  BY <1>2
<1>5. x \in Progress /\ SoundTab(x, users, members, record) /\ x.pc = "answered"
  BY <1>3, AnsweredSound
<1> HIDE DEF x
<1> QED  BY <1>1, <1>4, <1>5, QuietStep

LEMMA BeginMemberSound ==
  ASSUME Inv, NEW t \in Tabs, NEW p \in People, BeginServiceMember(t, p)
  PROVE  Inv'
<1>1. /\ jar[p]["mil"] # None /\ tab' = [tab EXCEPT ![t] = Request("creating", p, "mil")]
      /\ rowsUnchanged /\ cookiesUnchanged
  BY DEF BeginServiceMember
<1>2. "mil" \in Apps /\ "creating" \in {"redirected", "creating"}  BY DEF Apps
<1> QED  BY <1>1, <1>2, RequestSound

LEMMA CreateMemberSound ==
  ASSUME Inv, NEW t \in Tabs, CreateServiceMember(t)
  PROVE  Inv'
<1> DEFINE p == tab[t].person
           a == tab[t].app
           s == tab[t].session
<1>1. /\ tab[t].pc = "creating" /\ members' = members \union {p}
      /\ UNCHANGED <<users, record, holder, codeLock, told, jar, login>>
  BY DEF CreateServiceMember, cookiesUnchanged
<1>2. tab[t].pc # "idle"  BY <1>1
<1>3. /\ p \in People /\ a \in Apps /\ s \in Sessions
      /\ Backs(users, members, record, p, a, s)
  BY <1>2, InTab
<1>4. p \in users
  <2>1. s # None  BY <1>1, InTab DEF SoundTab
  <2> QED  BY <1>3, <2>1 DEF Backs
<1>5. /\ users' \subseteq People /\ members' \subseteq users' /\ record' \in Records
      /\ Grow(users, members, record, users', members', record') /\ p \in members'
  BY <1>1, <1>4 DEF Inv, Typed, Grow
<1>6. Backs(users', members', record', p, a, s)  BY <1>3, <1>5, BacksStill
<1>7. CASE Refuse(t)  BY <1>1, <1>2, <1>5, <1>7, RefuseStep
<1>8. CASE Answer(t, With(s, TRUE, FALSE))
  <2> DEFINE next == With(s, TRUE, FALSE)
  <2>1. next \in Session /\ Backs(users', members', record', p, a, next)
    <3>1. \A yes, no \in BOOLEAN : ~ no =>
            /\ With(s, yes, no) \in Session
            /\ Backs(users', members', record', p, a, With(s, yes, no))
      <4>1. p \in users'  BY <1>1, <1>4
      <4> HIDE DEF p, a, s
      <4> QED  BY <1>3, <1>5, <1>6, <4>1, WithBacked
    <3> QED  BY <3>1
  <2>2. Answer(t, next)  BY <1>8
  <2> HIDE DEF next
  <2>3. next \in Sessions  BY <2>1 DEF Sessions
  <2> QED  BY <1>1, <1>2, <1>5, <2>1, <2>2, <2>3, AnswerStep
<1> QED  BY <1>7, <1>8 DEF CreateServiceMember

LEMMA BeginClaimSound ==
  ASSUME Inv, NEW t \in Tabs, NEW p \in People, NEW c \in Codes, BeginClaim(t, p, c)
  PROVE  Inv'
<1> DEFINE s == jar[p]["mil"]
           x == [pc |-> "claiming", person |-> p, app |-> "mil", session |-> s, code |-> c]
<1>1. tab' = [tab EXCEPT ![t] = x] /\ rowsUnchanged /\ cookiesUnchanged  BY DEF BeginClaim
<1>2. "mil" \in Apps  BY DEF Apps
<1>3. s \in Sessions /\ Backs(users, members, record, p, "mil", s)  BY <1>2, InJar
<1> HIDE DEF s
<1>4. x \in Progress  BY <1>3 DEF Progress, Claiming
<1>5. x.pc = "claiming" /\ x.person = p /\ x.app = "mil" /\ x.session = s  OBVIOUS
<1> HIDE DEF x
<1>6. SoundTab(x, users, members, record) /\ x.pc # "unclaimed"
  BY <1>3, <1>5 DEF SoundTab
<1> QED  BY <1>1, <1>4, <1>6, QuietStep
-----------------------------------------------------------------------------
(* Codes.                                                                  *)

(* t, at a code or not, goes on with x, and locks and holders change.      *)
LEMMA CodeStep ==
  ASSUME Inv, UNCHANGED <<users, members, record, jar, login>>,
         holder' \in [Codes -> People \union {None}],
         codeLock' \in [Codes -> Tabs \union {None}], told' \subseteq Codes \X People,
         NEW t \in Tabs, NEW x \in Progress, tab' = [tab EXCEPT ![t] = x],
         SoundTab(x, users, members, record), Locked(x, t, codeLock', holder'),
         \A u \in Tabs \ {t}, c \in Codes : codeLock[c] = u =>
           codeLock'[c] = u /\ holder'[c] = holder[c],
         CodesAreKept'
  PROVE  Inv'
<1>1. tab \in [Tabs -> Progress] /\ tab'[t] = x /\ \A u \in Tabs \ {t} : tab'[u] = tab[u]
  BY DEF Inv, Typed
<1>2. Typed'
  <2>1. tab' \in [Tabs -> Progress]  BY <1>1
  <2> QED  BY <2>1 DEF Inv, Typed
<1>3. SoundJars(jar', users', members', record')  BY DEF Inv
<1>4. \A u \in Tabs : SoundTab(tab'[u], users', members', record')  BY <1>1, InTab
<1>5. ASSUME NEW u \in Tabs \ {t} PROVE Locked(tab[u], u, codeLock', holder')
  <2>1. Locked(tab[u], u, codeLock, holder)  BY InTab
  <2>2. tab[u].pc = "unclaimed" => tab[u].code \in Codes
    <3>1. tab[u].pc = "unclaimed" => tab[u] \in Claiming  BY InTab, Shapes
    <3> QED  BY <3>1 DEF Claiming
  <2> QED  BY <2>1, <2>2 DEF Locked
<1>6. \A u \in Tabs : Locked(tab'[u], u, codeLock', holder')  BY <1>1, <1>5
<1> QED  BY <1>2, <1>3, <1>4, <1>6 DEF Inv

LEMMA FetchCodeSound ==
  ASSUME Inv, NEW t \in Tabs, FetchAccessCodeForUpdate(t)
  PROVE  Inv'
<1> DEFINE c == tab[t].code
<1>1. /\ tab[t].pc = "claiming" /\ codeLock[c] = None
      /\ UNCHANGED <<users, members, record, holder, told, jar, login>>
  BY DEF FetchAccessCodeForUpdate, cookiesUnchanged
<1>2. tab[t].pc # "idle"  BY <1>1
<1>3. tab[t] \in Claiming /\ c \in Codes
  <2>1. tab[t] \in Claiming  BY <1>1, InTab, Shapes
  <2> QED  BY <2>1 DEF Claiming
<1>4. CASE Refuse(t) /\ UNCHANGED codeLock
  <2>1. rowsUnchanged  BY <1>1, <1>4 DEF rowsUnchanged
  <2> QED  BY <1>1, <1>2, <1>4, <2>1, RowsStay, RefuseStep
<1>5. CASE holder[c] = None /\ At(t, "unclaimed") /\ codeLock' = [codeLock EXCEPT ![c] = t]
  <2> DEFINE x == [tab[t] EXCEPT !.pc = "unclaimed"]
  <2>1. tab' = [tab EXCEPT ![t] = x]  BY <1>5 DEF At
  <2>2. /\ x \in Claiming /\ x.pc = "unclaimed" /\ x.person = tab[t].person
        /\ x.app = tab[t].app /\ x.session = tab[t].session /\ x.code = c
    BY <1>3 DEF Claiming
  <2> HIDE DEF x
  <2>3. Backs(users, members, record, x.person, x.app, x.session)
    BY <1>2, <2>2, InTab
  <2>4. SoundTab(x, users, members, record) /\ x \in Progress
    BY <2>2, <2>3 DEF SoundTab, Progress
  <2>5. /\ codeLock \in [Codes -> Tabs \union {None}] /\ holder' \in [Codes -> People \union {None}]
        /\ told' \subseteq Codes \X People
    BY <1>1 DEF Inv, Typed
  <2> HIDE DEF c
  <2>6. codeLock' \in [Codes -> Tabs \union {None}] /\ codeLock'[c] = t
    BY <1>3, <1>5, <2>5
  <2>7. Locked(x, t, codeLock', holder')  BY <1>1, <1>5, <2>2, <2>6 DEF Locked
  <2>8. \A u \in Tabs \ {t}, d \in Codes : codeLock[d] = u =>
          codeLock'[d] = u /\ holder'[d] = holder[d]
    BY <1>1, <1>3, <1>5, <2>5, NoneAssumption
  <2>9. CodesAreKept'  BY <1>1 DEF Inv, CodesAreKept
  <2> QED  BY <1>1, <2>1, <2>4, <2>5, <2>6, <2>7, <2>8, <2>9, CodeStep
<1> QED  BY <1>4, <1>5 DEF FetchAccessCodeForUpdate

LEMMA ClaimSound ==
  ASSUME Inv, NEW t \in Tabs, ClaimAccessCode(t)
  PROVE  Inv'
<1> DEFINE c == tab[t].code
           p == tab[t].person
           a == tab[t].app
           s == tab[t].session
           x == [pc |-> "answered", person |-> p, app |-> a, session |-> s, forget |-> FALSE]
<1>1. /\ tab[t].pc = "unclaimed" /\ holder' = [holder EXCEPT ![c] = p]
      /\ codeLock' = [codeLock EXCEPT ![c] = None] /\ told' = told \union {<<c, p>>}
      /\ tab' = [tab EXCEPT ![t] = x]
      /\ UNCHANGED <<users, members, record, jar, login>>
  BY DEF ClaimAccessCode, Refuse, Answer, Answered, cookiesUnchanged
<1>2. /\ tab[t].pc # "idle"  BY <1>1
<1>3. c \in Codes
  <2>1. tab[t] \in Claiming  BY <1>1, InTab, Shapes
  <2> QED  BY <2>1 DEF Claiming
<1>4. /\ p \in People /\ a \in Apps /\ s \in Sessions
      /\ Backs(users, members, record, p, a, s)
  BY <1>2, InTab
<1>5. codeLock[c] = t /\ holder[c] = None  BY <1>1, InTab DEF Locked
<1>6. x \in Progress /\ SoundTab(x, users, members, record) /\ x.pc = "answered"
  BY <1>4, AnsweredSound
<1>7. /\ codeLock \in [Codes -> Tabs \union {None}] /\ holder \in [Codes -> People \union {None}]
      /\ told \subseteq Codes \X People
  BY DEF Inv, Typed
<1> HIDE DEF c, p, a, s, x
<1>8. /\ holder' \in [Codes -> People \union {None}]
      /\ codeLock' \in [Codes -> Tabs \union {None}] /\ told' \subseteq Codes \X People
  BY <1>1, <1>3, <1>4, <1>7
<1>9. Locked(x, t, codeLock', holder')  BY <1>6 DEF Locked
<1>10. \A u \in Tabs \ {t}, d \in Codes : codeLock[d] = u =>
         codeLock'[d] = u /\ holder'[d] = holder[d]
  BY <1>1, <1>3, <1>5, <1>7
<1>11. CodesAreKept'
  <2> SUFFICES ASSUME NEW y \in told' PROVE holder'[y[1]] = y[2]  BY DEF CodesAreKept
  <2>1. CASE y = <<c, p>>  BY <1>1, <1>3, <1>7, <2>1
  <2>2. CASE y \in told
    <3>1. y[1] \in Codes /\ y[2] \in People  BY <1>7, <2>2
    <3>2. holder[y[1]] = y[2]  BY <2>2 DEF Inv, CodesAreKept
    <3>3. y[1] # c  BY <1>5, <3>1, <3>2, NoneAssumption
    <3> QED  BY <1>1, <1>7, <3>1, <3>2, <3>3
  <2> QED  BY <1>1, <2>1, <2>2
<1> QED  BY <1>1, <1>6, <1>8, <1>9, <1>10, <1>11, CodeStep

(* t gives up what it has locked.                                          *)
LEMMA UnlockStep ==
  ASSUME Inv, UNCHANGED <<users, members, record, holder, told, jar, login>>,
         NEW t \in Tabs, codeLock' = Unlocked(t), NEW x \in Progress,
         tab' = [tab EXCEPT ![t] = x], SoundTab(x, users, members, record),
         x.pc # "unclaimed"
  PROVE  Inv'
<1>1. /\ codeLock \in [Codes -> Tabs \union {None}] /\ holder' \in [Codes -> People \union {None}]
      /\ told' \subseteq Codes \X People
  BY DEF Inv, Typed
<1>2. /\ codeLock' \in [Codes -> Tabs \union {None}]
      /\ \A u \in Tabs \ {t}, c \in Codes : codeLock[c] = u =>
           codeLock'[c] = u /\ holder'[c] = holder[c]
  BY <1>1 DEF Unlocked
<1>3. CodesAreKept'  BY DEF Inv, CodesAreKept
<1>4. Locked(x, t, codeLock', holder')  BY DEF Locked
<1> QED  BY <1>1, <1>2, <1>3, <1>4, CodeStep

LEMMA ErrorSound ==
  ASSUME Inv, NEW t \in Tabs, Error(t)
  PROVE  Inv'
<1> DEFINE p == tab[t].person
           a == tab[t].app
           s == tab[t].session
           x == [pc |-> "answered", person |-> p, app |-> a, session |-> s, forget |-> FALSE]
<1>1. /\ tab[t].pc # "idle" /\ codeLock' = Unlocked(t) /\ tab' = [tab EXCEPT ![t] = x]
      /\ UNCHANGED <<users, members, record, holder, told, jar, login>>
  BY DEF Error, Refuse, Answer, Answered, cookiesUnchanged
<1>2. /\ p \in People /\ a \in Apps /\ s \in Sessions
      /\ Backs(users, members, record, p, a, s)
  BY <1>1, InTab
<1>3. x \in Progress /\ SoundTab(x, users, members, record) /\ x.pc = "answered"
  BY <1>2, AnsweredSound
<1> HIDE DEF x
<1> QED  BY <1>1, <1>3, UnlockStep

LEMMA LoseSound ==
  ASSUME Inv, NEW t \in Tabs, Lose(t)
  PROVE  Inv'
<1>1. /\ codeLock' = Unlocked(t) /\ tab' = [tab EXCEPT ![t] = Idle]
      /\ UNCHANGED <<users, members, record, holder, told, jar, login>>
  BY DEF Lose, cookiesUnchanged
<1>2. SoundTab(Idle, users, members, record) /\ Idle.pc # "unclaimed"
  BY IdleShape DEF SoundTab
<1> QED  BY <1>1, <1>2, IdleShape, UnlockStep
-----------------------------------------------------------------------------
(* Cookies and records.                                                    *)

LEMMA ArriveSound ==
  ASSUME Inv, NEW t \in Tabs, Arrive(t)
  PROVE  Inv'
<1> DEFINE p == tab[t].person
           a == tab[t].app
           s == tab[t].session
           l == IF tab[t].forget THEN None ELSE login[p][a]
<1>1. /\ tab[t].pc # "idle" /\ jar' = [jar EXCEPT ![p][a] = s]
      /\ login' = [login EXCEPT ![p][a] = l]
      /\ tab' = [tab EXCEPT ![t] = Idle]
      /\ UNCHANGED <<users, members, record, holder, codeLock, told>>
  BY DEF Arrive, rowsUnchanged
<1>2. /\ p \in People /\ a \in Apps /\ s \in Sessions
      /\ Backs(users, members, record, p, a, s)
  BY <1>1, InTab
<1>3. l \in Tabs \union {None}  BY <1>2 DEF Inv, Typed, Logins
<1> HIDE DEF p, a, s, l
<1>4. jar' \in Jars /\ login' \in Logins
  BY <1>1, <1>2, <1>3 DEF Inv, Typed, Jars, Logins
<1>5. /\ tab' \in [Tabs -> Progress] /\ tab'[t] = Idle
      /\ \A u \in Tabs \ {t} : tab'[u] = tab[u]
  BY <1>1, IdleShape DEF Inv, Typed
<1>6. Typed'  BY <1>1, <1>4, <1>5 DEF Inv, Typed
<1>7. SoundJars(jar', users, members, record)
  BY <1>1, <1>2, InJar DEF SoundJars, Inv, Typed, Jars
<1>8. \A u \in Tabs : SoundTab(tab'[u], users, members, record)
  BY <1>5, IdleShape, InTab DEF SoundTab
<1>9. \A u \in Tabs : Locked(tab'[u], u, codeLock, holder)
  BY <1>5, IdleShape, InTab DEF Locked
<1>10. CodesAreKept'  BY <1>1 DEF Inv, CodesAreKept
<1> QED  BY <1>1, <1>6, <1>7, <1>8, <1>9, <1>10 DEF Inv

LEMMA ExpireSound ==
  ASSUME Inv, NEW p \in People, NEW a \in Apps, Expire(p, a)
  PROVE  Inv'
<1>1. /\ jar' = [jar EXCEPT ![p][a] = None]
      /\ UNCHANGED <<users, members, record, holder, codeLock, told, login, tab>>
  BY DEF Expire, rowsUnchanged
<1>2. None \in Sessions /\ Backs(users, members, record, p, a, None)  BY DEF Sessions, Backs
<1>3. jar' \in Jars  BY <1>1, <1>2 DEF Inv, Typed, Jars
<1>4. Typed'  BY <1>1, <1>3 DEF Inv, Typed
<1>5. SoundJars(jar', users, members, record)
  BY <1>1, <1>2, InJar DEF SoundJars, Inv, Typed, Jars
<1>6. CodesAreKept'  BY <1>1 DEF Inv, CodesAreKept
<1> QED  BY <1>1, <1>4, <1>5, <1>6 DEF Inv

LEMMA AddRecordSound ==
  ASSUME Inv, NEW p \in People, NEW a \in RoleApps, AddRecord(p, a)
  PROVE  Inv'
<1> DEFINE new == [record[a][p] EXCEPT !.there = TRUE]
<1>1. /\ record' = [record EXCEPT ![a] = [record[a] EXCEPT ![p] = new]]
      /\ UNCHANGED <<users, members, holder, codeLock, told, tab, jar, login>>
  BY DEF AddRecord, cookiesUnchanged
<1>2. record \in Records /\ record[a][p] \in Record  BY DEF Inv, Typed, Records
<1>3. new \in Record /\ new.linked = record[a][p].linked  BY <1>2 DEF Record
<1> HIDE DEF new
<1>4. /\ record' \in Records
      /\ \A b \in RoleApps, q \in People :
           record'[b][q] = IF b = a /\ q = p THEN new ELSE record[b][q]
  BY <1>1, <1>2, <1>3 DEF Records
<1>5. Grow(users, members, record, users', members', record')
  BY <1>1, <1>3, <1>4 DEF Grow
<1>6. Typed'  BY <1>1, <1>4 DEF Inv, Typed
<1>7. SoundJars(jar', users', members', record')
  <2>1. \A q \in People, b \in Apps : Backs(users', members', record', q, b, jar[q][b])
    BY <1>5, InJar, BacksStill
  <2> QED  BY <1>1, <2>1 DEF SoundJars
<1>8. \A u \in Tabs : SoundTab(tab[u], users', members', record')
  BY <1>5, InTab, SoundStill
<1>9. CodesAreKept'  BY <1>1 DEF Inv, CodesAreKept
<1> QED  BY <1>1, <1>6, <1>7, <1>8, <1>9 DEF Inv
-----------------------------------------------------------------------------
(* The invariant holds.                                                    *)

LEMMA InitSound == AccountsInit => Inv
<1> SUFFICES ASSUME AccountsInit PROVE Inv  OBVIOUS
<1>1. /\ users = {} /\ members = {} /\ told = {}
      /\ holder = [c \in Codes |-> None] /\ codeLock = [c \in Codes |-> None]
      /\ jar = [p \in People |-> [a \in Apps |-> None]]
      /\ login = [p \in People |-> [a \in Apps |-> None]]
      /\ tab = [t \in Tabs |-> Idle]
      /\ record \in Records
  BY DEF AccountsInit, Records
<1>2. jar \in Jars /\ login \in Logins  BY <1>1 DEF Jars, Logins, Sessions
<1>3. tab \in [Tabs -> Progress] /\ \A t \in Tabs : tab[t] = Idle  BY <1>1, IdleShape
<1>4. Typed  BY <1>1, <1>2, <1>3 DEF Typed
<1>5. SoundJars(jar, users, members, record)  BY <1>1 DEF SoundJars, Backs
<1>6. \A t \in Tabs : SoundTab(tab[t], users, members, record)
  BY <1>3, IdleShape DEF SoundTab
<1>7. \A t \in Tabs : Locked(tab[t], t, codeLock, holder)  BY <1>3, IdleShape DEF Locked
<1>8. CodesAreKept  BY <1>1 DEF CodesAreKept
<1> QED  BY <1>4, <1>5, <1>6, <1>7, <1>8 DEF Inv

LEMMA ServeSound ==
  ASSUME Inv, NEW t \in Tabs, Serve(t)
  PROVE  Inv'
<1>1. CASE FollowRedirect(t)  BY <1>1, FollowSound
<1>2. CASE Callback(t)  BY <1>2, CallbackSound
<1>3. CASE FetchUserIdentity(t)  BY <1>3, FetchIdentitySound
<1>4. CASE AuthorizeKnownUser(t)  BY <1>4, AuthorizeKnownSound
<1>5. CASE AuthorizeUnknownUser(t)  BY <1>5, AuthorizeUnknownSound
<1>6. CASE CreateUser(t)  BY <1>6, CreateUserSound
<1>7. CASE LinkRecord(t)  BY <1>7, LinkSound
<1>8. CASE LinkAdminRecord(t)  BY <1>8, LinkAdminSound
<1>9. CASE CreateServiceMember(t)  BY <1>9, CreateMemberSound
<1>10. CASE FetchAccessCodeForUpdate(t)  BY <1>10, FetchCodeSound
<1>11. CASE ClaimAccessCode(t)  BY <1>11, ClaimSound
<1>12. CASE Arrive(t)  BY <1>12, ArriveSound
<1> QED
  BY <1>1, <1>2, <1>3, <1>4, <1>5, <1>6, <1>7, <1>8, <1>9, <1>10, <1>11, <1>12
     DEF Serve, SignIn

LEMMA AskSound ==
  ASSUME Inv, NEW t \in Tabs, NEW p \in People, Ask(t, p)
  PROVE  Inv'
<1>1. CASE \E a \in Apps : Redirect(t, p, a)  BY <1>1, RedirectSound
<1>2. CASE \E a \in Apps : View(t, p, a) \/ Logout(t, p, a)  BY <1>2, ViewSound
<1>3. CASE BeginServiceMember(t, p)  BY <1>3, BeginMemberSound
<1>4. CASE \E c \in Codes : BeginClaim(t, p, c)  BY <1>4, BeginClaimSound
<1> QED  BY <1>1, <1>2, <1>3, <1>4 DEF Ask

LEMMA NextSound == Inv /\ [AccountsNext]_accountsVars => Inv'
<1> SUFFICES ASSUME Inv, [AccountsNext]_accountsVars PROVE Inv'  OBVIOUS
<1>1. CASE UNCHANGED accountsVars  BY <1>1 DEF accountsVars, Inv, Typed, CodesAreKept
<1>2. ASSUME NEW t \in Tabs, Serve(t) \/ Decline(t) \/ Error(t) \/ Lose(t)
      PROVE  Inv'
  BY <1>2, ServeSound, DeclineSound, ErrorSound, LoseSound
<1>3. ASSUME NEW t \in Tabs, NEW p \in People, Ask(t, p) PROVE Inv'  BY <1>3, AskSound
<1>4. ASSUME NEW p \in People, NEW a \in Apps, Expire(p, a) PROVE Inv'  BY <1>4, ExpireSound
<1>5. ASSUME NEW p \in People, NEW a \in RoleApps, AddRecord(p, a) PROVE Inv'
  BY <1>5, AddRecordSound
<1> QED  BY <1>1, <1>2, <1>3, <1>4, <1>5 DEF AccountsNext

LEMMA Invariance == AccountsSpec => []Inv
<1> QED  BY InitSound, NextSound, PTL DEF AccountsSpec

(* The rows and the cookies stay well formed, and there is no service      *)
(* member without a user, whichever tab created the user and whichever     *)
(* request failed in between.                                              *)
THEOREM AccountsTypeCorrect == AccountsSpec => []AccountsTypeOK
<1>1. Inv => AccountsTypeOK
  BY DEF Inv, Typed, AccountsTypeOK, Records, Jars, Logins, Sessions
<1> QED  BY <1>1, Invariance, PTL

(* AuthorizeKnownUser, CreateUser and the callbacks write a session only   *)
(* after the rows it names are committed, and a response that overwrites a *)
(* cookie with what its request came with names rows that are still there. *)
THEOREM SessionsAreBacked == AccountsSpec => []CookieIsBacked
<1>1. Inv => CookieIsBacked
  <2> SUFFICES ASSUME Inv PROVE CookieIsBacked  OBVIOUS
  <2>1. \A p \in People, a \in Apps : Backed(p, a, jar[p][a])  BY InJar DEF Backed, Backs
  <2>2. ASSUME NEW t \in Tabs, tab[t].pc = "answered"
        PROVE  Backed(tab[t].person, tab[t].app, tab[t].session)
    <3>1. tab[t].pc # "idle"  BY <2>2
    <3> QED  BY <3>1, InTab DEF Backed, Backs
  <2> QED  BY <2>1, <2>2 DEF CookieIsBacked
<1> QED  BY <1>1, Invariance, PTL

(* fetchAccessCodeForUpdate reads a code FOR UPDATE, so that no claim is   *)
(* saved over another: who was told that a code is theirs keeps it.        *)
THEOREM ClaimedCodesAreKept == AccountsSpec => []CodesAreKept
<1>1. Inv => CodesAreKept  BY DEF Inv
<1> QED  BY <1>1, Invariance, PTL
=============================================================================
