------------------------------ MODULE Accounts ------------------------------
(***************************************************************************)
(* auth/ and users/, with the browser's side of a session (api/client.ts). *)
(*                                                                         *)
(* A session is a pair of signed tokens in the cookies of a browser.  The  *)
(* server keeps no list of them: a token names the tokenVersion its user   *)
(* had, and whatever ends the sessions of a user raises the version.  A    *)
(* request is refused when its access token is; the browser then asks for  *)
(* new tokens with the other one, once, and tries again.  It does not for  *)
(* the request that opens the application (/auth/me), and whatever goes    *)
(* wrong with the new tokens sends the person to the login page.           *)
(*                                                                         *)
(* Requests overlap, those of one browser too.  What a request does        *)
(* between two awaits is one action; the row it read stays in its record.  *)
(* A password is a number, the next one whenever it is changed.            *)
(***************************************************************************)
EXTENDS Integers, FiniteSets

CONSTANTS Users,            \* accounts; each is used in one browser
          Requests,         \* bound: requests at work at the same time
          MaxFailedLogins,  \* MAX_FAILED_LOGINS
          Lockout,          \* LOCKOUT_MINUTES
          AccessTTL,        \* how long an access token lasts
          RefreshTTL,       \* how long a refresh token lasts
          MaxTime,          \* bound: the horizon
          MaxActs,          \* bound: what people do
          Absent, None

ASSUME NumbersAssumption ==
    /\ MaxFailedLogins \in Nat \ {0} /\ Lockout \in Nat \ {0}
    /\ AccessTTL \in Nat /\ RefreshTTL \in Nat
    /\ MaxTime \in Nat /\ MaxActs \in Nat

VARIABLES
    user,      \* the table users
    jar,       \* the cookies of each browser
    req,       \* what each request is about to do
    now,
    acts,
    ends,      \* history: how often the sessions of a user were ended
    session,   \* history: the last login of each browser
    wrong,     \* history: wrong passwords in a row, and since when the account is to be locked
    accident   \* history: what overlapped

vars == <<user, jar, req, now, acts, ends, session, wrong, accident>>
-----------------------------------------------------------------------------
Times == 0..MaxTime
Roles == {"ADMIN", "ATTENDANT"}     \* MANAGER has no operation of its own here
Counts == 0..(MaxActs + 1)

\* password: None for an account made by Google.
Row == [role: Roles, active: BOOLEAN, password: Nat \cup {None}, tokenVersion: Nat,
        failedLoginCount: 0..(MaxFailedLogins - 1), lockedUntil: 0..(MaxTime + Lockout) \cup {None}]

ASSUME SentinelsAssumption == Absent \notin Row /\ None \notin Nat

\* at: when it was issued.  opened (history): how often the sessions had been
\* ended when the login behind it read its row.
Token == [tv: Nat, at: Times, opened: Nat]

ASSUME TokenAssumption == None \notin Token

\* Those that need an administrator, and of them those that may take one away.
Removals == {"deactivate", "demote"}
AdminOps == Removals \cup {"promote", "create", "resetPassword"}
\* Those that change nothing: "open" asks who is signed in, when a page is opened
\* or someone has just signed in.
Looks == {"look", "open"}
Ops == AdminOps \cup Looks \cup {"changePassword"}

Work ==
    [pc: {"validate"}, who: Users, tok: Token \cup {None}, op: Ops, target: Users, retried: BOOLEAN]
    \cup [pc: {"refresh"}, who: Users, tok: Token \cup {None}, op: Ops, target: Users]
    \cup [pc: {"login"}, who: Users, typed: Nat]
    \cup [pc: {"compare"}, who: Users, typed: Nat, row: Row, opened: Nat]
    \cup [pc: {"cookies"}, who: Users, tok: Token, op: Ops \cup {None}, target: Users]
    \cup [pc: {"clear"}, who: Users]
    \cup [pc: {"assert", "count", "write"}, op: Ops \ Looks, target: Users]

Idle == [pc |-> "idle"]

TypeOK ==
    /\ user \in [Users -> Row \cup {Absent}]
    /\ jar \in [Users -> Token \cup {None}]
    /\ req \in [Requests -> Work \cup {Idle}]
    /\ now \in Times /\ acts \in 0..MaxActs
    /\ ends \in [Users -> Nat]
    /\ session \in [Users -> Token \cup {None}]
    /\ wrong \in [Users -> [count: Nat, since: Times \cup {None}]]
    /\ accident \in [{"removals", "cookies"} -> BOOLEAN]

NewRow(role, password) ==
    [role |-> role, active |-> TRUE, password |-> password, tokenVersion |-> 0,
     failedLoginCount |-> 0, lockedUntil |-> None]

\* One administrator is signed in, the others may be there or not.
Init ==
    /\ \E others \in [Users -> {NewRow("ADMIN", 0), Absent}] :
        /\ user = others
        /\ \E u \in Users :
            /\ user[u] # Absent
            /\ jar = [v \in Users |-> IF v = u THEN [tv |-> 0, at |-> 0, opened |-> 0] ELSE None]
    /\ session = jar
    /\ req = [r \in Requests |-> Idle]
    /\ now = 0 /\ acts = 0
    /\ ends = [u \in Users |-> 0]
    /\ wrong = [u \in Users |-> [count |-> 0, since |-> None]]
    /\ accident = [what \in {"removals", "cookies"} |-> FALSE]

Act == acts < MaxActs /\ acts' = acts + 1
Goes(r, w) == req' = [req EXCEPT ![r] = w]
Ends(r) == Goes(r, Idle)
Others(r) == {req[s] : s \in Requests \ {r}}
-----------------------------------------------------------------------------
(* Tokens *)

\* Mutant of Unexpired: the session lasts as long as an access token.
UnexpiredSoon(tok, ttl) == tok # None /\ now - tok.at < AccessTTL

\* verifyRefreshToken and the access token's expiry: signed, and not too old.
Unexpired(tok, ttl) == tok # None /\ now - tok.at < ttl

\* The row says that the token is still good.
Accepted(row, tok) == row # Absent /\ row.active /\ tok.tv = row.tokenVersion

\* Mutant of Issue: the version of the moment, not of the row that was read.
IssueLatest(u, row, opened) ==
    [tv |-> IF user[u] = Absent THEN 0 ELSE user[u].tokenVersion, at |-> now, opened |-> opened]

\* issueTokens: both tokens carry the version of the row the caller read.
Issue(u, row, opened) == [tv |-> row.tokenVersion, at |-> now, opened |-> opened]

\* Whatever ends sessions: logout, a new password, another role, deactivation.
Revoked(row) == [row EXCEPT !.tokenVersion = @ + 1]
-----------------------------------------------------------------------------
(* Signing in *)

\* Someone types a password, the right one or another.
Login(r) == \E u \in Users : \E typed \in Counts :
    /\ req[r] = Idle /\ Act
    /\ typed \in (IF user[u] = Absent \/ user[u].password = None THEN {0}
                  ELSE {user[u].password, user[u].password + 1})
    /\ Goes(r, [pc |-> "login", who |-> u, typed |-> typed])
    /\ UNCHANGED <<user, jar, now, ends, session, wrong, accident>>

\* validateUser, up to the comparison.
ReadLogin(r) ==
    LET q == req[r]  row == user[q.who] IN
    /\ q.pc = "login"
    /\ IF row = Absent THEN Ends(r)
       ELSE IF row.active /\ row.password # None
               /\ ~(row.lockedUntil # None /\ row.lockedUntil > now)
            THEN Goes(r, [pc |-> "compare", who |-> q.who, typed |-> q.typed, row |-> row,
                          opened |-> ends[q.who]])
            ELSE Ends(r)
    /\ UNCHANGED <<user, jar, now, acts, ends, session, wrong, accident>>

\* Mutant of Locks: one failure too many.
LocksLate(failures) == failures > MaxFailedLogins

Locks(failures) == failures >= MaxFailedLogins

\* Others at work on the counter of u.
AtLogin(r, u) == \E q \in Others(r) : q.pc = "compare" /\ q.who = u

\* The counter and the lock are written from the row as it was read.
WrongPassword(r) ==
    LET q == req[r]  failures == q.row.failedLoginCount + 1  count == wrong[q.who].count + 1 IN
    /\ q.pc = "compare" /\ q.typed # q.row.password
    /\ user' = [user EXCEPT ![q.who].failedLoginCount = IF Locks(failures) THEN 0 ELSE failures,
                            ![q.who].lockedUntil = IF Locks(failures) THEN now + Lockout ELSE None]
    /\ wrong' = [wrong EXCEPT ![q.who] =
                    CASE AtLogin(r, q.who) -> [count |-> 0, since |-> None]
                      [] ~AtLogin(r, q.who) /\ count >= MaxFailedLogins -> [count |-> 0, since |-> now]
                      [] OTHER -> [count |-> IF Locks(failures) THEN 0 ELSE count, since |-> None]]
    /\ Ends(r)
    /\ UNCHANGED <<jar, now, acts, ends, session, accident>>

\* The counter is cleared only when the row that was read had something there.
RightPassword(r) ==
    LET q == req[r] IN
    /\ q.pc = "compare" /\ q.typed = q.row.password
    /\ user' = IF q.row.failedLoginCount > 0 \/ q.row.lockedUntil # None
               THEN [user EXCEPT ![q.who].failedLoginCount = 0, ![q.who].lockedUntil = None]
               ELSE user
    /\ wrong' = [wrong EXCEPT ![q.who] = [count |-> 0, since |-> None]]
    /\ Goes(r, [pc |-> "cookies", who |-> q.who, tok |-> Issue(q.who, q.row, q.opened),
                op |-> None, target |-> q.who])
    /\ UNCHANGED <<jar, now, acts, ends, session, accident>>

\* findOrCreateFromGoogle: it does not look whether the account is active.
GoogleLogin(r) == \E u \in Users :
    /\ req[r] = Idle /\ Act
    /\ user' = IF user[u] = Absent THEN [user EXCEPT ![u] = NewRow("ATTENDANT", None)] ELSE user
    /\ Goes(r, [pc |-> "cookies", who |-> u, tok |-> Issue(u, user'[u], ends[u]), op |-> None,
                target |-> u])
    /\ UNCHANGED <<jar, now, ends, session, wrong, accident>>
-----------------------------------------------------------------------------
(* A request of the browser, and the session behind it *)

\* People use what is offered to the role they had when they signed in; the
\* server judges by the role they have.
Ask(r) == \E u \in Users : \E op \in Ops : \E target \in Users :
    /\ req[r] = Idle /\ Act
    /\ session[u] # None
    /\ op \in AdminOps \/ target = u
    /\ Goes(r, [pc |-> "validate", who |-> u, tok |-> jar[u], op |-> op, target |-> target,
                retried |-> FALSE])
    /\ UNCHANGED <<user, jar, now, ends, session, wrong, accident>>

\* What the handler of an operation does first.
Handling(op, target) ==
    CASE op \in Looks -> Idle
      [] op \in Removals -> [pc |-> "assert", op |-> op, target |-> target]
      [] OTHER -> [pc |-> "write", op |-> op, target |-> target]

\* RolesGuard, on the row validate has just read.
Allowed(row, op) == op \in AdminOps => row.role = "ADMIN"

\* JwtStrategy.validate: the access token is not too old, the row lets it through.
LetThrough(q) == Unexpired(q.tok, AccessTTL) /\ Accepted(user[q.who], q.tok)

\* Refused, the browser asks for new tokens, the first time; of a page being
\* opened it sends the person to the login page.
Validate(r) ==
    LET q == req[r]  row == user[q.who] IN
    /\ q.pc = "validate"
    /\ IF LetThrough(q)
       THEN Goes(r, IF Allowed(row, q.op) THEN Handling(q.op, q.target) ELSE Idle)
       ELSE IF q.retried \/ q.op = "open" THEN Ends(r)
       ELSE Goes(r, [pc |-> "refresh", who |-> q.who, tok |-> jar[q.who], op |-> q.op,
                     target |-> q.target])
    /\ UNCHANGED <<user, jar, now, acts, ends, session, wrong, accident>>

\* refreshSession.  Refused, the person is sent to the login page.
Refresh(r) ==
    LET q == req[r]  row == user[q.who] IN
    /\ q.pc = "refresh"
    /\ IF Unexpired(q.tok, RefreshTTL) /\ Accepted(row, q.tok)
       THEN Goes(r, [pc |-> "cookies", who |-> q.who, tok |-> Issue(q.who, row, q.tok.opened),
                     op |-> q.op, target |-> q.target])
       ELSE Ends(r)
    /\ UNCHANGED <<user, jar, now, acts, ends, session, wrong, accident>>

\* Answers of one browser with different sessions, or none, cross; or someone
\* signs in while a request with the cookies from before is at work.
Cross(r) ==
    accident["cookies"] \/ \E q \in Others(r) : q # Idle /\ q.pc \in {"clear", "cookies", "validate", "refresh"}
        /\ q.who = req[r].who
        /\ CASE q.pc = "clear" -> TRUE
             [] q.pc = "cookies" -> req[r].pc = "clear" \/ q.tok.tv # req[r].tok.tv
             [] OTHER -> req[r].pc = "cookies" /\ req[r].op = None

\* The answer arrives: with new cookies, and a retry when it was a refresh.
SetCookies(r) ==
    LET q == req[r] IN
    /\ q.pc = "cookies"
    /\ jar' = [jar EXCEPT ![q.who] = q.tok]
    /\ session' = IF q.op = None THEN [session EXCEPT ![q.who] = q.tok] ELSE session
    /\ accident' = [accident EXCEPT !["cookies"] = Cross(r)]
    /\ Goes(r, IF q.op = None THEN Idle
               ELSE [pc |-> "validate", who |-> q.who, tok |-> q.tok, op |-> q.op,
                     target |-> q.target, retried |-> TRUE])
    /\ UNCHANGED <<user, now, acts, ends, wrong>>

\* logout: any refresh token that is signed and not too old ends all sessions.
Logout(r) == \E u \in Users :
    /\ req[r] = Idle /\ Act
    /\ session[u] # None
    /\ Goes(r, [pc |-> "clear", who |-> u])
    /\ IF Unexpired(jar[u], RefreshTTL)
       THEN user' = [user EXCEPT ![u] = Revoked(@)] /\ ends' = [ends EXCEPT ![u] = @ + 1]
       ELSE UNCHANGED <<user, ends>>
    /\ UNCHANGED <<jar, now, session, wrong, accident>>

ClearCookies(r) ==
    LET q == req[r] IN
    /\ q.pc = "clear"
    /\ jar' = [jar EXCEPT ![q.who] = None]
    /\ session' = [session EXCEPT ![q.who] = None]
    /\ accident' = [accident EXCEPT !["cookies"] = Cross(r)]
    /\ Ends(r)
    /\ UNCHANGED <<user, now, acts, ends, wrong>>
-----------------------------------------------------------------------------
(* Users *)

IsAdmin(row) == row # Absent /\ row.role = "ADMIN" /\ row.active

\* assertNotLastAdmin: the row of the target, after findById.
AssertNotLastAdmin(r) ==
    LET q == req[r]  row == user[q.target] IN
    /\ q.pc = "assert"
    /\ Goes(r, CASE row = Absent -> Idle
                 [] row # Absent /\ IsAdmin(row) -> [q EXCEPT !.pc = "count"]
                 [] OTHER -> [q EXCEPT !.pc = "write"])
    /\ UNCHANGED <<user, jar, now, acts, ends, session, wrong, accident>>

\* Mutant of OtherAdmins: those who were deactivated count.
OtherAdminsEver(u) == {v \in Users \ {u} : user[v] # Absent /\ user[v].role = "ADMIN"}

OtherAdmins(u) == {v \in Users \ {u} : IsAdmin(user[v])}

CountAdmins(r) ==
    LET q == req[r] IN
    /\ q.pc = "count"
    /\ Goes(r, IF OtherAdmins(q.target) = {} THEN Idle ELSE [q EXCEPT !.pc = "write"])
    /\ UNCHANGED <<user, jar, now, acts, ends, session, wrong, accident>>

\* The row after the update.  (update writes the role that was asked for, and
\* raises the version even when it is the one the user had.)
Changed(row, op) ==
    CASE op = "deactivate" -> Revoked([row EXCEPT !.active = FALSE])
      [] op = "demote" -> Revoked([row EXCEPT !.role = "ATTENDANT"])
      [] op = "promote" -> Revoked([row EXCEPT !.role = "ADMIN"])
      [] OTHER -> Revoked([row EXCEPT !.password = IF @ = None THEN 0 ELSE @ + 1,
                                      !.failedLoginCount = 0, !.lockedUntil = None])

\* create.
CreateUser(r) ==
    LET q == req[r] IN
    /\ q.pc = "write" /\ q.op = "create"
    /\ IF user[q.target] = Absent
       THEN \E role \in Roles : user' = [user EXCEPT ![q.target] = NewRow(role, 0)]
       ELSE UNCHANGED user
    /\ Ends(r)
    /\ UNCHANGED <<jar, now, acts, ends, session, wrong, accident>>

\* update, deactivate, resetPassword, changeOwnPassword.  (The last one has
\* compared the current password, which an account made by Google has not.)
WriteUser(r) ==
    LET q == req[r]  row == user[q.target]
        password == q.op \in {"resetPassword", "changePassword"}
    IN /\ q.pc = "write" /\ q.op # "create"
       /\ IF row = Absent \/ (q.op = "changePassword" /\ row.password = None)
          THEN UNCHANGED <<user, ends, wrong, accident>>
          ELSE /\ user' = [user EXCEPT ![q.target] = Changed(row, q.op)]
               /\ ends' = [ends EXCEPT ![q.target] = @ + 1]
               /\ wrong' = IF password THEN [wrong EXCEPT ![q.target] = [count |-> 0, since |-> None]]
                           ELSE wrong
               /\ accident' = [accident EXCEPT !["removals"] = @ \/
                                 (~password /\ \E s \in Others(r) : s.pc \in {"count", "write"} /\ s.op \in Removals)]
       /\ Ends(r)
       /\ UNCHANGED <<jar, now, acts, session>>
-----------------------------------------------------------------------------
\* A call throws, the process dies, or the answer does not arrive.  When that was
\* for new tokens, or of a page being opened, the person is sent to the login page.
RequestFails(r) ==
    /\ req[r] # Idle /\ Act
    /\ Ends(r)
    /\ UNCHANGED <<user, jar, now, ends, session, wrong, accident>>

\* Minutes go by: requests have ended.
Tick ==
    /\ now < MaxTime /\ now' = now + 1
    /\ \A r \in Requests : req[r] = Idle
    /\ UNCHANGED <<user, jar, req, acts, ends, session, wrong, accident>>

Step(r) ==
    \/ Login(r) \/ ReadLogin(r) \/ WrongPassword(r) \/ RightPassword(r) \/ GoogleLogin(r)
    \/ Ask(r) \/ Validate(r) \/ Refresh(r) \/ SetCookies(r) \/ Logout(r) \/ ClearCookies(r)
    \/ AssertNotLastAdmin(r) \/ CountAdmins(r) \/ CreateUser(r) \/ WriteUser(r) \/ RequestFails(r)

Next == Tick \/ \E r \in Requests : Step(r)

Spec == Init /\ [][Next]_vars
-----------------------------------------------------------------------------
(* Properties *)

\* A token that a request would be let through with comes from a login that
\* read its row after the last logout, new password or change of role of that
\* user; in the cookies, in an answer on its way, or in a request.
Held(u) == {jar[u]} \cup {req[r].tok : r \in {s \in Requests : req[s].pc \in {"validate", "refresh", "cookies"}
                                                                /\ req[s].who = u}}

LiveSessionsAreRecent ==
    \A u \in Users : \A t \in Held(u) :
        (t # None /\ Accepted(user[u], t)) => t.opened = ends[u]

\* Somebody can always administer the system, unless changes of role or
\* deactivations overlap.
AnAdminRemains == accident["removals"] \/ \E u \in Users : IsAdmin(user[u])

\* After MaxFailedLogins wrong passwords in a row, none of them compared while
\* another was, no password is compared until the time is over or there is a
\* new one.  (They are counted anew after a lock.)
LockKept ==
    \A r \in Requests :
        (req[r].pc = "login" /\ req'[r].pc = "compare") =>
            LET w == wrong[req[r].who] IN w.since = None \/ now >= w.since + Lockout

LockIsKept == [][LockKept]_vars

\* Where the browser shows the login page instead of what was asked for.
SentToLogin(r) ==
    /\ req[r].pc = "refresh" \/ (req[r].pc = "validate" /\ req[r].op = "open")
    /\ req'[r] = Idle
    /\ ~(req[r].pc = "validate" /\ Validate(r) /\ LetThrough(req[r]))

\* A page is opened with an access token that is too old.
OpenedLate(q) == q.pc = "validate" /\ q.tok # None /\ now - q.tok.at >= AccessTTL

\* Nobody is sent to the login page while her last login lasts and nothing has
\* ended it, however many of her requests renew the session at once; unless
\* answers with different cookies crossed.  (Excused, for the code does send her
\* there: the request failed, or a page was opened after her access token.)
LoginNeeded ==
    \A r \in Requests :
        SentToLogin(r) =>
            LET u == req[r].who  s == session[u] IN
            \/ RequestFails(r) \/ OpenedLate(req[r])
            \/ accident["cookies"]
            \/ s = None \/ user[u] = Absent \/ ~user[u].active
            \/ s.opened # ends[u] \/ now - s.at >= RefreshTTL

NoNeedlessLogin == [][LoginNeeded]_vars
=============================================================================
