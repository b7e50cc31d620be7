--------------------------- MODULE AccountsProofs ---------------------------
(***************************************************************************)
(* Proofs about Accounts.tla, for every number of users, requests, acts    *)
(* and instants: type correctness, that no token outlives what ended the   *)
(* sessions of its user, that a lock is kept, that an administrator        *)
(* remains, unless removals overlap, and that nobody has to log in again   *)
(* without a reason, unless answers crossed.                               *)
(***************************************************************************)
EXTENDS Accounts, TLAPS

-----------------------------------------------------------------------------
(* What a request holds, told by its pc *)

Works == Work \cup {Idle}

LEMMA WorkByPc ==
    ASSUME NEW q \in Works
    PROVE  /\ q.pc \in {"validate", "refresh", "cookies", "login", "compare", "clear",
                        "assert", "count", "write", "idle"}
           /\ q.pc \in {"validate", "refresh"} =>
                 q.who \in Users /\ q.tok \in Token \cup {None} /\ q.op \in Ops /\ q.target \in Users
           /\ q.pc = "cookies" =>
                 q.who \in Users /\ q.tok \in Token /\ q.op \in Ops \cup {None} /\ q.target \in Users
           /\ q.pc \in {"login", "compare"} => q.who \in Users /\ q.typed \in Nat
           /\ q.pc = "compare" => q.row \in Row /\ q.opened \in Nat
           /\ q.pc = "clear" => q.who \in Users
           /\ q.pc \in {"assert", "count", "write"} =>
                 q.op \in Ops \ Looks /\ q.target \in Users
           /\ q.pc \in {"assert", "count", "write"} => [q EXCEPT !.pc = "count"] \in Works
           /\ q.pc \in {"assert", "count", "write"} => [q EXCEPT !.pc = "write"] \in Works
  BY DEF Works, Work, Idle

LEMMA TimesFacts == 0 \in Times /\ \A t \in Times : t \in Nat /\ t <= MaxTime
  BY NumbersAssumption DEF Times

\* A row that is written stays a row.
LEMMA RowsTyped ==
    /\ \A role \in Roles, password \in {0, None} :
          NewRow(role, password) \in Row /\ NewRow(role, password).tokenVersion = 0
    /\ \A row \in Row : /\ Revoked(row) \in Row
                        /\ Revoked(row).tokenVersion = row.tokenVersion + 1
    /\ \A row \in Row, op \in Ops : /\ Changed(row, op) \in Row
                                    /\ Changed(row, op).tokenVersion = row.tokenVersion + 1
<1>1. \A role \in Roles, password \in {0, None} :
          NewRow(role, password) \in Row /\ NewRow(role, password).tokenVersion = 0
  BY NumbersAssumption DEF NewRow, Row
<1>2. ASSUME NEW row \in Row
      PROVE  Revoked(row) \in Row /\ Revoked(row).tokenVersion = row.tokenVersion + 1
  BY DEF Revoked, Row
<1>3. ASSUME NEW row \in Row, NEW op \in Ops
      PROVE  /\ Changed(row, op) \in Row
             /\ Changed(row, op).tokenVersion = row.tokenVersion + 1
  <2>1. CASE op = "deactivate"
    <3>1. [row EXCEPT !.active = FALSE] \in Row
      BY DEF Row
    <3>2. [row EXCEPT !.active = FALSE].tokenVersion = row.tokenVersion
      BY DEF Row
    <3> QED
      BY <1>2, <2>1, <3>1, <3>2 DEF Changed
  <2>2. CASE op \in {"demote", "promote"}
    <3>1. \A role \in Roles : /\ [row EXCEPT !.role = role] \in Row
                              /\ [row EXCEPT !.role = role].tokenVersion = row.tokenVersion
      BY DEF Row
    <3> QED
      BY <1>2, <2>2, <3>1 DEF Changed, Roles
  <2>3. CASE op \notin {"deactivate", "demote", "promote"}
    <3>1. (IF row.password = None THEN 0 ELSE row.password + 1) \in Nat \cup {None}
      BY DEF Row
    <3>2. PICK p \in Nat \cup {None} : p = IF row.password = None THEN 0 ELSE row.password + 1
      BY <3>1
    <3> DEFINE x1 == [row EXCEPT !.password = p]
               x2 == [x1 EXCEPT !.failedLoginCount = 0]
               x3 == [x2 EXCEPT !.lockedUntil = None]
    <3>3. Changed(row, op) = Revoked(x3)
      BY <2>3, <3>2 DEF Changed
    <3>4. x1 \in Row /\ x1.tokenVersion = row.tokenVersion
      BY DEF Row
    <3> HIDE DEF x1
    <3>5. x2 \in Row /\ x2.tokenVersion = x1.tokenVersion
      BY <3>4, NumbersAssumption DEF Row
    <3> HIDE DEF x2
    <3>6. x3 \in Row /\ x3.tokenVersion = x2.tokenVersion
      BY <3>5 DEF Row
    <3> HIDE DEF x3
    <3> QED
      BY <1>2, <3>3, <3>4, <3>5, <3>6
  <2> QED
    BY <2>1, <2>2, <2>3
<1> QED
  BY <1>1, <1>2, <1>3

LEMMA IssueTyped ==
    ASSUME NEW u, NEW row \in Row, NEW opened \in Nat, now \in Times
    PROVE  /\ Issue(u, row, opened) \in Token
           /\ Issue(u, row, opened).tv = row.tokenVersion
           /\ Issue(u, row, opened).opened = opened
           /\ Issue(u, row, opened) # None
  BY TokenAssumption DEF Issue, Token, Row
-----------------------------------------------------------------------------
(* The invariant *)

\* A token says how often the sessions of its user had been ended, and the
\* version of a row counts the same; nobody holds a token of a missing row.
TokenHolds(u, t) == t # None => t.tv = t.opened /\ user[u] # Absent

Holds(q) ==
    /\ q.pc \in {"validate", "refresh", "cookies"} => TokenHolds(q.who, q.tok)
    /\ q.pc = "compare" => user[q.who] # Absent /\ q.row.tokenVersion = q.opened

Versions == \A u \in Users :
    IF user[u] = Absent THEN ends[u] = 0 ELSE user[u].tokenVersion = ends[u]

SessionInv ==
    /\ TypeOK
    /\ Versions
    /\ \A u \in Users : TokenHolds(u, jar[u])
    /\ \A r \in Requests : Holds(req[r])

\* No step takes a row away.
RowsStay == \A u \in Users : user[u] # Absent => user'[u] # Absent

\* A step of one request leaves the others, and the cookies, what they held.
LEMMA OthersHold ==
    ASSUME SessionInv, NEW r \in Requests, NEW w \in Works, Goes(r, w), RowsStay, Holds(w)'
    PROVE  /\ req' \in [Requests -> Works]
           /\ (\A s \in Requests : Holds(req[s]))'
<1>1. req \in [Requests -> Works]
  BY DEF SessionInv, TypeOK, Works
<1>2. req' = [req EXCEPT ![r] = w]
  BY DEF Goes
<1>3. req' \in [Requests -> Works]
  BY <1>1, <1>2
<1>4. ASSUME NEW s \in Requests, s # r PROVE Holds(req[s])'
  <2>1. req'[s] = req[s]
    BY <1>1, <1>2, <1>4
  <2>2. Holds(req[s]) /\ req[s] \in Works
    BY <1>1 DEF SessionInv
  <2>3. req[s].pc \in {"validate", "refresh", "cookies", "compare"} => req[s].who \in Users
    BY <2>2, WorkByPc
  <2> QED
    BY <2>1, <2>2, <2>3 DEF Holds, TokenHolds, RowsStay
<1>5. Holds(req[r])'
  <2>1. req'[r] = w
    BY <1>1, <1>2
  <2> QED
    BY <2>1 DEF Holds, TokenHolds
<1> QED
  BY <1>3, <1>4, <1>5

\* Holds of a constant request with the cookies of the next state.
LEMMA IdleHolds == Idle \in Works /\ Holds(Idle) /\ Holds(Idle)'
  BY DEF Idle, Works, Holds

LEMMA ActTyped == TypeOK /\ (Act \/ UNCHANGED acts) => acts' \in 0..MaxActs
  BY NumbersAssumption DEF TypeOK, Act

\* A step that only lets its request go on.
LEMMA GoingOn ==
    ASSUME SessionInv, NEW r \in Requests, NEW w \in Works, Goes(r, w), Holds(w),
           Act \/ UNCHANGED acts, UNCHANGED <<user, jar, now, ends, session, wrong, accident>>
    PROVE  SessionInv'
<1>1. RowsStay
  BY DEF RowsStay
<1>2. Holds(w)'
  BY DEF Holds, TokenHolds
<1>3. acts' \in 0..MaxActs
  BY ActTyped DEF SessionInv
<1>4. req' \in [Requests -> Works] /\ (\A s \in Requests : Holds(req[s]))'
  BY <1>1, <1>2, OthersHold
<1>5. TypeOK'
  BY <1>3, <1>4 DEF SessionInv, TypeOK, Works
<1>6. Versions' /\ (\A u \in Users : TokenHolds(u, jar[u]))'
  BY DEF SessionInv, Versions, TokenHolds
<1> QED
  BY <1>4, <1>5, <1>6 DEF SessionInv

\* What the reads and checks of a request leave for its next step.
LEMMA LoginStep == ASSUME SessionInv, NEW r \in Requests, Login(r) PROVE SessionInv'
<1>1. PICK u \in Users, typed \in Counts :
          Act /\ Goes(r, [pc |-> "login", who |-> u, typed |-> typed])
          /\ UNCHANGED <<user, jar, now, ends, session, wrong, accident>>
  BY DEF Login
<1> DEFINE w == [pc |-> "login", who |-> u, typed |-> typed]
<1>2. typed \in Nat
  BY NumbersAssumption DEF Counts
<1>3. w \in Works /\ Holds(w)
  BY <1>2 DEF Works, Work, Holds
<1> QED
  BY <1>1, <1>3, GoingOn

LEMMA ReadLoginStep == ASSUME SessionInv, NEW r \in Requests, ReadLogin(r) PROVE SessionInv'
<1> DEFINE q == req[r]
           w == [pc |-> "compare", who |-> q.who, typed |-> q.typed, row |-> user[q.who],
                 opened |-> ends[q.who]]
<1>1. q \in Works /\ q.pc = "login"
  BY DEF ReadLogin, SessionInv, TypeOK, Works
<1>2. q.who \in Users /\ q.typed \in Nat
  BY <1>1, WorkByPc
<1>3. UNCHANGED <<user, jar, now, acts, ends, session, wrong, accident>>
  BY DEF ReadLogin
<1>4. CASE Goes(r, Idle)
  BY <1>3, <1>4, IdleHolds, GoingOn
<1>5. CASE user[q.who] # Absent /\ Goes(r, w)
  <2>1. user[q.who] \in Row /\ ends[q.who] \in Nat /\ user[q.who].tokenVersion = ends[q.who]
    BY <1>2, <1>5 DEF SessionInv, TypeOK, Versions
  <2>2. w \in Works
    BY <1>2, <2>1 DEF Works, Work
  <2>3. Holds(w)
    BY <1>5, <2>1 DEF Holds
  <2> QED
    BY <1>3, <1>5, <2>2, <2>3, GoingOn
<1> QED
  BY <1>4, <1>5 DEF ReadLogin, Ends

LEMMA AskStep == ASSUME SessionInv, NEW r \in Requests, Ask(r) PROVE SessionInv'
<1>1. PICK u \in Users, op \in Ops, target \in Users :
          Act /\ Goes(r, [pc |-> "validate", who |-> u, tok |-> jar[u], op |-> op,
                          target |-> target, retried |-> FALSE])
          /\ UNCHANGED <<user, jar, now, ends, session, wrong, accident>>
  BY DEF Ask
<1> DEFINE w == [pc |-> "validate", who |-> u, tok |-> jar[u], op |-> op, target |-> target,
                 retried |-> FALSE]
<1>2. jar[u] \in Token \cup {None} /\ TokenHolds(u, jar[u])
  BY DEF SessionInv, TypeOK
<1>3. w \in Works
  BY <1>2 DEF Works, Work
<1>4. Holds(w)
  BY <1>2 DEF Holds
<1> QED
  BY <1>1, <1>3, <1>4, GoingOn

LEMMA ValidateStep == ASSUME SessionInv, NEW r \in Requests, Validate(r) PROVE SessionInv'
<1> DEFINE q == req[r]
           h == Handling(q.op, q.target)
           w == [pc |-> "refresh", who |-> q.who, tok |-> jar[q.who], op |-> q.op,
                 target |-> q.target]
<1>1. q \in Works /\ q.pc = "validate"
  BY DEF Validate, SessionInv, TypeOK, Works
<1>2. q.who \in Users /\ q.op \in Ops /\ q.target \in Users
  BY <1>1, WorkByPc
<1>3. UNCHANGED <<user, jar, now, acts, ends, session, wrong, accident>>
  BY DEF Validate
<1>4. CASE Goes(r, Idle)
  BY <1>3, <1>4, IdleHolds, GoingOn
<1>5. CASE Goes(r, h)
  <2>1. \/ h = Idle
        \/ /\ q.op \in Ops \ Looks
           /\ h \in {[pc |-> "assert", op |-> q.op, target |-> q.target],
                      [pc |-> "write", op |-> q.op, target |-> q.target]}
    <3>1. CASE q.op \in Looks
      BY <3>1 DEF Handling, Looks, Removals
    <3>2. CASE q.op \in Removals
      BY <1>2, <3>2 DEF Handling, Looks, Removals
    <3>3. CASE q.op \notin Looks /\ q.op \notin Removals
      BY <1>2, <3>3 DEF Handling
    <3> QED
      BY <3>1, <3>2, <3>3
  <2>2. h \in Works /\ Holds(h)
    BY <1>2, <2>1 DEF Works, Work, Holds, Idle
  <2> QED
    BY <1>3, <1>5, <2>2, GoingOn
<1>6. CASE Goes(r, w)
  <2>1. jar[q.who] \in Token \cup {None} /\ TokenHolds(q.who, jar[q.who])
    BY <1>2 DEF SessionInv, TypeOK
  <2>2. w \in Works
    BY <1>2, <2>1 DEF Works, Work
  <2>3. Holds(w)
    BY <2>1 DEF Holds
  <2> QED
    BY <1>3, <1>6, <2>2, <2>3, GoingOn
<1> QED
  BY <1>4, <1>5, <1>6 DEF Validate, Ends

LEMMA RefreshStep == ASSUME SessionInv, NEW r \in Requests, Refresh(r) PROVE SessionInv'
<1> DEFINE q == req[r]
           t == Issue(q.who, user[q.who], q.tok.opened)
           w == [pc |-> "cookies", who |-> q.who, tok |-> t, op |-> q.op, target |-> q.target]
<1>1. q \in Works /\ q.pc = "refresh"
  BY DEF Refresh, SessionInv, TypeOK, Works
<1>2. /\ q.who \in Users /\ q.tok \in Token \cup {None} /\ q.op \in Ops /\ q.target \in Users
      /\ TokenHolds(q.who, q.tok)
  BY <1>1, WorkByPc DEF SessionInv, Holds
<1>3. UNCHANGED <<user, jar, now, acts, ends, session, wrong, accident>>
  BY DEF Refresh
<1>4. CASE Goes(r, Idle)
  BY <1>3, <1>4, IdleHolds, GoingOn
<1>5. CASE /\ Unexpired(q.tok, RefreshTTL) /\ Accepted(user[q.who], q.tok)
           /\ Goes(r, w)
  <2>1. user[q.who] # Absent /\ user[q.who] \in Row /\ q.tok \in Token /\ q.tok # None
        /\ q.tok.tv = user[q.who].tokenVersion
    BY <1>2, <1>5 DEF Unexpired, Accepted, SessionInv, TypeOK
  <2>2. q.tok.opened \in Nat /\ q.tok.tv = q.tok.opened
    BY <1>2, <2>1 DEF Token, TokenHolds
  <2>3. t \in Token /\ t.tv = t.opened
    <3>1. now \in Times
      BY DEF SessionInv, TypeOK
    <3>2. t \in Token /\ t.tv = user[q.who].tokenVersion /\ t.opened = q.tok.opened
      BY <2>1, <2>2, <3>1, IssueTyped
    <3> QED
      BY <2>1, <2>2, <3>2
  <2>4. w \in Works
    BY <1>2, <2>3 DEF Works, Work
  <2>5. Holds(w)
    BY <2>1, <2>3 DEF Holds, TokenHolds
  <2> QED
    BY <1>3, <1>5, <2>4, <2>5, GoingOn
<1> QED
  BY <1>4, <1>5 DEF Refresh, Ends

LEMMA AssertStep ==
    ASSUME SessionInv, NEW r \in Requests, AssertNotLastAdmin(r) \/ CountAdmins(r)
    PROVE  SessionInv'
<1> DEFINE q == req[r]
<1>1. q \in Works /\ q.pc \in {"assert", "count"}
  BY DEF AssertNotLastAdmin, CountAdmins, SessionInv, TypeOK, Works
<1>2. UNCHANGED <<user, jar, now, acts, ends, session, wrong, accident>>
  BY DEF AssertNotLastAdmin, CountAdmins
<1>3. \A pc \in {"count", "write"} : [q EXCEPT !.pc = pc] \in Works
  BY <1>1, WorkByPc
<1>4. \A pc \in {"count", "write"} : Holds([q EXCEPT !.pc = pc])
  <2> SUFFICES ASSUME NEW pc \in {"count", "write"} PROVE [q EXCEPT !.pc = pc].pc = pc
    BY DEF Holds
  <2> QED
    BY <1>1 DEF Works, Work, Idle
<1>5. Goes(r, Idle) \/ \E pc \in {"count", "write"} : Goes(r, [q EXCEPT !.pc = pc])
  BY DEF AssertNotLastAdmin, CountAdmins
<1> QED
  BY <1>2, <1>3, <1>4, <1>5, IdleHolds, GoingOn

LEMMA FailStep == ASSUME SessionInv, NEW r \in Requests, RequestFails(r) PROVE SessionInv'
  BY IdleHolds, GoingOn DEF RequestFails, Ends
-----------------------------------------------------------------------------
(* Steps that write *)

LEMMA WrongPasswordStep ==
    ASSUME SessionInv, NEW r \in Requests, WrongPassword(r) PROVE SessionInv'
<1> DEFINE q == req[r]
           failures == q.row.failedLoginCount + 1
           n == IF Locks(failures) THEN 0 ELSE failures
           t == IF Locks(failures) THEN now + Lockout ELSE None
<1>1. q \in Works /\ q.pc = "compare" /\ Holds(q)
  BY DEF WrongPassword, SessionInv, TypeOK, Works
<1>2. q.who \in Users /\ q.row \in Row /\ user[q.who] # Absent
  BY <1>1, WorkByPc DEF Holds
<1>3. user[q.who] \in Row
  BY <1>2 DEF SessionInv, TypeOK
<1>4. now \in Nat /\ now <= MaxTime /\ now \in Times
  BY TimesFacts DEF SessionInv, TypeOK
<1>5. n \in 0..(MaxFailedLogins - 1)
  BY <1>2, NumbersAssumption DEF Row, Locks
<1>6. t \in 0..(MaxTime + Lockout) \cup {None}
  BY <1>4, NumbersAssumption
<1>7. user' = [user EXCEPT ![q.who] =
                  [[user[q.who] EXCEPT !.failedLoginCount = n] EXCEPT !.lockedUntil = t]]
  <2>1. user' = [user EXCEPT ![q.who].failedLoginCount = n, ![q.who].lockedUntil = t]
    BY DEF WrongPassword
  <2>2. user \in [Users -> Row \cup {Absent}]
    BY DEF SessionInv, TypeOK
  <2> QED
    BY <1>2, <1>3, <2>1, <2>2
<1> DEFINE row1 == [user[q.who] EXCEPT !.failedLoginCount = n]
           row2 == [row1 EXCEPT !.lockedUntil = t]
<1> HIDE DEF n, t
<1>8. row1 \in Row /\ row1.tokenVersion = user[q.who].tokenVersion
  BY <1>3, <1>5 DEF Row
<1>9. row2 \in Row /\ row2.tokenVersion = user[q.who].tokenVersion /\ row2 # Absent
  <2> HIDE DEF row1
  <2> QED
    BY <1>6, <1>8, SentinelsAssumption DEF Row
<1>10. user' = [user EXCEPT ![q.who] = row2]
  BY <1>7
<1> HIDE DEF row2
<1>11. user' \in [Users -> Row \cup {Absent}] /\ RowsStay
  BY <1>2, <1>9, <1>10 DEF RowsStay, SessionInv, TypeOK
<1>12. UNCHANGED <<jar, now, acts, ends, session, accident>> /\ Goes(r, Idle)
  BY DEF WrongPassword, Ends
<1>13. req' \in [Requests -> Works] /\ (\A s \in Requests : Holds(req[s]))'
  BY <1>11, <1>12, IdleHolds, OthersHold
<1>14. wrong' \in [Users -> [count : Nat, since : Times \cup {None}]]
  <2> DEFINE W == [count : Nat, since : Times \cup {None}]
             count == wrong[q.who].count + 1
  <2>1. wrong \in [Users -> W]
    BY DEF SessionInv, TypeOK
  <2>2. count \in Nat
    BY <1>2, <2>1
  <2>3. PICK x : wrong' = [wrong EXCEPT ![q.who] = x] /\ x \in W
    <3>1. [count |-> 0, since |-> None] \in W /\ [count |-> 0, since |-> now] \in W
      BY <1>4
    <3>2. [count |-> IF Locks(failures) THEN 0 ELSE count, since |-> None] \in W
      BY <2>2
    <3>3. CASE AtLogin(r, q.who)
      BY <3>1, <3>3 DEF WrongPassword
    <3>4. CASE ~AtLogin(r, q.who) /\ count >= MaxFailedLogins
      BY <3>1, <3>4 DEF WrongPassword
    <3>5. CASE ~AtLogin(r, q.who) /\ ~(count >= MaxFailedLogins)
      BY <3>2, <3>5 DEF WrongPassword
    <3> QED
      BY <3>3, <3>4, <3>5
  <2> QED
    BY <2>1, <2>3
<1>15. TypeOK'
  BY <1>11, <1>12, <1>13, <1>14 DEF SessionInv, TypeOK, Works
<1>16. Versions'
  BY <1>2, <1>9, <1>10, <1>12 DEF SessionInv, TypeOK, Versions
<1>17. (\A u \in Users : TokenHolds(u, jar[u]))'
  BY <1>11, <1>12 DEF SessionInv, TokenHolds, RowsStay
<1> QED
  BY <1>13, <1>15, <1>16, <1>17 DEF SessionInv

\* A step that writes one row, or none, and lets its request go on.
LEMMA RowWritten ==
    ASSUME SessionInv, NEW u \in Users, NEW row \in Row,
           user' = [user EXCEPT ![u] = row] \/ UNCHANGED user
    PROVE  /\ user' \in [Users -> Row \cup {Absent}]
           /\ RowsStay
           /\ user' # user => user'[u] = row /\ row # Absent
           /\ \A v \in Users : v # u => user'[v] = user[v]
  BY SentinelsAssumption DEF SessionInv, TypeOK, RowsStay

LEMMA WroteAndWentOn ==
    ASSUME SessionInv, NEW r \in Requests, NEW w \in Works, Goes(r, w), Holds(w)', RowsStay,
           user' \in [Users -> Row \cup {Absent}], Versions',
           Act \/ UNCHANGED acts, UNCHANGED <<jar, now, session>>, ends' \in [Users -> Nat],
           wrong' \in [Users -> [count : Nat, since : Times \cup {None}]],
           accident' \in [{"removals", "cookies"} -> BOOLEAN]
    PROVE  SessionInv'
<1>1. acts' \in 0..MaxActs
  BY ActTyped DEF SessionInv
<1>2. req' \in [Requests -> Works] /\ (\A s \in Requests : Holds(req[s]))'
  BY OthersHold
<1>3. TypeOK'
  BY <1>1, <1>2 DEF SessionInv, TypeOK, Works
<1>4. (\A u \in Users : TokenHolds(u, jar[u]))'
  BY DEF SessionInv, TokenHolds, RowsStay
<1> QED
  BY <1>2, <1>3, <1>4 DEF SessionInv

LEMMA WrongCleared ==
    ASSUME TypeOK, NEW u \in Users,
           wrong' = [wrong EXCEPT ![u] = [count |-> 0, since |-> None]] \/ UNCHANGED wrong
    PROVE  wrong' \in [Users -> [count : Nat, since : Times \cup {None}]]
<1>1. [count |-> 0, since |-> None] \in [count : Nat, since : Times \cup {None}]
  OBVIOUS
<1> QED
  BY <1>1 DEF TypeOK

LEMMA RightPasswordStep ==
    ASSUME SessionInv, NEW r \in Requests, RightPassword(r) PROVE SessionInv'
<1> DEFINE q == req[r]
           t == Issue(q.who, q.row, q.opened)
           row1 == [user[q.who] EXCEPT !.failedLoginCount = 0]
           row2 == [row1 EXCEPT !.lockedUntil = None]
<1>1. q \in Works /\ q.pc = "compare" /\ Holds(q)
  BY DEF RightPassword, SessionInv, TypeOK, Works
<1>2. /\ q.who \in Users /\ q.row \in Row /\ q.opened \in Nat /\ user[q.who] # Absent
      /\ q.row.tokenVersion = q.opened
  BY <1>1, WorkByPc DEF Holds
<1>3. user[q.who] \in Row
  BY <1>2 DEF SessionInv, TypeOK
<1>4. user' = [user EXCEPT ![q.who] = row2] \/ UNCHANGED user
  <2>1. user' = [user EXCEPT ![q.who].failedLoginCount = 0, ![q.who].lockedUntil = None]
        \/ UNCHANGED user
    BY DEF RightPassword
  <2>2. user \in [Users -> Row \cup {Absent}]
    BY DEF SessionInv, TypeOK
  <2> QED
    BY <1>2, <1>3, <2>1, <2>2
<1>5. row1 \in Row /\ row1.tokenVersion = user[q.who].tokenVersion
  BY <1>3, NumbersAssumption DEF Row
<1>6. row2 \in Row /\ row2.tokenVersion = user[q.who].tokenVersion
  <2> HIDE DEF row1
  <2> QED
    BY <1>5 DEF Row
<1> HIDE DEF row2
<1>7. /\ user' \in [Users -> Row \cup {Absent}]
      /\ RowsStay
      /\ user' # user => user'[q.who] = row2 /\ row2 # Absent
      /\ \A v \in Users : v # q.who => user'[v] = user[v]
  BY <1>2, <1>4, <1>6, RowWritten
<1>8. /\ UNCHANGED <<jar, now, acts, ends, session, accident>> 
      /\ wrong' = [wrong EXCEPT ![q.who] = [count |-> 0, since |-> None]]
  BY DEF RightPassword
<1>9. Versions'
  BY <1>2, <1>6, <1>7, <1>8 DEF SessionInv, Versions
<1>10. t \in Token /\ t.tv = t.opened
  <2>1. now \in Times
    BY DEF SessionInv, TypeOK
  <2>2. t \in Token /\ t.tv = q.row.tokenVersion /\ t.opened = q.opened
    BY <1>2, <2>1, IssueTyped
  <2> QED
    BY <1>2, <2>2
<1>11. PICK w : w = [pc |-> "cookies", who |-> q.who, tok |-> t, op |-> None, target |-> q.who]
  OBVIOUS
<1>12. w \in Works /\ Holds(w)' /\ Goes(r, w)
  <2>1. user'[q.who] # Absent
    BY <1>2, <1>7 DEF RowsStay
  <2>2. Goes(r, w)
    BY <1>11 DEF RightPassword
  <2> HIDE DEF t
  <2>3. w \in Works
    BY <1>2, <1>10, <1>11 DEF Works, Work
  <2>4. Holds(w)'
    BY <1>10, <1>11, <2>1 DEF Holds, TokenHolds
  <2> QED
    BY <2>2, <2>3, <2>4
<1>13. wrong' \in [Users -> [count : Nat, since : Times \cup {None}]]
  BY <1>2, <1>8, WrongCleared DEF SessionInv
<1>14. ends' \in [Users -> Nat] /\ accident' \in [{"removals", "cookies"} -> BOOLEAN]
  BY <1>8 DEF SessionInv, TypeOK
<1> QED
  BY <1>7, <1>8, <1>9, <1>12, <1>13, <1>14, WroteAndWentOn

LEMMA GoogleLoginStep ==
    ASSUME SessionInv, NEW r \in Requests, GoogleLogin(r) PROVE SessionInv'
<1>1. PICK u \in Users :
          /\ Act
          /\ user' = IF user[u] = Absent THEN [user EXCEPT ![u] = NewRow("ATTENDANT", None)]
                     ELSE user
          /\ Goes(r, [pc |-> "cookies", who |-> u, tok |-> Issue(u, user'[u], ends[u]),
                      op |-> None, target |-> u])
          /\ UNCHANGED <<jar, now, ends, session, wrong, accident>>
  BY DEF GoogleLogin
<1> DEFINE new == NewRow("ATTENDANT", None)
           t == Issue(u, user'[u], ends[u])
<1>2. new \in Row /\ new.tokenVersion = 0
  BY RowsTyped DEF Roles
<1> HIDE DEF new
<1>3. /\ user' \in [Users -> Row \cup {Absent}]
      /\ RowsStay
      /\ user' # user => user'[u] = new /\ new # Absent
      /\ \A v \in Users : v # u => user'[v] = user[v]
  <2>1. user' = [user EXCEPT ![u] = new] \/ UNCHANGED user
    BY <1>1 DEF new
  <2> QED
    BY <1>2, <2>1, RowWritten
<1>4. user'[u] \in Row /\ user'[u].tokenVersion = ends[u] /\ ends[u] \in Nat /\ user'[u] # Absent
  <2>1. user \in [Users -> Row \cup {Absent}] /\ ends \in [Users -> Nat]
    BY DEF SessionInv, TypeOK
  <2>2. CASE user[u] = Absent
    <3>1. user'[u] = new
      BY <1>1, <2>1, <2>2 DEF new
    <3> QED
      BY <1>2, <2>1, <2>2, <3>1, SentinelsAssumption DEF SessionInv, Versions
  <2>3. CASE user[u] # Absent
    BY <1>1, <2>1, <2>3 DEF SessionInv, Versions
  <2> QED
    BY <2>2, <2>3
<1>5. Versions'
  BY <1>1, <1>3, <1>4 DEF SessionInv, Versions
<1>6. t \in Token /\ t.tv = t.opened
  <2>1. now \in Times
    BY DEF SessionInv, TypeOK
  <2>2. t \in Token /\ t.tv = user'[u].tokenVersion /\ t.opened = ends[u]
    BY <1>4, <2>1, IssueTyped
  <2> QED
    BY <1>4, <2>2
<1>7. PICK w : w = [pc |-> "cookies", who |-> u, tok |-> t, op |-> None, target |-> u]
  OBVIOUS
<1>8. w \in Works /\ Holds(w)' /\ Goes(r, w)
  <2>1. Goes(r, w)
    BY <1>1, <1>7
  <2> HIDE DEF t
  <2>2. w \in Works
    BY <1>6, <1>7 DEF Works, Work
  <2>3. Holds(w)'
    BY <1>4, <1>6, <1>7 DEF Holds, TokenHolds
  <2> QED
    BY <2>1, <2>2, <2>3
<1>9. /\ ends' \in [Users -> Nat] /\ accident' \in [{"removals", "cookies"} -> BOOLEAN]
      /\ wrong' \in [Users -> [count : Nat, since : Times \cup {None}]]
  BY <1>1 DEF SessionInv, TypeOK
<1> QED
  BY <1>1, <1>3, <1>5, <1>8, <1>9, WroteAndWentOn

LEMMA CrossBoolean == ASSUME NEW r \in Requests, TypeOK PROVE Cross(r) \in BOOLEAN
  BY DEF Cross, TypeOK

\* The cookies of one browser become a token that holds, or none.
LEMMA JarStep ==
    ASSUME SessionInv, NEW r \in Requests, NEW w \in Works, Goes(r, w), Holds(w),
           NEW u \in Users, NEW t \in Token \cup {None}, TokenHolds(u, t),
           jar' = [jar EXCEPT ![u] = t],
           session' = [session EXCEPT ![u] = t] \/ UNCHANGED session,
           accident' = [accident EXCEPT !["cookies"] = Cross(r)],
           UNCHANGED <<user, now, acts, ends, wrong>>
    PROVE  SessionInv'
<1>1. RowsStay
  BY DEF RowsStay
<1>2. Holds(w)'
  BY DEF Holds, TokenHolds
<1>3. req' \in [Requests -> Works] /\ (\A s \in Requests : Holds(req[s]))'
  BY <1>1, <1>2, OthersHold
<1>4. accident' \in [{"removals", "cookies"} -> BOOLEAN]
  BY CrossBoolean DEF SessionInv, TypeOK
<1>5. jar' \in [Users -> Token \cup {None}] /\ session' \in [Users -> Token \cup {None}]
  BY DEF SessionInv, TypeOK
<1>6. TypeOK'
  BY <1>3, <1>4, <1>5 DEF SessionInv, TypeOK, Works
<1>7. Versions'
  BY DEF SessionInv, Versions
<1>8. (\A v \in Users : TokenHolds(v, jar[v]))'
  <2> SUFFICES ASSUME NEW v \in Users PROVE TokenHolds(v, jar[v])'
    OBVIOUS
  <2>1. jar \in [Users -> Token \cup {None}]
    BY DEF SessionInv, TypeOK
  <2>2. CASE v = u
    BY <2>1, <2>2 DEF TokenHolds
  <2>3. CASE v # u
    BY <2>1, <2>3 DEF SessionInv, TokenHolds
  <2> QED
    BY <2>2, <2>3
<1> QED
  BY <1>3, <1>6, <1>7, <1>8 DEF SessionInv

LEMMA SetCookiesStep ==
    ASSUME SessionInv, NEW r \in Requests, SetCookies(r) PROVE SessionInv'
<1> DEFINE q == req[r]
<1>1. q \in Works /\ q.pc = "cookies" /\ Holds(q)
  BY DEF SetCookies, SessionInv, TypeOK, Works
<1>2. /\ q.who \in Users /\ q.tok \in Token /\ q.op \in Ops \cup {None} /\ q.target \in Users
      /\ TokenHolds(q.who, q.tok)
  BY <1>1, WorkByPc DEF Holds
<1>3. PICK w : w = IF q.op = None THEN Idle
                   ELSE [pc |-> "validate", who |-> q.who, tok |-> q.tok, op |-> q.op,
                         target |-> q.target, retried |-> TRUE]
  OBVIOUS
<1>4. Goes(r, w)
  BY <1>3 DEF SetCookies
<1>5. w \in Works
  BY <1>2, <1>3 DEF Works, Work
<1>6. Holds(w)
  BY <1>2, <1>3 DEF Holds, Idle
<1>7. PICK u \in Users, t \in Token \cup {None} : u = q.who /\ t = q.tok
  BY <1>2
<1>8. /\ jar' = [jar EXCEPT ![u] = t]
      /\ session' = [session EXCEPT ![u] = t] \/ UNCHANGED session
      /\ accident' = [accident EXCEPT !["cookies"] = Cross(r)]
      /\ UNCHANGED <<user, now, acts, ends, wrong>>
  BY <1>7 DEF SetCookies
<1> QED
  BY <1>2, <1>4, <1>5, <1>6, <1>7, <1>8, JarStep

LEMMA ClearCookiesStep ==
    ASSUME SessionInv, NEW r \in Requests, ClearCookies(r) PROVE SessionInv'
<1>1. req[r] \in Works /\ req[r].pc = "clear"
  BY DEF ClearCookies, SessionInv, TypeOK, Works
<1>2. PICK u \in Users : u = req[r].who
  BY <1>1, WorkByPc
<1>3. /\ jar' = [jar EXCEPT ![u] = None] /\ session' = [session EXCEPT ![u] = None]
      /\ accident' = [accident EXCEPT !["cookies"] = Cross(r)] /\ Goes(r, Idle)
      /\ UNCHANGED <<user, now, acts, ends, wrong>>
  BY <1>2 DEF ClearCookies, Ends
<1>4. TokenHolds(u, None)
  BY DEF TokenHolds
<1> QED
  BY <1>3, <1>4, IdleHolds, JarStep

\* The sessions of a user end: the version of the row goes up with the count.
LEMMA VersionsKept ==
    ASSUME SessionInv, NEW u \in Users, NEW row \in Row, user[u] # Absent,
           row.tokenVersion = user[u].tokenVersion + 1,
           user' = [user EXCEPT ![u] = row], ends' = [ends EXCEPT ![u] = @ + 1]
    PROVE  Versions' /\ ends' \in [Users -> Nat] /\ RowsStay
           /\ user' \in [Users -> Row \cup {Absent}]
<1>1. user \in [Users -> Row \cup {Absent}] /\ ends \in [Users -> Nat]
  BY DEF SessionInv, TypeOK
<1>2. row # Absent
  BY SentinelsAssumption
<1>3. user[u].tokenVersion = ends[u]
  BY DEF SessionInv, Versions
<1>4. Versions'
  BY <1>1, <1>2, <1>3 DEF SessionInv, Versions
<1> QED
  BY <1>1, <1>2, <1>4 DEF RowsStay

LEMMA LogoutStep == ASSUME SessionInv, NEW r \in Requests, Logout(r) PROVE SessionInv'
<1>1. PICK u \in Users :
          /\ Act
          /\ Goes(r, [pc |-> "clear", who |-> u])
          /\ IF Unexpired(jar[u], RefreshTTL)
             THEN user' = [user EXCEPT ![u] = Revoked(@)] /\ ends' = [ends EXCEPT ![u] = @ + 1]
             ELSE UNCHANGED <<user, ends>>
          /\ UNCHANGED <<jar, now, session, wrong, accident>>
  BY DEF Logout
<1>2. PICK w : w = [pc |-> "clear", who |-> u]
  OBVIOUS
<1>3. w \in Works /\ Holds(w)' /\ Goes(r, w)
  BY <1>1, <1>2 DEF Works, Work, Holds
<1>4. /\ wrong' \in [Users -> [count : Nat, since : Times \cup {None}]]
      /\ accident' \in [{"removals", "cookies"} -> BOOLEAN]
  BY <1>1 DEF SessionInv, TypeOK
<1>5. CASE Unexpired(jar[u], RefreshTTL)
  <2>1. user[u] # Absent
    BY <1>5 DEF Unexpired, SessionInv, TokenHolds
  <2>2. user[u] \in Row /\ user \in [Users -> Row \cup {Absent}]
    BY <2>1 DEF SessionInv, TypeOK
  <2>3. PICK row \in Row : row = Revoked(user[u])
    BY <2>2, RowsTyped
  <2>4. row.tokenVersion = user[u].tokenVersion + 1
    BY <2>2, <2>3, RowsTyped
  <2>5. user' = [user EXCEPT ![u] = row] /\ ends' = [ends EXCEPT ![u] = @ + 1]
    BY <1>1, <1>5, <2>2, <2>3
  <2>6. Versions' /\ ends' \in [Users -> Nat] /\ RowsStay
        /\ user' \in [Users -> Row \cup {Absent}]
    BY <2>1, <2>4, <2>5, VersionsKept
  <2> QED
    BY <1>1, <1>3, <1>4, <2>6, WroteAndWentOn
<1>6. CASE ~Unexpired(jar[u], RefreshTTL)
  <2>1. Versions' /\ RowsStay /\ ends' \in [Users -> Nat] /\ user' \in [Users -> Row \cup {Absent}]
    BY <1>1, <1>6 DEF SessionInv, TypeOK, Versions, RowsStay
  <2> QED
    BY <1>1, <1>3, <1>4, <2>1, WroteAndWentOn
<1> QED
  BY <1>5, <1>6

LEMMA CreateUserStep == ASSUME SessionInv, NEW r \in Requests, CreateUser(r) PROVE SessionInv'
<1> DEFINE q == req[r]
<1>1. q \in Works /\ q.pc = "write"
  BY DEF CreateUser, SessionInv, TypeOK, Works
<1>2. PICK u \in Users : u = q.target
  BY <1>1, WorkByPc
<1>3. UNCHANGED <<jar, now, acts, ends, session, wrong, accident>> /\ Goes(r, Idle)
  BY DEF CreateUser, Ends
<1>4. PICK role \in Roles :
             \/ user' = [user EXCEPT ![u] = NewRow(role, 0)] /\ user[u] = Absent
             \/ UNCHANGED user
  BY <1>2 DEF CreateUser, Roles
<1>5. PICK row \in Row : row = NewRow(role, 0) /\ row.tokenVersion = 0
  BY RowsTyped
<1>6. /\ user' \in [Users -> Row \cup {Absent}]
      /\ RowsStay
      /\ user' # user => user'[u] = row /\ row # Absent
      /\ \A v \in Users : v # u => user'[v] = user[v]
  BY <1>4, <1>5, RowWritten
<1>7. Versions'
  <2>1. CASE user' = user
    BY <1>3, <2>1 DEF SessionInv, Versions
  <2>2. CASE user' # user
    <3>1. ends[u] = 0 /\ user[u] = Absent
      BY <1>4, <2>2 DEF SessionInv, Versions
    <3> QED
      BY <1>3, <1>5, <1>6, <2>2, <3>1 DEF SessionInv, Versions
  <2> QED
    BY <2>1, <2>2
<1>8. /\ ends' \in [Users -> Nat] /\ accident' \in [{"removals", "cookies"} -> BOOLEAN]
      /\ wrong' \in [Users -> [count : Nat, since : Times \cup {None}]]
  BY <1>3 DEF SessionInv, TypeOK
<1> QED
  BY <1>3, <1>6, <1>7, <1>8, IdleHolds, WroteAndWentOn

LEMMA WriteUserStep == ASSUME SessionInv, NEW r \in Requests, WriteUser(r) PROVE SessionInv'
<1> DEFINE q == req[r]
           password == q.op \in {"resetPassword", "changePassword"}
<1>1. q \in Works /\ q.pc = "write"
  BY DEF WriteUser, SessionInv, TypeOK, Works
<1>2. PICK u \in Users, op \in Ops : u = q.target /\ op = q.op
  BY <1>1, WorkByPc
<1>3. UNCHANGED <<jar, now, acts, session>> /\ Goes(r, Idle)
  BY DEF WriteUser, Ends
<1>4. CASE UNCHANGED <<user, ends, wrong, accident>>
  <2>1. SessionInv'
    BY <1>3, <1>4, IdleHolds, GoingOn
  <2> QED
    BY <2>1
<1>5. CASE /\ user[u] # Absent
           /\ user' = [user EXCEPT ![u] = Changed(user[u], op)]
           /\ ends' = [ends EXCEPT ![u] = @ + 1]
           /\ wrong' = [wrong EXCEPT ![u] = [count |-> 0, since |-> None]] \/ UNCHANGED wrong
           /\ accident' \in [{"removals", "cookies"} -> BOOLEAN]
  <2>1. user[u] \in Row
    BY <1>5 DEF SessionInv, TypeOK
  <2>2. PICK row \in Row : row = Changed(user[u], op)
    BY <2>1, RowsTyped
  <2>3. row.tokenVersion = user[u].tokenVersion + 1
    BY <2>1, <2>2, RowsTyped
  <2>4. Versions' /\ ends' \in [Users -> Nat] /\ RowsStay
        /\ user' \in [Users -> Row \cup {Absent}]
    BY <1>5, <2>2, <2>3, VersionsKept
  <2>5. wrong' \in [Users -> [count : Nat, since : Times \cup {None}]]
    BY <1>5, WrongCleared DEF SessionInv
  <2> QED
    BY <1>3, <1>5, <2>4, <2>5, IdleHolds, WroteAndWentOn
<1>6. accident' \in [{"removals", "cookies"} -> BOOLEAN]
  <2>1. accident \in [{"removals", "cookies"} -> BOOLEAN]
    BY DEF SessionInv, TypeOK
  <2>2. \/ UNCHANGED accident
        \/ accident' = [accident EXCEPT !["removals"] = @ \/
               (~password /\ \E s \in Others(r) : s.pc \in {"count", "write"} /\ s.op \in Removals)]
    BY DEF WriteUser
  <2> QED
    BY <2>1, <2>2
<1> QED
  BY <1>2, <1>4, <1>5, <1>6 DEF WriteUser

LEMMA TickStep == ASSUME SessionInv, Tick PROVE SessionInv'
<1>1. now' \in Times
  BY NumbersAssumption DEF Tick, SessionInv, TypeOK, Times
<1>2. TypeOK'
  BY <1>1 DEF Tick, SessionInv, TypeOK
<1>3. Versions' /\ (\A u \in Users : TokenHolds(u, jar[u]))'
  BY DEF Tick, SessionInv, Versions, TokenHolds
<1>4. (\A r \in Requests : Holds(req[r]))'
  BY DEF Tick, SessionInv, Holds, TokenHolds
<1> QED
  BY <1>2, <1>3, <1>4 DEF SessionInv
-----------------------------------------------------------------------------
(* The theorems about sessions *)

LEMMA SessionInit == Init => SessionInv
<1> SUFFICES ASSUME Init PROVE SessionInv
  OBVIOUS
<1> DEFINE t == [tv |-> 0, at |-> 0, opened |-> 0]
           cleared == [count |-> 0, since |-> None]
<1>1. NewRow("ADMIN", 0) \in Row /\ NewRow("ADMIN", 0).tokenVersion = 0
  BY RowsTyped DEF Roles
<1>2. t \in Token
  BY TimesFacts DEF Token
<1>3. /\ user \in [Users -> {NewRow("ADMIN", 0), Absent}]
      /\ \A u \in Users : user[u] # Absent => user[u] \in Row /\ user[u].tokenVersion = 0
      /\ user \in [Users -> Row \cup {Absent}]
  BY <1>1 DEF Init
<1>4. PICK u \in Users : user[u] # Absent /\ jar = [v \in Users |-> IF v = u THEN t ELSE None]
  BY DEF Init
<1>5. jar \in [Users -> Token \cup {None}] /\ session = jar
  BY <1>2, <1>4 DEF Init
<1>6. \A v \in Users : TokenHolds(v, jar[v])
  BY <1>4 DEF TokenHolds
<1>7. cleared \in [count : Nat, since : Times \cup {None}]
  OBVIOUS
<1>8. wrong \in [Users -> [count : Nat, since : Times \cup {None}]]
  BY <1>7 DEF Init
<1>9. ends \in [Users -> Nat] /\ \A v \in Users : ends[v] = 0
  BY DEF Init
<1>10. req \in [Requests -> Work \cup {Idle}] /\ \A r \in Requests : req[r] = Idle
  BY DEF Init
<1>11. now \in Times /\ acts \in 0..MaxActs /\ accident \in [{"removals", "cookies"} -> BOOLEAN]
  BY NumbersAssumption, TimesFacts DEF Init
<1>12. TypeOK
  BY <1>3, <1>5, <1>8, <1>9, <1>10, <1>11 DEF TypeOK
<1>13. Versions
  BY <1>3, <1>9 DEF Versions
<1> QED
  BY <1>6, <1>10, <1>12, <1>13, IdleHolds DEF SessionInv

LEMMA SessionStep == SessionInv /\ [Next]_vars => SessionInv'
<1> SUFFICES ASSUME SessionInv, [Next]_vars PROVE SessionInv'
  OBVIOUS
<1>1. CASE UNCHANGED vars
  BY <1>1 DEF vars, SessionInv, TypeOK, Versions, Holds, TokenHolds
<1>2. ASSUME NEW r \in Requests, Step(r) PROVE SessionInv'
  BY <1>2, LoginStep, ReadLoginStep, WrongPasswordStep, RightPasswordStep, GoogleLoginStep, AskStep,
     ValidateStep, RefreshStep, SetCookiesStep, LogoutStep, ClearCookiesStep, AssertStep,
     CreateUserStep, WriteUserStep, FailStep DEF Step
<1> QED
  BY <1>1, <1>2, TickStep DEF Next

\* Users, cookies, requests and counters are always well typed: a counter of
\* failed logins never reaches the number that locks.
THEOREM TypeCorrect == Spec => []TypeOK
<1>1. SessionInv => TypeOK
  BY DEF SessionInv
<1> QED
  BY <1>1, SessionInit, SessionStep, PTL DEF Spec

\* However logins, refreshes, logouts and changes of users overlap: a token that
\* would be let through is of a login that read its row after the sessions of
\* its user were last ended.
THEOREM LiveSessionsAlwaysRecent == Spec => []LiveSessionsAreRecent
<1>1. SessionInv => LiveSessionsAreRecent
  <2> SUFFICES ASSUME SessionInv, NEW u \in Users, NEW t \in Held(u), t # None,
                      Accepted(user[u], t)
               PROVE  t.opened = ends[u]
    BY DEF LiveSessionsAreRecent
  <2>1. TokenHolds(u, t)
    BY DEF Held, SessionInv, Holds
  <2>2. t.tv = user[u].tokenVersion /\ user[u] # Absent
    BY DEF Accepted
  <2> QED
    BY <2>1, <2>2 DEF TokenHolds, SessionInv, Versions
<1> QED
  BY <1>1, SessionInit, SessionStep, PTL DEF Spec
-----------------------------------------------------------------------------
(* The lock *)

\* The counter of a row is never behind the wrong passwords in a row.  While an
\* account is to be locked, the row says so, and nothing compares a password.
Locked(u) == wrong[u].since # None /\ now < wrong[u].since + Lockout

LockHolds(u) ==
    /\ user[u] = Absent => wrong[u].count = 0 /\ wrong[u].since = None
    /\ user[u] # Absent => user[u].failedLoginCount >= wrong[u].count
    /\ Locked(u) => /\ user[u].lockedUntil = wrong[u].since + Lockout
                    /\ \A r \in Requests : ~(req[r].pc = "compare" /\ req[r].who = u)

CompareHolds(q) == q.pc = "compare" => q.row.failedLoginCount >= wrong[q.who].count

LockInv ==
    /\ SessionInv
    /\ \A u \in Users : LockHolds(u)
    /\ \A r \in Requests : CompareHolds(req[r])

\* A step leaves the wrong passwords of a user and the counter and lock of her
\* row alone, or starts the former anew.
Calm(u) ==
    \/ wrong'[u] = [count |-> 0, since |-> None]
    \/ /\ wrong'[u] = wrong[u]
       /\ user[u] # Absent => /\ user'[u].failedLoginCount = user[u].failedLoginCount
                              /\ user'[u].lockedUntil = user[u].lockedUntil

LEMMA CalmStep ==
    ASSUME LockInv, SessionInv', NEW r \in Requests, NEW w, Goes(r, w), w.pc # "compare",
           RowsStay, \A u \in Users : Calm(u), UNCHANGED now
    PROVE  LockInv'
<1>1. \A s \in Requests : req'[s] = IF s = r THEN w ELSE req[s]
  BY DEF LockInv, SessionInv, TypeOK, Goes
<1>2. ASSUME NEW u \in Users PROVE LockHolds(u)'
  <2>1. LockHolds(u) /\ Calm(u)
    BY DEF LockInv
  <2>2. user'[u] # Absent => user'[u].failedLoginCount \in Nat
    BY NumbersAssumption DEF SessionInv, TypeOK, Row
  <2>3. CASE wrong'[u] = [count |-> 0, since |-> None]
    BY <2>2, <2>3 DEF LockHolds, Locked
  <2>4. CASE wrong'[u] = wrong[u] /\ user[u] = Absent
    BY <2>1, <2>2, <2>4 DEF LockHolds, Locked
  <2>5. CASE wrong'[u] = wrong[u] /\ user[u] # Absent
               /\ user'[u].failedLoginCount = user[u].failedLoginCount
               /\ user'[u].lockedUntil = user[u].lockedUntil
    BY <1>1, <2>1, <2>5 DEF LockHolds, Locked, RowsStay
  <2> QED
    BY <2>1, <2>3, <2>4, <2>5 DEF Calm
<1>3. ASSUME NEW s \in Requests PROVE CompareHolds(req[s])'
  <2>1. CASE s = r
    BY <1>1, <2>1 DEF CompareHolds
  <2>2. CASE s # r /\ req[s].pc = "compare"
    <3>1. req'[s] = req[s] /\ CompareHolds(req[s])
      BY <1>1, <2>2 DEF LockInv
    <3>2. req[s] \in Works
      BY DEF LockInv, SessionInv, TypeOK, Works
    <3>3. req[s].who \in Users /\ req[s].row.failedLoginCount \in Nat
      <4>1. req[s].who \in Users /\ req[s].row \in Row
        BY <2>2, <3>2, WorkByPc
      <4> QED
        BY <4>1, NumbersAssumption DEF Row
    <3>4. wrong'[req[s].who].count = 0 \/ wrong'[req[s].who] = wrong[req[s].who]
      BY <3>3 DEF Calm
    <3> QED
      BY <2>2, <3>1, <3>3, <3>4 DEF CompareHolds
  <2>3. CASE s # r /\ req[s].pc # "compare"
    BY <1>1, <2>3 DEF CompareHolds
  <2> QED
    BY <2>1, <2>2, <2>3
<1> QED
  BY <1>2, <1>3 DEF LockInv

\* Steps that go on to no comparison and leave the rows alone.
LEMMA QuietLock ==
    ASSUME LockInv, SessionInv', NEW r \in Requests, NEW w, Goes(r, w), w.pc # "compare",
           UNCHANGED <<user, wrong, now>>
    PROVE  LockInv'
<1>1. RowsStay /\ \A u \in Users : Calm(u)
  BY DEF RowsStay, Calm
<1> QED
  BY <1>1, CalmStep

LEMMA SessionLock ==
    ASSUME LockInv, SessionInv', NEW r \in Requests,
           Login(r) \/ Ask(r) \/ Validate(r) \/ Refresh(r) \/ SetCookies(r) \/ ClearCookies(r)
             \/ AssertNotLastAdmin(r) \/ CountAdmins(r) \/ RequestFails(r)
    PROVE  LockInv'
<1>1. UNCHANGED <<user, wrong, now>>
  BY DEF Login, Ask, Validate, Refresh, SetCookies, ClearCookies, AssertNotLastAdmin, CountAdmins,
         RequestFails
<1>2. req[r] \in Works
  BY DEF LockInv, SessionInv, TypeOK, Works
<1>3. \E w : Goes(r, w) /\ w.pc # "compare"
  <2>1. CASE Login(r)
    <3>1. PICK u \in Users, typed \in Counts :
              Goes(r, [pc |-> "login", who |-> u, typed |-> typed])
      BY <2>1 DEF Login
    <3>2. PICK w : w = [pc |-> "login", who |-> u, typed |-> typed]
      OBVIOUS
    <3> QED
      BY <3>1, <3>2
  <2>5. CASE Ask(r)
    <3>1. PICK u \in Users, op \in Ops, target \in Users :
              Goes(r, [pc |-> "validate", who |-> u, tok |-> jar[u], op |-> op,
                       target |-> target, retried |-> FALSE])
      BY <2>5 DEF Ask
    <3>2. PICK w : w = [pc |-> "validate", who |-> u, tok |-> jar[u], op |-> op,
                        target |-> target, retried |-> FALSE]
      OBVIOUS
    <3> QED
      BY <3>1, <3>2
  <2>2. CASE Validate(r)
    BY <2>2 DEF Validate, Ends, Idle, Handling
  <2>3. CASE Refresh(r) \/ SetCookies(r) \/ ClearCookies(r) \/ RequestFails(r)
    BY <2>3 DEF Refresh, SetCookies, ClearCookies, RequestFails, Ends, Idle
  <2>4. CASE AssertNotLastAdmin(r) \/ CountAdmins(r)
    <3>1. req[r].pc \in {"assert", "count"}
      BY <2>4 DEF AssertNotLastAdmin, CountAdmins
    <3>2. \A pc \in {"count", "write"} : [req[r] EXCEPT !.pc = pc].pc = pc
      BY <1>2, <3>1 DEF Works, Work, Idle
    <3>3. Goes(r, Idle) \/ \E pc \in {"count", "write"} : Goes(r, [req[r] EXCEPT !.pc = pc])
      BY <2>4 DEF AssertNotLastAdmin, CountAdmins
    <3> QED
      BY <3>2, <3>3 DEF Idle
  <2> QED
    BY <2>1, <2>2, <2>3, <2>4, <2>5
<1> QED
  BY <1>1, <1>3, QuietLock

\* The row is read: an account that is to be locked is not compared.
LEMMA ReadLoginLock ==
    ASSUME LockInv, SessionInv', NEW r \in Requests, ReadLogin(r)
    PROVE  LockInv' /\ (req'[r].pc = "compare" => ~Locked(req[r].who))
<1> DEFINE q == req[r]
           w == [pc |-> "compare", who |-> q.who, typed |-> q.typed, row |-> user[q.who],
                 opened |-> ends[q.who]]
<1>1. q \in Works /\ q.pc = "login"
  BY DEF ReadLogin, LockInv, SessionInv, TypeOK, Works
<1>2. q.who \in Users
  BY <1>1, WorkByPc
<1>3. UNCHANGED <<user, wrong, now>>
  BY DEF ReadLogin
<1>4. CASE Goes(r, Idle)
  <2>1. LockInv'
    BY <1>3, <1>4, QuietLock DEF Idle
  <2>2. req'[r] = Idle
    BY <1>4 DEF Goes, LockInv, SessionInv, TypeOK
  <2> QED
    BY <2>1, <2>2 DEF Idle
<1>5. CASE /\ user[q.who] # Absent /\ Goes(r, w)
           /\ ~(user[q.who].lockedUntil # None /\ user[q.who].lockedUntil > now)
  <2>1. \A s \in Requests : req'[s] = IF s = r THEN w ELSE req[s]
    BY <1>5 DEF LockInv, SessionInv, TypeOK, Goes
  <2>2. now \in Nat /\ wrong[q.who].since \in Nat \cup {None}
    BY <1>2, TimesFacts DEF LockInv, SessionInv, TypeOK
  <2>3. ~Locked(q.who)
    <3>1. SUFFICES ASSUME Locked(q.who) PROVE FALSE
      OBVIOUS
    <3>2. user[q.who].lockedUntil = wrong[q.who].since + Lockout /\ wrong[q.who].since # None
      BY <1>2, <3>1 DEF LockInv, LockHolds, Locked
    <3>3. wrong[q.who].since + Lockout \in Nat /\ now < wrong[q.who].since + Lockout
      BY <2>2, <3>1, <3>2, NumbersAssumption DEF Locked
    <3> QED
      BY <1>5, <2>2, <3>2, <3>3, SentinelsAssumption
  <2>4. ASSUME NEW u \in Users PROVE LockHolds(u)'
    <3>1. LockHolds(u)
      BY DEF LockInv
    <3>2. Locked(u)' => Locked(u) /\ u # q.who
      BY <1>3, <2>3 DEF Locked
    <3>3. w.who = q.who
      OBVIOUS
    <3> HIDE DEF w
    <3> QED
      BY <1>3, <2>1, <3>1, <3>2, <3>3 DEF LockHolds
  <2>5. ASSUME NEW s \in Requests PROVE CompareHolds(req[s])'
    <3>1. CASE s = r
      <4>1. user[q.who].failedLoginCount >= wrong[q.who].count
        BY <1>2, <1>5 DEF LockInv, LockHolds
      <4> QED
        BY <1>3, <2>1, <3>1, <4>1 DEF CompareHolds
    <3>2. CASE s # r
      BY <1>3, <2>1, <3>2 DEF LockInv, CompareHolds
    <3> QED
      BY <3>1, <3>2
  <2> QED
    BY <2>3, <2>4, <2>5 DEF LockInv
<1> QED
  BY <1>4, <1>5 DEF ReadLogin, Ends

LEMMA RightPasswordLock ==
    ASSUME LockInv, SessionInv', NEW r \in Requests, RightPassword(r) PROVE LockInv'
<1> DEFINE q == req[r]
<1>1. q \in Works /\ q.pc = "compare" /\ user[q.who] # Absent
  BY DEF RightPassword, LockInv, SessionInv, Holds, TypeOK, Works
<1>2. q.who \in Users
  BY <1>1, WorkByPc
<1>3. PICK w : Goes(r, w) /\ w.pc # "compare"
  BY DEF RightPassword
<1>4. /\ wrong' = [wrong EXCEPT ![q.who] = [count |-> 0, since |-> None]] /\ UNCHANGED now
      /\ \A u \in Users : u # q.who => user'[u] = user[u]
  BY DEF RightPassword, LockInv, SessionInv, TypeOK
<1>5. \A u \in Users : Calm(u)
  BY <1>4 DEF Calm, LockInv, SessionInv, TypeOK
<1>6. user'[q.who] # Absent
  <2>1. user[q.who] \in Row /\ user \in [Users -> Row \cup {Absent}]
    BY <1>1, <1>2 DEF LockInv, SessionInv, TypeOK
  <2>2. \/ UNCHANGED user
        \/ user'[q.who] = [[user[q.who] EXCEPT !.failedLoginCount = 0] EXCEPT !.lockedUntil = None]
    BY <1>2, <2>1 DEF RightPassword
  <2>3. [user[q.who] EXCEPT !.failedLoginCount = 0] \in Row
    BY <2>1, NumbersAssumption DEF Row
  <2>4. \A x \in Row : [x EXCEPT !.lockedUntil = None] \in Row
    BY DEF Row
  <2> QED
    BY <1>1, <2>2, <2>3, <2>4, SentinelsAssumption
<1>7. RowsStay
  BY <1>4, <1>6 DEF RowsStay
<1> QED
  BY <1>3, <1>4, <1>5, <1>7, CalmStep

\* Ending sessions, and changing a role, leave the counter and the lock alone.
LEMMA LockUntouched ==
    ASSUME NEW row \in Row
    PROVE  /\ Revoked(row).failedLoginCount = row.failedLoginCount
           /\ Revoked(row).lockedUntil = row.lockedUntil
           /\ \A op \in {"deactivate", "demote", "promote"} :
                /\ Changed(row, op).failedLoginCount = row.failedLoginCount
                /\ Changed(row, op).lockedUntil = row.lockedUntil
<1>1. ASSUME NEW x \in Row
      PROVE  /\ Revoked(x).failedLoginCount = x.failedLoginCount
             /\ Revoked(x).lockedUntil = x.lockedUntil
  BY DEF Revoked, Row
<1>2. /\ [row EXCEPT !.active = FALSE] \in Row
      /\ [row EXCEPT !.active = FALSE].failedLoginCount = row.failedLoginCount
      /\ [row EXCEPT !.active = FALSE].lockedUntil = row.lockedUntil
  BY DEF Row
<1>3. \A role \in Roles :
        /\ [row EXCEPT !.role = role] \in Row
        /\ [row EXCEPT !.role = role].failedLoginCount = row.failedLoginCount
        /\ [row EXCEPT !.role = role].lockedUntil = row.lockedUntil
  BY DEF Row
<1>4. /\ Changed(row, "deactivate") = Revoked([row EXCEPT !.active = FALSE])
      /\ Changed(row, "demote") = Revoked([row EXCEPT !.role = "ATTENDANT"])
      /\ Changed(row, "promote") = Revoked([row EXCEPT !.role = "ADMIN"])
  BY DEF Changed
<1>5. \A op \in {"deactivate", "demote", "promote"} :
        \E x \in Row : /\ Changed(row, op) = Revoked(x)
                       /\ x.failedLoginCount = row.failedLoginCount
                       /\ x.lockedUntil = row.lockedUntil
  <2>1. "ADMIN" \in Roles /\ "ATTENDANT" \in Roles
    BY DEF Roles
  <2> QED
    BY <1>2, <1>3, <1>4, <2>1
<1> QED
  BY <1>1, <1>5

LEMMA GoogleLoginLock ==
    ASSUME LockInv, SessionInv', NEW r \in Requests, GoogleLogin(r) PROVE LockInv'
<1>1. PICK u \in Users : \E x :
          /\ user' = IF user[u] = Absent THEN [user EXCEPT ![u] = NewRow("ATTENDANT", None)]
                     ELSE user
          /\ x.pc # "compare" /\ Goes(r, x)
          /\ UNCHANGED <<now, wrong>>
  BY DEF GoogleLogin
<1>2. NewRow("ATTENDANT", None) # Absent
  BY RowsTyped, SentinelsAssumption DEF Roles
<1>3. \A v \in Users : user[v] # Absent => user'[v] = user[v]
  BY <1>1 DEF LockInv, SessionInv, TypeOK
<1>4. RowsStay /\ \A v \in Users : Calm(v)
  BY <1>1, <1>3 DEF RowsStay, Calm
<1> QED
  BY <1>1, <1>4, CalmStep

LEMMA CreateUserLock ==
    ASSUME LockInv, SessionInv', NEW r \in Requests, CreateUser(r) PROVE LockInv'
<1>1. Goes(r, Idle) /\ UNCHANGED <<now, wrong>>
  BY DEF CreateUser, Ends
<1>2. \A v \in Users : user[v] # Absent => user'[v] = user[v]
  BY DEF CreateUser, LockInv, SessionInv, TypeOK
<1>3. RowsStay /\ \A v \in Users : Calm(v)
  BY <1>1, <1>2 DEF RowsStay, Calm
<1> QED
  BY <1>1, <1>3, CalmStep DEF Idle

LEMMA LogoutLock ==
    ASSUME LockInv, SessionInv', NEW r \in Requests, Logout(r) PROVE LockInv'
<1>1. PICK u \in Users :
          /\ \E x : x.pc # "compare" /\ Goes(r, x)
          /\ \/ user' = [user EXCEPT ![u] = Revoked(@)] /\ Unexpired(jar[u], RefreshTTL)
             \/ UNCHANGED user
          /\ UNCHANGED <<now, wrong>>
  BY DEF Logout
<1>2. user \in [Users -> Row \cup {Absent}]
  BY DEF LockInv, SessionInv, TypeOK
<1>3. user' = user \/ (user[u] \in Row /\ user' = [user EXCEPT ![u] = Revoked(user[u])])
  BY <1>1, <1>2 DEF Unexpired, LockInv, SessionInv, TokenHolds
<1>4. user[u] \in Row => /\ Revoked(user[u]) # Absent
                         /\ Revoked(user[u]).failedLoginCount = user[u].failedLoginCount
                         /\ Revoked(user[u]).lockedUntil = user[u].lockedUntil
  BY RowsTyped, LockUntouched, SentinelsAssumption
<1>5. RowsStay /\ \A v \in Users : Calm(v)
  BY <1>1, <1>2, <1>3, <1>4 DEF RowsStay, Calm
<1> QED
  BY <1>1, <1>5, CalmStep

LEMMA WriteUserLock ==
    ASSUME LockInv, SessionInv', NEW r \in Requests, WriteUser(r) PROVE LockInv'
<1> DEFINE q == req[r]
           password == q.op \in {"resetPassword", "changePassword"}
<1>1. q \in Works /\ q.pc = "write" /\ q.op # "create"
  BY DEF WriteUser, LockInv, SessionInv, TypeOK, Works
<1>2. PICK u \in Users, op \in Ops : u = q.target /\ op = q.op
  BY <1>1, WorkByPc
<1>3. UNCHANGED now /\ Goes(r, Idle)
  BY DEF WriteUser, Ends
<1>4. CASE UNCHANGED <<user, wrong>>
  BY <1>3, <1>4, QuietLock DEF Idle
<1>5. CASE /\ user[u] # Absent
           /\ user' = [user EXCEPT ![u] = Changed(user[u], op)]
           /\ wrong' = IF password THEN [wrong EXCEPT ![u] = [count |-> 0, since |-> None]]
                       ELSE wrong
           /\ op \notin Looks
  <2>1. user \in [Users -> Row \cup {Absent}] /\ user[u] \in Row
    BY <1>5 DEF LockInv, SessionInv, TypeOK
  <2>2. Changed(user[u], op) # Absent
    BY <2>1, RowsTyped, SentinelsAssumption
  <2>3. RowsStay
    BY <1>5, <2>1, <2>2 DEF RowsStay
  <2>4. CASE password
    <3>1. \A v \in Users : Calm(v)
      BY <1>5, <2>1, <2>4 DEF Calm, LockInv, SessionInv, TypeOK
    <3> QED
      BY <1>3, <2>3, <3>1, CalmStep DEF Idle
  <2>5. CASE ~password
    <3>1. op \in {"deactivate", "demote", "promote"}
      BY <1>1, <1>2, <1>5, <2>5 DEF Ops, AdminOps, Removals
    <3>2. \A v \in Users : Calm(v)
      BY <1>5, <2>1, <2>5, <3>1, LockUntouched DEF Calm
    <3> QED
      BY <1>3, <2>3, <3>2, CalmStep DEF Idle
  <2> QED
    BY <2>4, <2>5
<1>6. q.op \notin Looks
  BY <1>1, WorkByPc
<1> QED
  BY <1>2, <1>4, <1>5, <1>6 DEF WriteUser


\* What the row holds after a wrong password, and the wrong passwords in a row.
LEMMA WrongPasswordWrites ==
    ASSUME SessionInv, NEW r \in Requests, WrongPassword(r)
    PROVE  LET q == req[r]
               u == q.who
               failures == q.row.failedLoginCount + 1
               count == wrong[u].count + 1
           IN /\ q \in Works /\ u \in Users /\ user[u] # Absent /\ q.row \in Row
              /\ user'[u].failedLoginCount = IF Locks(failures) THEN 0 ELSE failures
              /\ user'[u].lockedUntil = IF Locks(failures) THEN now + Lockout ELSE None
              /\ user'[u] # Absent
              /\ wrong'[u] =
                    CASE AtLogin(r, u) -> [count |-> 0, since |-> None]
                      [] ~AtLogin(r, u) /\ count >= MaxFailedLogins -> [count |-> 0, since |-> now]
                      [] OTHER -> [count |-> IF Locks(failures) THEN 0 ELSE count, since |-> None]
              /\ \A v \in Users \ {u} : user'[v] = user[v] /\ wrong'[v] = wrong[v]
              /\ Goes(r, Idle) /\ UNCHANGED now
<1> DEFINE q == req[r]
           failures == q.row.failedLoginCount + 1
           n == IF Locks(failures) THEN 0 ELSE failures
           t == IF Locks(failures) THEN now + Lockout ELSE None
<1>1. q \in Works /\ q.pc = "compare" /\ Holds(q)
  BY DEF WrongPassword, SessionInv, TypeOK, Works
<1>2. q.who \in Users /\ q.row \in Row /\ user[q.who] # Absent
  BY <1>1, WorkByPc DEF Holds
<1>3. user[q.who] \in Row
  BY <1>2 DEF SessionInv, TypeOK
<1>4. user \in [Users -> Row \cup {Absent}]
      /\ wrong \in [Users -> [count : Nat, since : Times \cup {None}]]
  BY DEF SessionInv, TypeOK
<1>5. user' = [user EXCEPT ![q.who].failedLoginCount = n, ![q.who].lockedUntil = t]
  BY DEF WrongPassword
<1> HIDE DEF n, t
<1> DEFINE row1 == [user[q.who] EXCEPT !.failedLoginCount = n]
           row2 == [row1 EXCEPT !.lockedUntil = t]
<1>6. user' = [user EXCEPT ![q.who] = row2]
  BY <1>2, <1>3, <1>4, <1>5
<1>7. row2.failedLoginCount = n /\ row2.lockedUntil = t
  BY <1>3 DEF Row
<1> HIDE DEF row2
<1>8. user'[q.who].failedLoginCount = n /\ user'[q.who].lockedUntil = t
      /\ \A v \in Users \ {q.who} : user'[v] = user[v]
  BY <1>2, <1>4, <1>6, <1>7
<1>9. user'[q.who] # Absent
  <2>1. n \in 0..(MaxFailedLogins - 1)
    BY <1>2, NumbersAssumption DEF Row, Locks, n
  <2>2. now \in Nat /\ now <= MaxTime
    BY TimesFacts DEF SessionInv, TypeOK
  <2>3. t \in 0..(MaxTime + Lockout) \cup {None}
    BY <2>2, NumbersAssumption DEF t
  <2>4. row1 \in Row
    BY <1>3, <2>1 DEF Row
  <2>5. row2 \in Row
    <3> HIDE DEF row1
    <3> QED
      BY <2>3, <2>4 DEF Row, row2
  <2> QED
    BY <1>2, <1>4, <1>6, <2>5, SentinelsAssumption
<1>10. /\ wrong'[q.who] =
             CASE AtLogin(r, q.who) -> [count |-> 0, since |-> None]
               [] ~AtLogin(r, q.who) /\ wrong[q.who].count + 1 >= MaxFailedLogins ->
                     [count |-> 0, since |-> now]
               [] OTHER -> [count |-> IF Locks(failures) THEN 0 ELSE wrong[q.who].count + 1,
                            since |-> None]
       /\ \A v \in Users \ {q.who} : wrong'[v] = wrong[v]
  BY <1>2, <1>4 DEF WrongPassword
<1>11. Goes(r, Idle) /\ UNCHANGED now
  BY DEF WrongPassword, Ends
<1> QED
  BY <1>1, <1>2, <1>8, <1>9, <1>10, <1>11 DEF n, t

LEMMA WrongPasswordLock ==
    ASSUME LockInv, SessionInv', NEW r \in Requests, WrongPassword(r) PROVE LockInv'
<1> DEFINE q == req[r]
           failures == q.row.failedLoginCount + 1
<1>1. PICK u \in Users : u = q.who
  BY WrongPasswordWrites DEF LockInv
<1> DEFINE count == wrong[u].count + 1
<1>2. /\ q.pc = "compare" /\ user[u] # Absent /\ user'[u] # Absent
      /\ user'[u].failedLoginCount = IF Locks(failures) THEN 0 ELSE failures
      /\ user'[u].lockedUntil = IF Locks(failures) THEN now + Lockout ELSE None
      /\ \A v \in Users \ {u} : user'[v] = user[v] /\ wrong'[v] = wrong[v]
      /\ Goes(r, Idle) /\ UNCHANGED now
  BY <1>1, WrongPasswordWrites DEF LockInv, WrongPassword
<1>3. wrong'[u] = CASE AtLogin(r, u) -> [count |-> 0, since |-> None]
                    [] ~AtLogin(r, u) /\ count >= MaxFailedLogins -> [count |-> 0, since |-> now]
                    [] OTHER -> [count |-> IF Locks(failures) THEN 0 ELSE count, since |-> None]
  BY <1>1, WrongPasswordWrites DEF LockInv
<1>4. count \in Nat /\ failures \in Nat /\ failures >= count
  <2>1. CompareHolds(q) /\ q.row \in Row
    BY WrongPasswordWrites DEF LockInv
  <2>2. wrong[u].count \in Nat
    BY DEF LockInv, SessionInv, TypeOK
  <2>3. q.row.failedLoginCount \in Nat
    BY <2>1, NumbersAssumption DEF Row
  <2> QED
    BY <1>1, <1>2, <2>1, <2>2, <2>3 DEF CompareHolds
<1>5. \A s \in Requests : req'[s] = IF s = r THEN Idle ELSE req[s]
  BY <1>2 DEF LockInv, SessionInv, TypeOK, Goes
<1>6. ~AtLogin(r, u) => \A s \in Requests : ~(req'[s].pc = "compare" /\ req'[s].who = u)
  BY <1>5 DEF AtLogin, Others, Idle
<1>7. now \in Nat /\ now + Lockout # None
  BY TimesFacts, NumbersAssumption, SentinelsAssumption DEF LockInv, SessionInv, TypeOK
<1> HIDE DEF failures, count
<1>8. /\ wrong'[u].count = 0 \/ (~AtLogin(r, u) /\ ~Locks(failures) /\ wrong'[u].count = count)
      /\ wrong'[u].since # None => /\ ~AtLogin(r, u) /\ Locks(failures) /\ wrong'[u].since = now
  <2>1. CASE AtLogin(r, u)
    BY <1>3, <2>1
  <2>2. CASE ~AtLogin(r, u) /\ count >= MaxFailedLogins
    <3>1. wrong'[u] = [count |-> 0, since |-> now]
      BY <1>3, <2>2
    <3>2. Locks(failures)
      BY <1>4, <2>2, NumbersAssumption DEF Locks
    <3> QED
      BY <2>2, <3>1, <3>2
  <2>3. CASE ~AtLogin(r, u) /\ ~(count >= MaxFailedLogins)
    BY <1>3, <2>3
  <2> QED
    BY <2>1, <2>2, <2>3
<1>9. ASSUME NEW v \in Users PROVE LockHolds(v)'
  <2>1. CASE v = u
    <3>1. user'[u].failedLoginCount >= wrong'[u].count
      BY <1>2, <1>4, <1>8
    <3>2. Locked(u)' => /\ user'[u].lockedUntil = wrong'[u].since + Lockout
                        /\ \A s \in Requests : ~(req'[s].pc = "compare" /\ req'[s].who = u)
      BY <1>2, <1>6, <1>8 DEF Locked
    <3> QED
      BY <1>2, <2>1, <3>1, <3>2 DEF LockHolds
  <2>2. CASE v # u
    <3>1. LockHolds(v) /\ user'[v] = user[v] /\ wrong'[v] = wrong[v]
      BY <1>2, <2>2 DEF LockInv
    <3> QED
      BY <1>2, <1>5, <3>1 DEF LockHolds, Locked, Idle
  <2> QED
    BY <2>1, <2>2
<1>10. ASSUME NEW s \in Requests PROVE CompareHolds(req[s])'
  <2> SUFFICES ASSUME s # r, req[s].pc = "compare" PROVE CompareHolds(req[s])'
    BY <1>5 DEF CompareHolds, Idle
  <2>1. req'[s] = req[s] /\ CompareHolds(req[s])
    BY <1>5 DEF LockInv
  <2>2. req[s].who \in Users /\ req[s].row \in Row
    BY WorkByPc DEF LockInv, SessionInv, TypeOK, Works
  <2>3. req[s].row.failedLoginCount \in Nat
    BY <2>2, NumbersAssumption DEF Row
  <2>4. CASE req[s].who = u
    <3>1. AtLogin(r, u)
      BY <2>4 DEF AtLogin, Others
    <3>2. wrong'[u].count = 0
      BY <1>8, <3>1
    <3> QED
      BY <2>1, <2>3, <2>4, <3>2 DEF CompareHolds
  <2>5. CASE req[s].who # u
    BY <1>2, <2>1, <2>2, <2>5 DEF CompareHolds
  <2> QED
    BY <2>4, <2>5
<1> QED
  BY <1>9, <1>10 DEF LockInv

LEMMA TickLock == ASSUME LockInv, SessionInv', Tick PROVE LockInv'
<1>1. UNCHANGED <<user, wrong, req>> /\ now' = now + 1
  BY DEF Tick
<1>2. ASSUME NEW u \in Users PROVE LockHolds(u)'
  <2>1. LockHolds(u) /\ now \in Nat /\ wrong[u].since \in Nat \cup {None}
    BY TimesFacts DEF LockInv, SessionInv, TypeOK
  <2>2. Locked(u)' => Locked(u)
    BY <1>1, <2>1, NumbersAssumption DEF Locked
  <2> QED
    BY <1>1, <2>1, <2>2 DEF LockHolds
<1>3. ASSUME NEW s \in Requests PROVE CompareHolds(req[s])'
  BY <1>1 DEF LockInv, CompareHolds
<1> QED
  BY <1>2, <1>3 DEF LockInv

LEMMA LockInit == Init => LockInv
<1> SUFFICES ASSUME Init PROVE LockInv
  OBVIOUS
<1>1. SessionInv
  BY SessionInit
<1>2. ASSUME NEW u \in Users PROVE LockHolds(u)
  <2>1. wrong[u].count = 0 /\ wrong[u].since = None
    BY DEF Init
  <2>2. user[u] # Absent => user[u].failedLoginCount \in Nat
    BY <1>1, NumbersAssumption DEF SessionInv, TypeOK, Row
  <2> QED
    BY <2>1, <2>2 DEF LockHolds, Locked
<1>3. ASSUME NEW r \in Requests PROVE CompareHolds(req[r])
  BY DEF Init, CompareHolds, Idle
<1> QED
  BY <1>1, <1>2, <1>3 DEF LockInv

LEMMA LockStep == LockInv /\ [Next]_vars => LockInv'
<1> SUFFICES ASSUME LockInv, [Next]_vars PROVE LockInv'
  OBVIOUS
<1>1. SessionInv'
  BY SessionStep DEF LockInv
<1>2. CASE UNCHANGED vars
  BY <1>1, <1>2 DEF vars, LockInv, LockHolds, CompareHolds, Locked
<1>3. ASSUME NEW r \in Requests, Step(r) PROVE LockInv'
  BY <1>1, <1>3, SessionLock, ReadLoginLock, WrongPasswordLock, RightPasswordLock, GoogleLoginLock,
     LogoutLock, CreateUserLock, WriteUserLock DEF Step
<1> QED
  BY <1>1, <1>2, <1>3, TickLock DEF Next

\* Only the reading of its row takes a login to the comparison.
LEMMA OnlyReadLoginCompares ==
    ASSUME SessionInv, [Next]_vars, NEW r \in Requests,
           req[r].pc = "login", req'[r].pc = "compare"
    PROVE  ReadLogin(r)
<1>1. req \in [Requests -> Works]
  BY DEF SessionInv, TypeOK, Works
<1>2. CASE UNCHANGED vars \/ Tick
  BY <1>2 DEF vars, Tick
<1>3. ASSUME NEW s \in Requests, Step(s), s # r PROVE FALSE
  <2>1. \E w : Goes(s, w)
    BY <1>3 DEF Step, Login, ReadLogin, WrongPassword, RightPassword, GoogleLogin, Ask, Validate,
       Refresh, SetCookies, Logout, ClearCookies, AssertNotLastAdmin, CountAdmins, CreateUser,
       WriteUser, RequestFails, Ends
  <2> QED
    BY <1>1, <1>3, <2>1 DEF Goes
<1>4. ASSUME Step(r) PROVE ReadLogin(r)
  <2>1. req[r] # Idle
    BY DEF Idle
  <2>2. ~(Login(r) \/ GoogleLogin(r) \/ Ask(r) \/ Logout(r))
    BY <2>1 DEF Login, GoogleLogin, Ask, Logout
  <2>3. ~(WrongPassword(r) \/ RightPassword(r))
    BY DEF WrongPassword, RightPassword
  <2>4. ~(Validate(r) \/ Refresh(r) \/ SetCookies(r) \/ ClearCookies(r))
    BY DEF Validate, Refresh, SetCookies, ClearCookies
  <2>5. ~(AssertNotLastAdmin(r) \/ CountAdmins(r) \/ CreateUser(r) \/ WriteUser(r))
    BY DEF AssertNotLastAdmin, CountAdmins, CreateUser, WriteUser
  <2>6. CASE RequestFails(r)
    BY <1>1, <2>6 DEF RequestFails, Ends, Goes, Idle
  <2> QED
    BY <1>4, <2>6, <2>2, <2>3, <2>4, <2>5 DEF Step
<1> QED
  BY <1>2, <1>3, <1>4 DEF Next

\* However many logins of a user overlap, and whatever else is written to her
\* row meanwhile: after the wrong passwords that are to lock an account, none is
\* compared until the time is over or there is a new one.
THEOREM LockAlwaysKept == Spec => LockIsKept
<1>1. LockInv /\ [Next]_vars => LockKept
  <2> SUFFICES ASSUME LockInv, [Next]_vars, NEW r \in Requests,
                      req[r].pc = "login", req'[r].pc = "compare",
                      wrong[req[r].who].since # None
               PROVE  now >= wrong[req[r].who].since + Lockout
    BY DEF LockKept
  <2>1. ReadLogin(r)
    BY OnlyReadLoginCompares DEF LockInv
  <2>2. SessionInv'
    BY SessionStep DEF LockInv
  <2>3. ~Locked(req[r].who)
    BY <2>1, <2>2, ReadLoginLock
  <2>4. now \in Nat /\ wrong[req[r].who].since \in Nat
    <3>1. req[r] \in Works
      BY DEF LockInv, SessionInv, TypeOK, Works
    <3>2. req[r].who \in Users
      BY <3>1, WorkByPc
    <3> QED
      BY <3>2, TimesFacts DEF LockInv, SessionInv, TypeOK
  <2> QED
    BY <2>3, <2>4, NumbersAssumption DEF Locked
<1> QED
  BY <1>1, LockInit, LockStep, PTL DEF Spec, LockIsKept

-----------------------------------------------------------------------------
(* An administrator remains *)

\* A removal that has passed the check of the target knows that it is there; one
\* that is about to write, that it takes no administrator away, or not the last.
RemovalHolds(q) ==
    (q.pc \in {"count", "write"} /\ q.op \in Removals) =>
        /\ user[q.target] # Absent
        /\ q.pc = "write" => \/ accident["removals"]
                             \/ ~IsAdmin(user[q.target])
                             \/ OtherAdmins(q.target) # {}

AdminInv ==
    /\ SessionInv
    /\ AnAdminRemains
    /\ \A r \in Requests : RemovalHolds(req[r])

\* Whoever is there is an administrator as before.
SameAdmins == \A u \in Users : user[u] # Absent => (IsAdmin(user'[u]) <=> IsAdmin(user[u]))

AccidentStays == accident["removals"] => accident'["removals"]

\* A step that makes no administrator of anyone, and takes none away, leaves the
\* other requests what they know.
LEMMA CalmAdmins ==
    ASSUME AdminInv, SessionInv', NEW r \in Requests, NEW w, Goes(r, w), RowsStay, SameAdmins,
           AccidentStays, RemovalHolds(w)'
    PROVE  AdminInv'
<1>1. \A s \in Requests : req'[s] = IF s = r THEN w ELSE req[s]
  BY DEF AdminInv, SessionInv, TypeOK, Goes
<1>2. \A u \in Users : IsAdmin(user[u]) => IsAdmin(user'[u])
  BY DEF SameAdmins, IsAdmin
<1>3. AnAdminRemains'
  BY <1>2 DEF AdminInv, AnAdminRemains, AccidentStays
<1>4. ASSUME NEW s \in Requests PROVE RemovalHolds(req[s])'
  <2>1. CASE s = r
    BY <1>1, <2>1 DEF RemovalHolds
  <2>2. CASE s # r /\ req[s].pc \in {"count", "write"} /\ req[s].op \in Removals
    <3>1. req'[s] = req[s] /\ RemovalHolds(req[s]) /\ req[s] \in Works
      BY <1>1, <2>2 DEF AdminInv, SessionInv, TypeOK, Works
    <3>2. PICK u \in Users : u = req[s].target
      BY <2>2, <3>1, WorkByPc
    <3>3. user[u] # Absent /\ user'[u] # Absent /\ (IsAdmin(user'[u]) <=> IsAdmin(user[u]))
      BY <2>2, <3>1, <3>2 DEF RemovalHolds, RowsStay, SameAdmins
    <3>4. OtherAdmins(u) # {} => OtherAdmins(u)' # {}
      BY <1>2 DEF OtherAdmins
    <3> QED
      BY <2>2, <3>1, <3>2, <3>3, <3>4 DEF RemovalHolds, AccidentStays
  <2>3. CASE s # r /\ ~(req[s].pc \in {"count", "write"} /\ req[s].op \in Removals)
    BY <1>1, <2>3 DEF RemovalHolds
  <2> QED
    BY <2>1, <2>2, <2>3
<1> QED
  BY <1>3, <1>4 DEF AdminInv

\* A step that leaves the users alone.
LEMMA QuietAdmins ==
    ASSUME AdminInv, SessionInv', NEW r \in Requests, NEW w, Goes(r, w), UNCHANGED user,
           AccidentStays, RemovalHolds(w)'
    PROVE  AdminInv'
<1>1. RowsStay /\ SameAdmins
  BY DEF RowsStay, SameAdmins
<1> QED
  BY <1>1, CalmAdmins

\* What a request is about to do, if it is not a removal past its check.
LEMMA NoRemoval ==
    ASSUME NEW w, w.pc \notin {"count", "write"} \/ w.op \notin Removals
    PROVE  RemovalHolds(w)'
  BY DEF RemovalHolds
-----------------------------------------------------------------------------
(* The steps *)

LEMMA SessionAdmins ==
    ASSUME AdminInv, SessionInv', NEW r \in Requests,
           Login(r) \/ ReadLogin(r) \/ Ask(r) \/ Validate(r) \/ Refresh(r) \/ RequestFails(r)
    PROVE  AdminInv'
<1> DEFINE q == req[r]
<1>1. UNCHANGED <<user, accident>>
  BY DEF Login, ReadLogin, Ask, Validate, Refresh, RequestFails
<1>2. \E w : Goes(r, w) /\ (w.pc \notin {"count", "write"} \/ w.op \notin Removals)
  <2>1. CASE Login(r)
    BY <2>1 DEF Login
  <2>2. CASE ReadLogin(r)
    BY <2>2 DEF ReadLogin, Ends, Idle
  <2>3. CASE Ask(r)
    BY <2>3 DEF Ask
  <2>4. CASE Refresh(r)
    BY <2>4 DEF Refresh, Ends, Idle
  <2>5. CASE RequestFails(r)
    BY <2>5 DEF RequestFails, Ends, Idle
  <2>6. CASE Validate(r)
    <3>1. \A op, target : Handling(op, target).pc \notin {"count", "write"}
                          \/ Handling(op, target).op \notin Removals
      <4> SUFFICES ASSUME NEW op, NEW target
                   PROVE  Handling(op, target).pc \notin {"count", "write"}
                          \/ Handling(op, target).op \notin Removals
        OBVIOUS
      <4>1. CASE op \in Looks
        BY <4>1 DEF Handling, Idle
      <4>2. CASE op \in Removals
        BY <4>2 DEF Handling, Removals
      <4>3. CASE op \notin Looks /\ op \notin Removals
        BY <4>3 DEF Handling
      <4> QED
        BY <4>1, <4>2, <4>3
    <3>2. PICK h : h = Handling(q.op, q.target)
      OBVIOUS
    <3>3. h.pc \notin {"count", "write"} \/ h.op \notin Removals
      BY <3>1, <3>2
    <3>4. \/ Goes(r, h) \/ Goes(r, Idle)
          \/ Goes(r, [pc |-> "refresh", who |-> q.who, tok |-> jar[q.who], op |-> q.op,
                      target |-> q.target])
      BY <2>6, <3>2 DEF Validate, Ends
    <3> QED
      BY <3>3, <3>4 DEF Idle
  <2> QED
    BY <2>1, <2>2, <2>3, <2>4, <2>5, <2>6
<1> QED
  BY <1>1, <1>2, QuietAdmins, NoRemoval DEF AccidentStays

LEMMA CookiesAdmins ==
    ASSUME AdminInv, SessionInv', NEW r \in Requests, SetCookies(r) \/ ClearCookies(r)
    PROVE  AdminInv'
<1>1. UNCHANGED user /\ AccidentStays
  BY DEF SetCookies, ClearCookies, AccidentStays, AdminInv, SessionInv, TypeOK
<1>2. \E w : Goes(r, w) /\ w.pc \notin {"count", "write"}
  BY DEF SetCookies, ClearCookies, Ends, Idle
<1> QED
  BY <1>1, <1>2, QuietAdmins, NoRemoval

LEMMA AssertAdmins ==
    ASSUME AdminInv, SessionInv', NEW r \in Requests, AssertNotLastAdmin(r) \/ CountAdmins(r)
    PROVE  AdminInv'
<1> DEFINE q == req[r]
<1>1. UNCHANGED <<user, accident>> /\ AccidentStays
  BY DEF AssertNotLastAdmin, CountAdmins, AccidentStays
<1>2. q \in Works /\ RemovalHolds(q) /\ q.pc \in {"assert", "count"}
  BY DEF AdminInv, SessionInv, TypeOK, Works, AssertNotLastAdmin, CountAdmins
<1>3. PICK u \in Users : u = q.target
  BY <1>2, WorkByPc
<1>4. q \in [pc : {"assert", "count", "write"}, op : Ops \ Looks, target : Users]
  BY <1>2 DEF Works, Work, Idle
<1>5. \A pc : /\ [q EXCEPT !.pc = pc].pc = pc /\ [q EXCEPT !.pc = pc].op = q.op
              /\ [q EXCEPT !.pc = pc].target = u
  BY <1>3, <1>4
<1>6. CASE AssertNotLastAdmin(r)
  <2>1. CASE user[u] = Absent
    BY <1>1, <1>3, <1>6, <2>1, QuietAdmins, NoRemoval DEF AssertNotLastAdmin, Idle
  <2>2. CASE user[u] # Absent /\ IsAdmin(user[u])
    <3>1. PICK w : w = [q EXCEPT !.pc = "count"]
      OBVIOUS
    <3>2. Goes(r, w) /\ w.pc = "count" /\ w.target = u
      BY <1>3, <1>5, <1>6, <2>2, <3>1 DEF AssertNotLastAdmin
    <3>3. RemovalHolds(w)'
      BY <1>1, <2>2, <3>2 DEF RemovalHolds
    <3> QED
      BY <1>1, <3>2, <3>3, QuietAdmins
  <2>3. CASE user[u] # Absent /\ ~IsAdmin(user[u])
    <3>1. PICK w : w = [q EXCEPT !.pc = "write"]
      OBVIOUS
    <3>2. Goes(r, w) /\ w.pc = "write" /\ w.target = u
      BY <1>3, <1>5, <1>6, <2>3, <3>1 DEF AssertNotLastAdmin
    <3>3. RemovalHolds(w)'
      BY <1>1, <2>3, <3>2 DEF RemovalHolds
    <3> QED
      BY <1>1, <3>2, <3>3, QuietAdmins
  <2> QED
    BY <2>1, <2>2, <2>3
<1>7. CASE CountAdmins(r)
  <2>1. CASE OtherAdmins(u) = {}
    BY <1>1, <1>3, <1>7, <2>1, QuietAdmins, NoRemoval DEF CountAdmins, Idle
  <2>2. CASE OtherAdmins(u) # {}
    <3>1. PICK w : w = [q EXCEPT !.pc = "write"]
      OBVIOUS
    <3>2. Goes(r, w) /\ w.pc = "write" /\ w.target = u /\ w.op = q.op
      BY <1>3, <1>5, <1>7, <2>2, <3>1 DEF CountAdmins
    <3>3. q.op \in Removals => user[u] # Absent
      BY <1>2, <1>3, <1>7 DEF RemovalHolds, CountAdmins
    <3>4. OtherAdmins(u)' # {}
      BY <1>1, <2>2 DEF OtherAdmins
    <3>5. RemovalHolds(w)'
      BY <1>1, <3>2, <3>3, <3>4 DEF RemovalHolds
    <3> QED
      BY <1>1, <3>2, <3>5, QuietAdmins
  <2> QED
    BY <2>1, <2>2
<1> QED
  BY <1>6, <1>7

\* Of the fields of a row only the role and the activity make an administrator.
LEMMA AdminByFields ==
    ASSUME NEW row \in Row, NEW x \in Row, x.role = row.role, x.active = row.active
    PROVE  IsAdmin(x) <=> IsAdmin(row)
  BY SentinelsAssumption DEF IsAdmin

LEMMA RevokedAdmin == \A row \in Row : Revoked(row) \in Row /\ (IsAdmin(Revoked(row)) <=> IsAdmin(row))
<1> SUFFICES ASSUME NEW row \in Row
             PROVE  Revoked(row) \in Row /\ (IsAdmin(Revoked(row)) <=> IsAdmin(row))
  OBVIOUS
<1>1. Revoked(row) \in Row
  BY RowsTyped
<1>2. Revoked(row).role = row.role /\ Revoked(row).active = row.active
  BY DEF Revoked, Row
<1> QED
  BY <1>1, <1>2, AdminByFields

LEMMA PasswordAdmin ==
    ASSUME NEW row \in Row, NEW op \in {"resetPassword", "changePassword"}
    PROVE  Changed(row, op) \in Row /\ (IsAdmin(Changed(row, op)) <=> IsAdmin(row))
<1>1. PICK p \in Nat \cup {None} : p = IF row.password = None THEN 0 ELSE row.password + 1
  BY DEF Row
<1> DEFINE x1 == [row EXCEPT !.password = p]
           x2 == [x1 EXCEPT !.failedLoginCount = 0]
           x3 == [x2 EXCEPT !.lockedUntil = None]
<1>2. Changed(row, op) = Revoked(x3)
  BY <1>1 DEF Changed
<1>3. x1 \in Row /\ x1.role = row.role /\ x1.active = row.active
  BY DEF Row
<1> HIDE DEF x1
<1>4. x2 \in Row /\ x2.role = x1.role /\ x2.active = x1.active
  BY <1>3, NumbersAssumption DEF Row
<1> HIDE DEF x2
<1>5. x3 \in Row /\ x3.role = x2.role /\ x3.active = x2.active
  BY <1>4 DEF Row
<1> HIDE DEF x3
<1> QED
  BY <1>2, <1>3, <1>4, <1>5, AdminByFields, RevokedAdmin

\* The counter and the lock of a row change, and nothing else of the users.
LEMMA CounterAdmins ==
    ASSUME AdminInv, SessionInv', NEW r \in Requests, NEW w, Goes(r, w),
           w.pc \notin {"count", "write"}, UNCHANGED accident,
           NEW u \in Users, user[u] # Absent,
           NEW n \in 0..(MaxFailedLogins - 1), NEW t \in 0..(MaxTime + Lockout) \cup {None},
           user' = [user EXCEPT ![u].failedLoginCount = n, ![u].lockedUntil = t]
    PROVE  AdminInv'
<1>1. user \in [Users -> Row \cup {Absent}] /\ user[u] \in Row
  BY DEF AdminInv, SessionInv, TypeOK
<1>2. PICK x1 : x1 = [user[u] EXCEPT !.failedLoginCount = n]
  OBVIOUS
<1>3. PICK x2 : x2 = [x1 EXCEPT !.lockedUntil = t]
  OBVIOUS
<1>4. x1 \in Row /\ x1.role = user[u].role /\ x1.active = user[u].active
  BY <1>1, <1>2 DEF Row
<1>5. x2 \in Row /\ x2.role = user[u].role /\ x2.active = user[u].active
  BY <1>3, <1>4 DEF Row
<1>6. user'[u] = x2 /\ \A v \in Users : v # u => user'[v] = user[v]
  BY <1>1, <1>2, <1>3
<1>7. RowsStay /\ SameAdmins
  BY <1>1, <1>5, <1>6, AdminByFields, SentinelsAssumption DEF RowsStay, SameAdmins
<1> QED
  BY <1>7, CalmAdmins, NoRemoval DEF AccidentStays

LEMMA PasswordAdmins ==
    ASSUME AdminInv, SessionInv', NEW r \in Requests, WrongPassword(r) \/ RightPassword(r)
    PROVE  AdminInv'
<1> DEFINE q == req[r]
           failures == q.row.failedLoginCount + 1
           n == IF Locks(failures) THEN 0 ELSE failures
           t == IF Locks(failures) THEN now + Lockout ELSE None
<1>1. q \in Works /\ q.pc = "compare" /\ Holds(q)
  BY DEF WrongPassword, RightPassword, AdminInv, SessionInv, TypeOK, Works
<1>2. PICK u \in Users : u = q.who /\ user[u] # Absent
  BY <1>1, WorkByPc DEF Holds
<1>3. CASE WrongPassword(r)
  <2>1. now \in Nat /\ now <= MaxTime /\ q.row \in Row
    BY <1>1, TimesFacts, WorkByPc DEF AdminInv, SessionInv, TypeOK
  <2>2. n \in 0..(MaxFailedLogins - 1) /\ t \in 0..(MaxTime + Lockout) \cup {None}
    BY <2>1, NumbersAssumption DEF Row, Locks
  <2>3. user' = [user EXCEPT ![u].failedLoginCount = n, ![u].lockedUntil = t]
    BY <1>2, <1>3 DEF WrongPassword
  <2>4. Goes(r, Idle) /\ Idle.pc \notin {"count", "write"} /\ UNCHANGED accident
    BY <1>3 DEF WrongPassword, Ends, Idle
  <2> HIDE DEF n, t
  <2> QED
    BY <1>2, <2>2, <2>3, <2>4, CounterAdmins
<1>4. CASE RightPassword(r)
  <2>1. PICK w : Goes(r, w) /\ w.pc \notin {"count", "write"} /\ UNCHANGED accident
    BY <1>4 DEF RightPassword
  <2>2. CASE UNCHANGED user
    BY <2>1, <2>2, QuietAdmins, NoRemoval DEF AccidentStays
  <2>3. CASE user' = [user EXCEPT ![u].failedLoginCount = 0, ![u].lockedUntil = None]
    <3>1. 0 \in 0..(MaxFailedLogins - 1) /\ None \in 0..(MaxTime + Lockout) \cup {None}
      BY NumbersAssumption
    <3> QED
      BY <1>2, <2>1, <2>3, <3>1, CounterAdmins
  <2> QED
    BY <1>2, <1>4, <2>2, <2>3 DEF RightPassword
<1> QED
  BY <1>3, <1>4

LEMMA LogoutAdmins ==
    ASSUME AdminInv, SessionInv', NEW r \in Requests, Logout(r) PROVE AdminInv'
<1>1. PICK u \in Users :
          /\ \/ user' = [user EXCEPT ![u] = Revoked(@)] /\ Unexpired(jar[u], RefreshTTL)
             \/ UNCHANGED user
          /\ Goes(r, [pc |-> "clear", who |-> u])
          /\ UNCHANGED accident
  BY DEF Logout
<1>2. user \in [Users -> Row \cup {Absent}] /\ (Unexpired(jar[u], RefreshTTL) => user[u] \in Row)
  BY DEF AdminInv, SessionInv, TypeOK, TokenHolds, Unexpired
<1>3. RowsStay /\ SameAdmins
  BY <1>1, <1>2, RevokedAdmin, SentinelsAssumption DEF RowsStay, SameAdmins
<1> QED
  BY <1>1, <1>3, CalmAdmins, NoRemoval DEF AccidentStays

\* A row that was not there is nobody's business.
LEMMA NewRowAdmins ==
    ASSUME AdminInv, SessionInv', NEW r \in Requests, GoogleLogin(r) \/ CreateUser(r)
    PROVE  AdminInv'
<1>1. UNCHANGED accident /\ \E w : Goes(r, w) /\ w.pc \notin {"count", "write"}
  <2>1. CASE GoogleLogin(r)
    BY <2>1 DEF GoogleLogin
  <2>2. CASE CreateUser(r)
    BY <2>2 DEF CreateUser, Ends, Idle
  <2> QED
    BY <2>1, <2>2
<1>2. \A u \in Users : user[u] # Absent => user'[u] = user[u]
  BY DEF GoogleLogin, CreateUser, AdminInv, SessionInv, TypeOK
<1>3. RowsStay /\ SameAdmins
  BY <1>2 DEF RowsStay, SameAdmins
<1> QED
  BY <1>1, <1>3, CalmAdmins, NoRemoval DEF AccidentStays

LEMMA WriteUserAdmins ==
    ASSUME AdminInv, SessionInv', NEW r \in Requests, WriteUser(r) PROVE AdminInv'
<1> DEFINE q == req[r]
           password == q.op \in {"resetPassword", "changePassword"}
           overlap == \E s \in Others(r) : s.pc \in {"count", "write"} /\ s.op \in Removals
<1>1. q \in Works /\ q.pc = "write" /\ q.op # "create" /\ RemovalHolds(q)
  BY DEF WriteUser, AdminInv, SessionInv, TypeOK, Works
<1>2. PICK u \in Users, op \in Ops : u = q.target /\ op = q.op /\ op \notin Looks
  <2>1. q.target \in Users /\ q.op \in Ops \ Looks
    BY <1>1, WorkByPc
  <2> QED
    BY <2>1
<1>3. Goes(r, Idle) /\ \A s \in Requests : req'[s] = IF s = r THEN Idle ELSE req[s]
  BY DEF WriteUser, Ends, Goes, AdminInv, SessionInv, TypeOK
<1>4. CASE UNCHANGED <<user, accident>>
  BY <1>3, <1>4, QuietAdmins, NoRemoval DEF AccidentStays, Idle
<1>5. CASE /\ user[u] # Absent
           /\ user' = [user EXCEPT ![u] = Changed(user[u], op)]
           /\ accident' = [accident EXCEPT !["removals"] = @ \/ (~password /\ overlap)]
  <2>1. user \in [Users -> Row \cup {Absent}] /\ user[u] \in Row
        /\ accident \in [{"removals", "cookies"} -> BOOLEAN]
    BY <1>5 DEF AdminInv, SessionInv, TypeOK
  <2>2. PICK row \in Row : row = Changed(user[u], op)
    BY <2>1, RowsTyped
  <2>3. user'[u] = row /\ \A v \in Users : v # u => user'[v] = user[v]
    BY <1>5, <2>1, <2>2
  <2>4. RowsStay /\ accident'["removals"] = (accident["removals"] \/ (~password /\ overlap))
    BY <1>5, <2>1, <2>3, SentinelsAssumption DEF RowsStay
  <2>5. CASE password
    <3>1. SameAdmins
      BY <1>2, <2>1, <2>2, <2>3, <2>5, PasswordAdmin DEF SameAdmins
    <3> QED
      BY <1>3, <2>4, <3>1, CalmAdmins, NoRemoval DEF AccidentStays, Idle
  \* Nobody else has passed a check, and this one leaves an administrator.
  <2>6. CASE ~password /\ ~overlap /\ ~accident["removals"]
    <3>1. ASSUME NEW s \in Requests PROVE RemovalHolds(req[s])'
      <4>1. s # r => ~(req[s].pc \in {"count", "write"} /\ req[s].op \in Removals)
        BY <2>6 DEF Others
      <4> QED
        BY <1>3, <4>1 DEF RemovalHolds, Idle
    <3>2. op \in {"promote", "demote", "deactivate"}
      BY <1>1, <1>2, <2>6 DEF Ops, AdminOps, Removals
    <3>3. CASE op = "promote"
      <4>1. row.role = "ADMIN" /\ row.active = user[u].active
        BY <2>1, <2>2, <3>3 DEF Changed, Revoked, Row
      <4>2. \A v \in Users : IsAdmin(user[v]) => IsAdmin(user'[v])
        BY <2>1, <2>3, <4>1, SentinelsAssumption DEF IsAdmin
      <4> QED
        BY <3>1, <2>6, <4>2 DEF AdminInv, AnAdminRemains
    <3>4. CASE op \in Removals
      <4>1. ~IsAdmin(user[u]) \/ OtherAdmins(u) # {}
        BY <1>1, <1>2, <2>6, <3>4 DEF RemovalHolds
      <4>2. \E v \in Users : v # u /\ IsAdmin(user[v])
        BY <2>6, <4>1 DEF OtherAdmins, AdminInv, AnAdminRemains
      <4> QED
        BY <2>3, <3>1, <4>2 DEF AdminInv, AnAdminRemains
    <3> QED
      BY <3>2, <3>3, <3>4 DEF Removals
  <2>7. CASE accident'["removals"]
    <3>1. ASSUME NEW s \in Requests PROVE RemovalHolds(req[s])'
      <4>1. CASE s = r
        BY <1>3, <4>1 DEF RemovalHolds, Idle
      <4>2. CASE s # r /\ req[s].pc \in {"count", "write"} /\ req[s].op \in Removals
        <5>1. req[s] \in Works /\ RemovalHolds(req[s])
          BY DEF AdminInv, SessionInv, TypeOK, Works
        <5>2. req[s].target \in Users
          BY <4>2, <5>1, WorkByPc
        <5> QED
          BY <1>3, <2>4, <2>7, <4>2, <5>1, <5>2 DEF RemovalHolds, RowsStay
      <4>3. CASE s # r /\ ~(req[s].pc \in {"count", "write"} /\ req[s].op \in Removals)
        BY <1>3, <4>3 DEF RemovalHolds
      <4> QED
        BY <4>1, <4>2, <4>3
    <3> QED
      BY <2>7, <3>1 DEF AdminInv, AnAdminRemains
  <2> QED
    BY <2>4, <2>5, <2>6, <2>7
<1> QED
  BY <1>2, <1>4, <1>5 DEF WriteUser
-----------------------------------------------------------------------------
(* The theorem *)

LEMMA AdminInit == Init => AdminInv
<1> SUFFICES ASSUME Init PROVE AdminInv
  OBVIOUS
<1>1. PICK u \in Users : user[u] # Absent /\ user[u] \in {NewRow("ADMIN", 0), Absent}
  BY DEF Init
<1>2. IsAdmin(user[u])
  BY <1>1 DEF IsAdmin, NewRow
<1>3. \A r \in Requests : RemovalHolds(req[r])
  BY DEF Init, RemovalHolds, Idle
<1> QED
  BY <1>2, <1>3, SessionInit DEF AdminInv, AnAdminRemains

LEMMA AdminStep == AdminInv /\ [Next]_vars => AdminInv'
<1> SUFFICES ASSUME AdminInv, [Next]_vars PROVE AdminInv'
  OBVIOUS
<1>1. SessionInv'
  BY SessionStep DEF AdminInv
<1>2. CASE UNCHANGED vars \/ Tick
  BY <1>1, <1>2 DEF vars, Tick, AdminInv, AnAdminRemains, RemovalHolds, OtherAdmins
<1>3. ASSUME NEW r \in Requests, Step(r) PROVE AdminInv'
  BY <1>1, <1>3, SessionAdmins, CookiesAdmins, AssertAdmins, PasswordAdmins, LogoutAdmins,
     NewRowAdmins, WriteUserAdmins DEF Step
<1> QED
  BY <1>2, <1>3 DEF Next

\* However many changes of users come after each other, with logins between
\* them: while no two of them overlap, somebody can administer the system.
THEOREM AnAdminAlwaysRemains == Spec => []AnAdminRemains
<1>1. AdminInv => AnAdminRemains
  BY DEF AdminInv
<1> QED
  BY <1>1, AdminInit, AdminStep, PTL DEF Spec
-----------------------------------------------------------------------------
(* No needless login *)

\* Tokens of the login s, as late or renewed.
Renews(t, s) == t # None /\ t.tv = s.tv /\ t.at >= s.at

\* What a request knows of the login of its browser, as long as no answers have
\* crossed: it carries tokens of that login, and renews them into such.
RenewHolds(q) ==
    /\ q.pc = "cookies" => q.tok.at = now
    /\ (~accident["cookies"] /\ q.pc \in {"validate", "refresh"} /\ session[q.who] # None) =>
           Renews(q.tok, session[q.who])
    /\ (~accident["cookies"] /\ q.pc = "cookies" /\ q.op # None /\ session[q.who] # None) =>
           q.tok.tv = session[q.who].tv

JarRenews(u) == session[u] # None =>
    /\ session[u].tv = session[u].opened /\ session[u].at <= now
    /\ accident["cookies"] \/ Renews(jar[u], session[u])

RenewInv ==
    /\ SessionInv
    /\ \A u \in Users : JarRenews(u)
    /\ \A r \in Requests : RenewHolds(req[r])

\* A request that goes on with what it knows, and sets no cookies.
LEMMA GoesOnRenewing ==
    ASSUME RenewInv, SessionInv', NEW r \in Requests, NEW w, Goes(r, w), RenewHolds(w),
           UNCHANGED <<jar, now, session>>, accident'["cookies"] = accident["cookies"]
    PROVE  RenewInv'
<1>1. \A u \in Users : JarRenews(u)'
  BY DEF RenewInv, JarRenews, Renews
<1>2. ASSUME NEW s \in Requests PROVE RenewHolds(req[s])'
  <2>1. req'[s] = IF s = r THEN w ELSE req[s]
    BY DEF Goes, RenewInv, SessionInv, TypeOK
  <2>2. RenewHolds(req'[s])
    BY <2>1 DEF RenewInv
  <2> QED
    BY <2>2 DEF RenewHolds, Renews
<1> QED
  BY <1>1, <1>2 DEF RenewInv

LEMMA IdleRenews == RenewHolds(Idle)
  BY DEF RenewHolds, Idle

\* Requests that carry no cookies when they go on, or tokens made this moment
\* for a login.
LEMMA PlainRenews ==
    ASSUME RenewInv, SessionInv', NEW r \in Requests,
           \/ Login(r) \/ ReadLogin(r) \/ WrongPassword(r) \/ RightPassword(r) \/ GoogleLogin(r)
           \/ Logout(r) \/ AssertNotLastAdmin(r) \/ CountAdmins(r) \/ CreateUser(r)
           \/ RequestFails(r)
    PROVE  RenewInv'
<1>1. UNCHANGED <<jar, now, session, accident>>
  BY DEF Login, ReadLogin, WrongPassword, RightPassword, GoogleLogin, Logout,
         AssertNotLastAdmin, CountAdmins, CreateUser, RequestFails
<1>2. req[r] \in Works
  BY DEF RenewInv, SessionInv, TypeOK, Works
<1>3. \E w : Goes(r, w) /\ RenewHolds(w)
  <2>1. CASE Login(r)
    <3>1. PICK u \in Users, typed \in Counts : Goes(r, [pc |-> "login", who |-> u, typed |-> typed])
      BY <2>1 DEF Login
    <3> QED
      BY <3>1 DEF RenewHolds
  <2>2. CASE ReadLogin(r)
    <3> DEFINE q == req[r]
               w == [pc |-> "compare", who |-> q.who, typed |-> q.typed, row |-> user[q.who],
                     opened |-> ends[q.who]]
    <3>1. Goes(r, Idle) \/ Goes(r, w)
      BY <2>2 DEF ReadLogin, Ends
    <3>2. RenewHolds(w)
      BY DEF RenewHolds
    <3> QED
      BY <3>1, <3>2, IdleRenews
  <2>3. CASE WrongPassword(r) \/ CreateUser(r) \/ RequestFails(r)
    BY <2>3, IdleRenews DEF WrongPassword, CreateUser, RequestFails, Ends
  <2>4. CASE RightPassword(r)
    <3>1. Issue(req[r].who, req[r].row, req[r].opened).at = now
      BY DEF Issue
    <3> QED
      BY <2>4, <3>1 DEF RightPassword, RenewHolds
  <2>5. CASE GoogleLogin(r)
    <3>1. PICK u \in Users :
              Goes(r, [pc |-> "cookies", who |-> u, tok |-> Issue(u, user'[u], ends[u]), op |-> None,
                       target |-> u])
      BY <2>5 DEF GoogleLogin
    <3>2. Issue(u, user'[u], ends[u]).at = now
      BY DEF Issue
    <3> QED
      BY <3>1, <3>2 DEF RenewHolds
  <2>6. CASE Logout(r)
    <3>1. PICK u \in Users : Goes(r, [pc |-> "clear", who |-> u])
      BY <2>6 DEF Logout
    <3> QED
      BY <3>1 DEF RenewHolds
  <2>7. CASE AssertNotLastAdmin(r) \/ CountAdmins(r)
    <3>1. req[r].pc \in {"assert", "count"}
      BY <2>7 DEF AssertNotLastAdmin, CountAdmins
    <3>2. \A pc \in {"count", "write"} : [req[r] EXCEPT !.pc = pc].pc = pc
      BY <1>2, <3>1 DEF Works, Work, Idle
    <3>3. \A pc \in {"count", "write"} : RenewHolds([req[r] EXCEPT !.pc = pc])
      BY <3>2 DEF RenewHolds
    <3>4. Goes(r, Idle) \/ \E pc \in {"count", "write"} : Goes(r, [req[r] EXCEPT !.pc = pc])
      BY <2>7 DEF AssertNotLastAdmin, CountAdmins
    <3> QED
      BY <3>3, <3>4, IdleRenews
  <2> QED
    BY <2>1, <2>2, <2>3, <2>4, <2>5, <2>6, <2>7
<1> QED
  BY <1>1, <1>3, GoesOnRenewing

\* A request starts, and asks for new tokens, with the cookies of its browser.
LEMMA JarCarries ==
    ASSUME RenewInv, NEW r \in Requests, SessionInv', Ask(r) \/ Validate(r)
    PROVE  RenewInv'
<1>1. UNCHANGED <<jar, now, session, accident>>
  BY DEF Ask, Validate
<1>2. ASSUME NEW u \in Users, NEW w, w.pc \in {"validate", "refresh"}, w.who = u, w.tok = jar[u]
      PROVE  RenewHolds(w)
  BY <1>2 DEF RenewHolds, RenewInv, JarRenews
<1>3. CASE Ask(r)
  <2>1. PICK u \in Users, op \in Ops, target \in Users :
            Goes(r, [pc |-> "validate", who |-> u, tok |-> jar[u], op |-> op, target |-> target,
                     retried |-> FALSE])
    BY <1>3 DEF Ask
  <2> QED
    BY <1>1, <1>2, <2>1, GoesOnRenewing
<1>4. CASE Validate(r)
  <2> DEFINE q == req[r]
             w == [pc |-> "refresh", who |-> q.who, tok |-> jar[q.who], op |-> q.op,
                   target |-> q.target]
  <2>1. q.who \in Users
    BY <1>4, WorkByPc DEF Validate, RenewInv, SessionInv, TypeOK, Works
  <2>2. RenewHolds(w)
    BY <1>2, <2>1
  <2>3. RenewHolds(Handling(q.op, q.target))
    BY DEF Handling, RenewHolds, Idle
  <2>4. Goes(r, Idle) \/ Goes(r, w) \/ Goes(r, Handling(q.op, q.target))
    BY <1>4 DEF Validate, Ends
  <2> QED
    BY <1>1, <2>2, <2>3, <2>4, IdleRenews, GoesOnRenewing
<1> QED
  BY <1>3, <1>4

\* New tokens are those of the row, whose version the old ones had.
LEMMA RefreshRenews ==
    ASSUME RenewInv, NEW r \in Requests, SessionInv', Refresh(r)
    PROVE  RenewInv'
<1> DEFINE q == req[r]
           t == Issue(q.who, user[q.who], q.tok.opened)
           w == [pc |-> "cookies", who |-> q.who, tok |-> t, op |-> q.op, target |-> q.target]
<1>1. UNCHANGED <<jar, now, session, accident>>
  BY DEF Refresh
<1>2. CASE Goes(r, Idle)
  BY <1>1, <1>2, IdleRenews, GoesOnRenewing
<1>3. CASE Accepted(user[q.who], q.tok) /\ Goes(r, w)
  <2>1. t.tv = q.tok.tv /\ t.at = now
    BY <1>3 DEF Accepted, Issue
  <2>2. RenewHolds(q) /\ q.pc = "refresh"
    BY DEF Refresh, RenewInv
  <2>3. RenewHolds(w)
    BY <2>1, <2>2 DEF RenewHolds, Renews
  <2> QED
    BY <1>1, <1>3, <2>3, GoesOnRenewing
<1> QED
  BY <1>2, <1>3 DEF Refresh, Ends

LEMMA WriteUserRenews ==
    ASSUME RenewInv, NEW r \in Requests, SessionInv', WriteUser(r)
    PROVE  RenewInv'
<1>1. UNCHANGED <<jar, now, session>> /\ Goes(r, Idle)
  BY DEF WriteUser, Ends
<1>2. accident'["cookies"] = accident["cookies"]
  BY DEF WriteUser, RenewInv, SessionInv, TypeOK
<1> QED
  BY <1>1, <1>2, IdleRenews, GoesOnRenewing

\* The others of a browser whose answers have not crossed: none that clears
\* cookies, and none that sets others.
LEMMA NotCrossed ==
    ASSUME RenewInv, NEW r \in Requests, NEW s \in Requests \ {r}, ~Cross(r), req[s].who = req[r].who
    PROVE  /\ req[s].pc # "clear"
           /\ req[s].pc = "cookies" => req[r].pc # "clear" /\ req[s].tok.tv = req[r].tok.tv
           /\ (req[r].pc = "cookies" /\ req[r].op = None) => req[s].pc \notin {"validate", "refresh"}
<1>1. req[s] \in Others(r)
  BY DEF Others
<1>2. req[s].pc \in {"clear", "cookies", "validate", "refresh"} => req[s] # Idle
  BY DEF Idle
<1> QED
  BY <1>1, <1>2 DEF Cross

\* The accident with cookies is the crossing.
LEMMA CrossedStays ==
    ASSUME RenewInv, NEW r \in Requests, accident' = [accident EXCEPT !["cookies"] = Cross(r)]
    PROVE  accident'["cookies"] = Cross(r) /\ (~Cross(r) => ~accident["cookies"])
<1>1. accident'["cookies"] = Cross(r)
  BY DEF RenewInv, SessionInv, TypeOK
<1> QED
  BY <1>1 DEF Cross

LEMMA ClearRenews ==
    ASSUME RenewInv, NEW r \in Requests, SessionInv', ClearCookies(r)
    PROVE  RenewInv'
<1> DEFINE q == req[r]
<1>1. /\ q.pc = "clear" /\ session' = [session EXCEPT ![q.who] = None]
      /\ jar' = [jar EXCEPT ![q.who] = None] /\ now' = now /\ Goes(r, Idle)
  BY DEF ClearCookies, Ends
<1>2. /\ req \in [Requests -> Works] /\ session \in [Users -> Token \cup {None}]
      /\ jar \in [Users -> Token \cup {None}] /\ accident' = [accident EXCEPT !["cookies"] = Cross(r)]
  BY DEF RenewInv, SessionInv, TypeOK, Works, ClearCookies
<1>3. accident'["cookies"] = Cross(r) /\ (~Cross(r) => ~accident["cookies"])
  BY <1>2, CrossedStays
<1>4. ASSUME NEW u \in Users PROVE JarRenews(u)'
  BY <1>1, <1>2, <1>3 DEF JarRenews, Renews, RenewInv
<1>5. ASSUME NEW s \in Requests PROVE RenewHolds(req[s])'
  <2>1. req'[s] = IF s = r THEN Idle ELSE req[s]
    BY <1>1, <1>2 DEF Goes
  <2>2. CASE s = r
    BY <2>1, <2>2 DEF RenewHolds, Idle
  <2>3. CASE s # r
    <3>1. RenewHolds(req[s])
      BY DEF RenewInv
    <3>2. req[s].pc \in {"validate", "refresh", "cookies"} => req[s].who \in Users
      BY <1>2, WorkByPc
    <3>3. req[s].pc \in {"validate", "refresh", "cookies"} =>
              session'[req[s].who] \in {None, session[req[s].who]}
      BY <1>1, <1>2, <3>2
    <3> QED
      BY <1>1, <1>3, <2>1, <2>3, <3>1, <3>3 DEF RenewHolds, Renews
  <2> QED
    BY <2>2, <2>3
<1> QED
  BY <1>4, <1>5 DEF RenewInv

\* What an answer brings is what the login has, whether it is the login or
\* renews it.
LEMMA SetCookiesRenews ==
    ASSUME RenewInv, NEW r \in Requests, SessionInv', SetCookies(r)
    PROVE  RenewInv'
<1> DEFINE q == req[r]  u == req[r].who
           w == [pc |-> "validate", who |-> q.who, tok |-> q.tok, op |-> q.op, target |-> q.target,
                 retried |-> TRUE]
<1>1. /\ q.pc = "cookies" /\ jar' = [jar EXCEPT ![u] = q.tok] /\ now' = now
      /\ session' = IF q.op = None THEN [session EXCEPT ![u] = q.tok] ELSE session
      /\ Goes(r, IF q.op = None THEN Idle ELSE w)
  BY DEF SetCookies
<1>2. /\ req \in [Requests -> Works] /\ session \in [Users -> Token \cup {None}] /\ now \in Times
      /\ jar \in [Users -> Token \cup {None}] /\ accident' = [accident EXCEPT !["cookies"] = Cross(r)]
  BY DEF RenewInv, SessionInv, TypeOK, Works, SetCookies
<1>3. accident'["cookies"] = Cross(r) /\ (~Cross(r) => ~accident["cookies"])
  BY <1>2, CrossedStays
<1>4. /\ u \in Users /\ q.tok \in Token /\ q.tok # None /\ q.tok.at = now
      /\ q.tok.tv = q.tok.opened
  <2>1. q \in Works /\ Holds(q) /\ RenewHolds(q)
    BY <1>2 DEF RenewInv, SessionInv
  <2>2. u \in Users /\ q.tok \in Token
    BY <1>1, <2>1, WorkByPc
  <2>3. q.tok # None
    BY <2>2, TokenAssumption
  <2> QED
    BY <1>1, <2>1, <2>2, <2>3 DEF Holds, TokenHolds, RenewHolds
<1>5. now <= now /\ \A t \in Token : t.at \in Nat
  BY <1>2, TimesFacts DEF Token
<1>6. session'[u] # None => session'[u].at <= now /\ (q.tok.tv = session'[u].tv \/ Cross(r))
  <2>1. CASE q.op = None
    BY <1>1, <1>2, <1>4, <1>5, <2>1
  <2>2. CASE q.op # None
    BY <1>1, <1>2, <1>3, <1>4, <2>2 DEF RenewInv, RenewHolds, JarRenews
  <2> QED
    BY <2>1, <2>2
<1>7. ASSUME NEW v \in Users PROVE JarRenews(v)'
  <2>1. CASE v # u
    BY <1>1, <1>2, <1>3, <2>1 DEF RenewInv, JarRenews, Renews
  <2>2. CASE v = u
    <3>1. jar'[u] = q.tok
      BY <1>1, <1>2, <1>4
    <3>2. session'[u] # None => session'[u].tv = session'[u].opened /\ session'[u].at <= now
      BY <1>1, <1>2, <1>4, <1>5 DEF RenewInv, JarRenews
    <3> QED
      BY <1>1, <1>3, <1>4, <1>6, <2>2, <3>1, <3>2 DEF JarRenews, Renews
  <2> QED
    BY <2>1, <2>2
<1>8. (~accident'["cookies"] /\ session'[u] # None) => Renews(q.tok, session'[u])
  BY <1>3, <1>4, <1>6 DEF Renews
<1>9. ASSUME NEW s \in Requests PROVE RenewHolds(req[s])'
  <2>1. req'[s] = IF s = r THEN IF q.op = None THEN Idle ELSE w ELSE req[s]
    BY <1>1, <1>2 DEF Goes
  <2>2. CASE s = r
    BY <1>8, <2>1, <2>2 DEF RenewHolds, Renews, Idle
  <2>3. CASE s # r
    <3>1. RenewHolds(req[s]) /\ req[s] \in Works
      BY <1>2 DEF RenewInv
    <3>2. req[s].pc = "cookies" => req[s].tok.at = now
      BY <3>1 DEF RenewHolds
    <3>3. CASE req[s].pc \notin {"validate", "refresh", "cookies"} \/ Cross(r)
      BY <1>1, <1>3, <2>1, <2>3, <3>2, <3>3 DEF RenewHolds
    <3>4. CASE ~Cross(r) /\ req[s].pc \in {"validate", "refresh", "cookies"}
      <4>1. req[s].who \in Users
        BY <3>1, <3>4, WorkByPc
      <4>2. CASE req[s].who # u \/ q.op # None
        <5>1. session'[req[s].who] = session[req[s].who]
          BY <1>1, <1>2, <4>1, <4>2
        <5> QED
          BY <1>1, <1>3, <2>1, <2>3, <3>1, <3>4, <5>1 DEF RenewHolds, Renews
      <4>3. CASE req[s].who = u /\ q.op = None
        <5>1. req[s].pc = "cookies" /\ req[s].tok.tv = q.tok.tv
          BY <1>1, <2>3, <3>4, <4>3, NotCrossed
        <5>2. session'[u] = q.tok
          BY <1>1, <1>2, <1>4, <4>3
        <5> QED
          BY <1>1, <2>1, <2>3, <3>2, <4>3, <5>1, <5>2 DEF RenewHolds
      <4> QED
        BY <4>2, <4>3
    <3> QED
      BY <3>3, <3>4
  <2> QED
    BY <2>2, <2>3
<1> QED
  BY <1>7, <1>9 DEF RenewInv

\* Time passes when no answer is on its way.
LEMMA TickRenews == ASSUME RenewInv, SessionInv', Tick PROVE RenewInv'
<1>1. now \in Nat /\ now' = now + 1 /\ \A t \in Token : t.at \in Nat
  BY TimesFacts DEF Tick, RenewInv, SessionInv, TypeOK, Token
<1>2. UNCHANGED <<jar, req, session, accident>> /\ \A r \in Requests : req[r] = Idle
  BY DEF Tick
<1>3. \A u \in Users : JarRenews(u)'
  BY <1>1, <1>2 DEF RenewInv, JarRenews, Renews, SessionInv, TypeOK
<1>4. \A r \in Requests : RenewHolds(req[r])'
  BY <1>2 DEF RenewHolds, Idle
<1> QED
  BY <1>3, <1>4 DEF RenewInv

LEMMA RenewInit == Init => RenewInv
<1> SUFFICES ASSUME Init PROVE RenewInv
  OBVIOUS
<1>1. PICK u \in Users : jar = [v \in Users |-> IF v = u THEN [tv |-> 0, at |-> 0, opened |-> 0] ELSE None]
  BY DEF Init
<1>2. now = 0 /\ session = jar /\ \A r \in Requests : req[r] = Idle
  BY DEF Init
<1>3. \A v \in Users : JarRenews(v)
  BY <1>1, <1>2 DEF JarRenews, Renews
<1>4. \A r \in Requests : RenewHolds(req[r])
  BY <1>2, IdleRenews
<1> QED
  BY <1>3, <1>4, SessionInit DEF RenewInv

LEMMA RenewStep == RenewInv /\ [Next]_vars => RenewInv'
<1> SUFFICES ASSUME RenewInv, [Next]_vars PROVE RenewInv'
  OBVIOUS
<1>1. SessionInv'
  BY SessionStep DEF RenewInv
<1>2. CASE UNCHANGED vars
  BY <1>1, <1>2 DEF vars, RenewInv, JarRenews, RenewHolds, Renews
<1>3. ASSUME NEW r \in Requests, Step(r) PROVE RenewInv'
  BY <1>1, <1>3, PlainRenews, JarCarries, RefreshRenews, WriteUserRenews, ClearRenews,
     SetCookiesRenews DEF Step
<1> QED
  BY <1>1, <1>2, <1>3, TickRenews DEF Next

\* A request at the refresh, or of a page being opened, is moved by its own step.
LEMMA Moves ==
    ASSUME req \in [Requests -> Works], NEW r \in Requests, Next, ~RequestFails(r),
           req[r].pc \in {"validate", "refresh"}, req'[r] = Idle
    PROVE  Validate(r) \/ Refresh(r)
<1>1. req[r] # Idle
  BY DEF Idle
<1>2. PICK p \in Requests : Step(p)
  BY <1>1 DEF Next, Tick
<1>3. \E w : Goes(p, w)
  BY <1>2 DEF Step, Login, ReadLogin, WrongPassword, RightPassword, GoogleLogin, Ask, Validate,
     Refresh, SetCookies, Logout, ClearCookies, AssertNotLastAdmin, CountAdmins, CreateUser,
     WriteUser, RequestFails, Ends
<1>4. p = r
  BY <1>1, <1>3 DEF Goes
<1> QED
  BY <1>1, <1>2, <1>4 DEF Step, Login, ReadLogin, WrongPassword, RightPassword, GoogleLogin, Ask,
     SetCookies, Logout, ClearCookies, AssertNotLastAdmin, CountAdmins, CreateUser, WriteUser

\* While answers with different cookies have not crossed, a browser that asks
\* for new tokens, or opens a page, has those of its login, however often requests
\* that overlap have renewed them: it is refused only when the login has ended or
\* is too old, or the page is opened after the access token.
THEOREM NobodyLogsInNeedlessly == Spec => NoNeedlessLogin
<1>1. RenewInv /\ Next => LoginNeeded
  <2> SUFFICES ASSUME RenewInv, Next, NEW r \in Requests, SentToLogin(r), ~RequestFails(r),
                      ~OpenedLate(req[r]), ~accident["cookies"], session[req[r].who] # None,
                      user[req[r].who] # Absent, user[req[r].who].active,
                      session[req[r].who].opened = ends[req[r].who],
                      ~(now - session[req[r].who].at >= RefreshTTL)
               PROVE  FALSE
    BY DEF LoginNeeded
  <2> DEFINE q == req[r]  u == req[r].who  s == session[u]
  <2>1. /\ u \in Users /\ q.tok \in Token \cup {None} /\ s \in Token /\ now \in Nat
        /\ req \in [Requests -> Works]
    <3>1. req \in [Requests -> Works] /\ session \in [Users -> Token \cup {None}] /\ now \in Times
      BY DEF RenewInv, SessionInv, TypeOK, Works
    <3>2. u \in Users /\ q.tok \in Token \cup {None}
      BY <3>1, WorkByPc DEF SentToLogin
    <3> QED
      BY <3>1, <3>2, TimesFacts
  <2>2. q.tok # None /\ q.tok.tv = s.tv /\ q.tok.at >= s.at
    BY DEF RenewInv, RenewHolds, Renews, SentToLogin
  <2>3. s.tv = s.opened /\ user[u].tokenVersion = ends[u]
    BY <2>1 DEF RenewInv, JarRenews, SessionInv, Versions
  <2>4. Accepted(user[u], q.tok)
    BY <2>2, <2>3 DEF Accepted
  <2>5. q.tok.at \in Nat /\ s.at \in Nat
    BY <2>1, <2>2, TimesFacts DEF Token
  <2>6. Validate(r) \/ Refresh(r)
    BY <2>1, Moves DEF SentToLogin
  <2>7. CASE q.pc = "refresh" /\ Refresh(r)
    <3>1. Unexpired(q.tok, RefreshTTL)
      BY <2>1, <2>2, <2>5, NumbersAssumption DEF Unexpired
    <3>2. Goes(r, [pc |-> "cookies", who |-> u, tok |-> Issue(u, user[u], q.tok.opened),
                   op |-> q.op, target |-> q.target])
      BY <2>4, <2>7, <3>1 DEF Refresh
    <3>3. req'[r].pc = "cookies"
      BY <2>1, <3>2 DEF Goes
    <3> QED
      BY <3>3 DEF Idle, SentToLogin
  <2>8. CASE q.pc = "validate" /\ Validate(r)
    <3>1. Unexpired(q.tok, AccessTTL)
      BY <2>1, <2>2, <2>5, <2>8, NumbersAssumption DEF Unexpired, OpenedLate
    <3>2. LetThrough(q)
      BY <2>4, <3>1 DEF LetThrough
    <3> QED
      BY <2>8, <3>2 DEF SentToLogin
  <2> QED
    BY <2>6, <2>7, <2>8 DEF Validate, Refresh
<1>2. RenewInv /\ [Next]_vars => [LoginNeeded]_vars
  BY <1>1
<1> QED
  BY <1>2, RenewInit, RenewStep, PTL DEF Spec, NoNeedlessLogin
=============================================================================
