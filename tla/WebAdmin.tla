------------------------------ MODULE WebAdmin ------------------------------
(***************************************************************************)
(* The administration web site (pkg/core/server_web.go): gin runs every    *)
(* request in a goroutine of its own, so that handlers interleave between  *)
(* any two of their calls to the database, to the captcha store and to the *)
(* session.                                                                *)
(*                                                                         *)
(* A session is a signed cookie: a request works on the copy that came     *)
(* with it, and Save sends the whole copy back to the browser.  Rows are   *)
(* deleted softly: gorm no longer finds them and never reuses their IDs.   *)
(*                                                                         *)
(* The text of rows, lists and answers is left out, and with it names: an  *)
(* INSERT or UPDATE may fail, for a name that exists or for any other      *)
(* reason.  Bodies that cannot be decoded end a handler like a failure.    *)
(***************************************************************************)
EXTENDS Integers, Sequences

CONSTANTS
  Slots,       \* requests in flight
  Browsers,
  MaxRequests, \* bound: requests in all
  MaxUser,     \* bound: IDs of users
  MaxRow,      \* bound: IDs of plans and of notices
  MaxIssued,   \* bound: captchas made or renewed
  MaxMeta,     \* bound: rows of meta
  Titles       \* what an administrator may set as the title of the site

ASSUME WebAssumption ==
  /\ MaxRequests \in Nat /\ MaxUser \in Nat
  /\ MaxRow \in Nat /\ MaxIssued \in Nat /\ MaxMeta \in Nat
  /\ "default" \notin Titles

Users == 1 .. MaxUser
Rows == 1 .. MaxRow
RowStates == {"free", "live", "deleted"}
Captchas == 1 .. MaxIssued

(* What userID of a session may be: nil, "admin", or the ID of a row.      *)
Nil == -1
Admin == 0
UserIDs == {Nil, Admin} \cup Users

VARIABLES
  cookieUser,  \* userID of each browser's cookie
  cookieCap,   \* its captchaID, 0 for none
  pc,          \* where the handler of each request is
  from,        \* the browser it came from
  who,         \* userID of the request's copy of the session
  cap,         \* captchaID of it
  chal,        \* the challenge a registration has solved
  loaded,      \* the ID of the meta row a request has loaded, 0 for none
  ustate,      \* the users table: "free", "live", "deleted"
  role,        \* "user" or "admin"
  plans,       \* the plans table
  notices,     \* the notices table
  metas,       \* titles of the rows of meta, by ID
  digits,      \* the captcha store: the challenge of each captcha, 0 for none
  issued,      \* challenges so far
  begun,       \* requests so far
  ever,        \* history: the request's user was an administrator since it began
  paid,        \* history: the challenge a user was registered for
  proved       \* history: the accounts whose password each browser gave

session == <<cookieUser, cookieCap>>
request == <<pc, from, who, cap, chal, loaded, ever>>
tables == <<ustate, role, plans, notices, metas, paid>>
store == <<digits, issued>>
vars == <<session, request, tables, store, proved, begun>>

(* The server starts on the database that an earlier one has left.  Its    *)
(* keys are new, so that no cookie is valid.                               *)
Init ==
  /\ cookieUser = [b \in Browsers |-> Nil]
  /\ cookieCap = [b \in Browsers |-> 0]
  /\ pc = [r \in Slots |-> "idle"]
  /\ from \in [Slots -> Browsers]
  /\ who = [r \in Slots |-> Nil]
  /\ cap = [r \in Slots |-> 0]
  /\ chal = [r \in Slots |-> 0]
  /\ loaded = [r \in Slots |-> 0]
  /\ ustate \in [Users -> RowStates]
  /\ \A u \in Users : u > 1 /\ ustate[u] # "free" => ustate[u - 1] # "free"
  /\ role \in [Users -> {"user", "admin"}]
  /\ plans = [i \in Rows |-> "free"]
  /\ notices = [i \in Rows |-> "free"]
  /\ metas \in {<<>>} \cup {<<t>> : t \in Titles}
  /\ digits = [c \in Captchas |-> 0]
  /\ issued = 0
  /\ begun = 0
  /\ ever = [r \in Slots |-> "no"]
  /\ paid = [u \in Users |-> 0]
  /\ proved = [b \in Browsers |-> {}]
-----------------------------------------------------------------------------
(* The ID a new row of table f gets.                                       *)
NextID(f, i) == f[i] = "free" /\ (i > 1 => f[i - 1] # "free")

(* A request begins with the session of its cookie.  Which handler it is   *)
(* for shows with the handler's first step, and for the handlers that call *)
(* GetRole with the step after that.                                       *)

(* GetRole's answer for a user ID, from the row as it is now.              *)
IsAdmin(u) ==
  \/ u = Admin
  \/ u \in Users /\ ustate[u] = "live" /\ role[u] = "admin"

Begin(r, b) ==
  /\ pc[r] = "idle"
  /\ begun < MaxRequests
  /\ begun' = begun + 1
  /\ pc' = [pc EXCEPT ![r] = "begin"]
  /\ from' = [from EXCEPT ![r] = b]
  /\ who' = [who EXCEPT ![r] = cookieUser[b]]
  /\ cap' = [cap EXCEPT ![r] = cookieCap[b]]
  /\ ever' = [ever EXCEPT ![r] = IF IsAdmin(cookieUser[b]) THEN "yes" ELSE "no"]
  /\ UNCHANGED <<session, chal, loaded, tables, store, proved>>

Done(r) ==
  /\ pc' = [pc EXCEPT ![r] = "idle"]
  /\ who' = [who EXCEPT ![r] = Nil]
  /\ cap' = [cap EXCEPT ![r] = 0]
  /\ chal' = [chal EXCEPT ![r] = 0]
  /\ loaded' = [loaded EXCEPT ![r] = 0]
  /\ ever' = [ever EXCEPT ![r] = "no"]
  /\ UNCHANGED from

(* The handler answers and ends: at once with an error, or with the result *)
(* of a Save or an Updates that has changed nothing or is done.            *)
Fail(r) ==
  /\ pc[r] \notin {"idle", "count", "respond"}
  /\ Done(r)
  /\ UNCHANGED <<session, tables, store, proved, begun>>

(* The answer to a request that has saved its session sets the cookie, if  *)
(* it still reaches the browser.                                           *)
Respond(r) ==
  /\ pc[r] = "respond"
  /\ \/ /\ cookieUser' = [cookieUser EXCEPT ![from[r]] = who[r]]
        /\ cookieCap' = [cookieCap EXCEPT ![from[r]] = cap[r]]
     \/ UNCHANGED session
  /\ Done(r)
  /\ UNCHANGED <<tables, store, proved, begun>>
-----------------------------------------------------------------------------
(* Captcha, registration and login.                                        *)

(* captcha.Reload of the session's captcha finds it and, in a second step, *)
(* gives it new digits; otherwise captcha.New makes one.                   *)
GetCaptcha(r) ==
  /\ pc[r] = "begin"
  /\ issued < MaxIssued
  /\ \/ /\ cap[r] # 0 /\ digits[cap[r]] # 0
        /\ pc' = [pc EXCEPT ![r] = "reload"]
        /\ UNCHANGED <<cap, store>>
     \/ /\ cap[r] # 0 => digits[cap[r]] = 0
        /\ issued' = issued + 1
        /\ digits' = [digits EXCEPT ![issued'] = issued']
        /\ cap' = [cap EXCEPT ![r] = issued']
        /\ pc' = [pc EXCEPT ![r] = "respond"]
  /\ UNCHANGED <<session, from, who, chal, loaded, ever, tables, proved, begun>>

Reload(r) ==
  /\ pc[r] = "reload"
  /\ issued < MaxIssued
  /\ issued' = issued + 1
  /\ digits' = [digits EXCEPT ![cap[r]] = issued']
  /\ Done(r)
  /\ UNCHANGED <<session, tables, proved, begun>>

(* The store forgets captchas that are too old.                            *)
Expire(c) ==
  /\ digits[c] # 0
  /\ digits' = [digits EXCEPT ![c] = 0]
  /\ UNCHANGED <<session, request, tables, issued, proved, begun>>

(* Fault: the captcha is forgotten only once the user is registered.       *)
VerifyKeeps(r) ==
  /\ digits[cap[r]] # 0
  /\ pc' = [pc EXCEPT ![r] = "create"]
  /\ chal' = [chal EXCEPT ![r] = digits[cap[r]]]
  /\ UNCHANGED <<from, who, cap, loaded, ever, store>>

(* captcha.VerifyString forgets the captcha, right or wrong.               *)
Verify(r) ==
  /\ digits' = [digits EXCEPT ![cap[r]] = 0]
  /\ UNCHANGED issued
  /\ \/ /\ digits[cap[r]] # 0
        /\ pc' = [pc EXCEPT ![r] = "create"]
        /\ chal' = [chal EXCEPT ![r] = digits[cap[r]]]
        /\ UNCHANGED <<from, who, cap, loaded, ever>>
     \/ Done(r)

PostUser(r) ==
  /\ pc[r] = "begin"
  /\ cap[r] # 0
  /\ Verify(r)
  /\ UNCHANGED <<session, tables, proved, begun>>

(* Create: the next ID, PlanID 1, the role of a user.                      *)
CreateUser(r, u) ==
  /\ pc[r] = "create"
  /\ NextID(ustate, u)
  /\ ustate' = [ustate EXCEPT ![u] = "live"]
  /\ role' = [role EXCEPT ![u] = "user"]
  /\ paid' = [paid EXCEPT ![u] = chal[r]]
  /\ Done(r)
  /\ UNCHANGED <<session, plans, notices, metas, store, proved, begun>>

(* Fault: the session is given to "admin" whatever the password.           *)
LoginAdminAnyway(r) ==
  /\ who' = [who EXCEPT ![r] = Admin]
  /\ UNCHANGED proved

(* "admin" with the password of the configuration; with a wrong one the    *)
(* session stays as it is, and is saved and answered all the same.         *)
LoginAdmin(r) ==
  \/ /\ who' = [who EXCEPT ![r] = Admin]
     /\ proved' = [proved EXCEPT ![from[r]] = @ \cup {Admin}]
  \/ UNCHANGED <<who, proved>>

(* Any other name needs a live row and its password.                       *)
LoginUser(r, u) ==
  /\ ustate[u] = "live"
  /\ who' = [who EXCEPT ![r] = u]
  /\ proved' = [proved EXCEPT ![from[r]] = @ \cup {u}]

PostSession(r) ==
  /\ pc[r] = "begin"
  /\ LoginAdmin(r) \/ \E u \in Users : LoginUser(r, u)
  /\ pc' = [pc EXCEPT ![r] = "respond"]
  /\ UNCHANGED <<session, from, cap, chal, loaded, ever, tables, store, begun>>
-----------------------------------------------------------------------------
(* What an administrator does.                                             *)

(* Fault: the row is looked up even if it has been deleted.                *)
GrantedUnscoped(r) == who[r] = Admin \/ (who[r] \in Users /\ role[who[r]] = "admin")

Granted(r) == IsAdmin(who[r])

(* GetRole; without the role, or on an error, the request fails.           *)
GetRole(r) ==
  /\ pc[r] = "begin"
  /\ Granted(r)
  /\ pc' = [pc EXCEPT ![r] = "granted"]
  /\ UNCHANGED <<session, from, who, cap, chal, loaded, ever, tables, store, proved, begun>>

(* Handlers that only read.                                                *)
Reads(r) ==
  /\ Done(r)
  /\ UNCHANGED <<session, tables, store, proved, begun>>

GetUserList(r) == pc[r] = "granted" /\ Reads(r)
GetUserOne(r) == pc[r] = "granted" /\ Reads(r)
GetLogOne(r) == pc[r] = "granted" /\ Reads(r)
GetLogList(r) == pc[r] = "granted" /\ Reads(r)

(* The session's own account, if it has one that is still there.           *)
GetUser(r) ==
  /\ pc[r] = "begin"
  /\ who[r] = Admin \/ (who[r] \in Users /\ ustate[who[r]] = "live")
  /\ Reads(r)

DeleteUser(r, u) ==
  /\ pc[r] = "granted"
  /\ ustate' = [ustate EXCEPT ![u] = IF @ = "live" THEN "deleted" ELSE @]
  /\ Done(r)
  /\ UNCHANGED <<session, role, plans, notices, metas, paid, store, proved, begun>>

(* Updates of the row, if it is live; the answer follows.  The requests of *)
(* a user who becomes an administrator are marked as such.                 *)
PutUser(r, u, newRole) ==
  /\ pc[r] = "begin"
  /\ ustate[u] = "live"
  /\ role' = [role EXCEPT ![u] = newRole]
  /\ pc' = [pc EXCEPT ![r] = "end"]
  /\ ever' = [x \in Slots |-> IF who[x] = u /\ newRole = "admin" THEN "yes" ELSE ever[x]]
  /\ UNCHANGED <<session, from, who, cap, chal, loaded, ustate, plans, notices, metas, paid,
                 store, proved, begun>>
-----------------------------------------------------------------------------
(* Plans and notices.                                                      *)

PostPlan(r, i) ==
  /\ pc[r] = "granted" /\ NextID(plans, i)
  /\ plans' = [plans EXCEPT ![i] = "live"]
  /\ Done(r)
  /\ UNCHANGED <<session, ustate, role, notices, metas, paid, store, proved, begun>>

DeletePlan(r, i) ==
  /\ pc[r] = "granted"
  /\ plans' = [plans EXCEPT ![i] = IF @ = "live" THEN "deleted" ELSE @]
  /\ Done(r)
  /\ UNCHANGED <<session, ustate, role, notices, metas, paid, store, proved, begun>>

PostNotice(r, i) ==
  /\ pc[r] = "granted" /\ NextID(notices, i)
  /\ notices' = [notices EXCEPT ![i] = "live"]
  /\ Done(r)
  /\ UNCHANGED <<session, ustate, role, plans, metas, paid, store, proved, begun>>

DeleteNotice(r, i) ==
  /\ pc[r] = "granted"
  /\ notices' = [notices EXCEPT ![i] = IF @ = "live" THEN "deleted" ELSE @]
  /\ Done(r)
  /\ UNCHANGED <<session, ustate, role, plans, metas, paid, store, proved, begun>>

(* Updates of a row change its texts and limits only.                      *)
PutPlan(r) == pc[r] = "granted" /\ Reads(r)
PutNotice(r) == pc[r] = "granted" /\ Reads(r)
-----------------------------------------------------------------------------
(* The title of the site: the first row of meta.                           *)

(* First, whose failure is ignored: the new record keeps the ID 0.         *)
First(r) ==
  \E i \in {0, Len(metas)} : loaded' = [loaded EXCEPT ![r] = IF i = 0 THEN 0 ELSE 1]

PutMeta(r) ==
  /\ pc[r] = "granted"
  /\ First(r)
  /\ pc' = [pc EXCEPT ![r] = "save"]
  /\ UNCHANGED <<session, from, who, cap, chal, ever, tables, store, proved, begun>>

(* Save inserts a record whose ID is 0, and updates the row otherwise.  If *)
(* it fails the answer is the same.                                        *)
SaveMeta(r, title) ==
  /\ pc[r] = "save"
  /\ \/ /\ loaded[r] = 0 /\ Len(metas) < MaxMeta
        /\ metas' = Append(metas, title)
     \/ /\ loaded[r] # 0
        /\ metas' = [metas EXCEPT ![loaded[r]] = title]
  /\ Done(r)
  /\ UNCHANGED <<session, ustate, role, plans, notices, paid, store, proved, begun>>

GetMeta(r) ==
  /\ pc[r] = "begin"
  /\ First(r)
  /\ pc' = [pc EXCEPT ![r] = "count"]
  /\ UNCHANGED <<session, from, who, cap, chal, ever, tables, store, proved, begun>>

(* Count, a query of its own, which is not run after a First that failed.  *)
(* The row is the answer if it was loaded and counted; if either failed    *)
(* the default is saved in the record as First has left it.                *)
CountMeta(r) ==
  /\ pc[r] = "count"
  /\ \/ loaded[r] # 0 /\ Reads(r)
     \/ /\ pc' = [pc EXCEPT ![r] = "default"]
        /\ UNCHANGED <<session, from, who, cap, chal, loaded, ever, tables, store, proved,
                       begun>>

(* Fault: the default is saved as the first row, whether there is one.     *)
SaveDefaultFirst(r) ==
  /\ pc[r] = "default"
  /\ metas' = IF metas = <<>> THEN <<"default">> ELSE [metas EXCEPT ![1] = "default"]
  /\ Done(r)
  /\ UNCHANGED <<session, ustate, role, plans, notices, paid, store, proved, begun>>

SaveDefault(r) ==
  /\ pc[r] = "default"
  /\ \/ /\ loaded[r] = 0 /\ Len(metas) < MaxMeta
        /\ metas' = Append(metas, "default")
     \/ /\ loaded[r] # 0
        /\ metas' = [metas EXCEPT ![loaded[r]] = "default"]
  /\ Done(r)
  /\ UNCHANGED <<session, ustate, role, plans, notices, paid, store, proved, begun>>
-----------------------------------------------------------------------------
Next ==
  \/ \E r \in Slots, b \in Browsers : Begin(r, b)
  \/ \E r \in Slots :
       \/ Fail(r) \/ Respond(r)
       \/ GetCaptcha(r) \/ Reload(r) \/ PostUser(r) \/ PostSession(r)
       \/ GetRole(r) \/ GetUser(r) \/ GetUserList(r) \/ GetUserOne(r)
       \/ GetLogOne(r) \/ GetLogList(r) \/ PutPlan(r) \/ PutNotice(r)
       \/ PutMeta(r) \/ GetMeta(r) \/ CountMeta(r) \/ SaveDefault(r)
       \/ \E title \in Titles : SaveMeta(r, title)
       \/ \E u \in Users : CreateUser(r, u) \/ DeleteUser(r, u)
       \/ \E u \in Users, newRole \in {"user", "admin"} : PutUser(r, u, newRole)
       \/ \E i \in Rows : \/ PostPlan(r, i) \/ DeletePlan(r, i)
                          \/ PostNotice(r, i) \/ DeleteNotice(r, i)
  \/ \E c \in Captchas : Expire(c)

Spec == Init /\ [][Next]_vars
-----------------------------------------------------------------------------
RequestsOK ==
  /\ pc \in [Slots -> {"idle", "begin", "reload", "create", "granted", "save", "count",
                       "default", "end", "respond"}]
  /\ from \in [Slots -> Browsers]
  /\ who \in [Slots -> UserIDs]
  /\ cap \in [Slots -> {0} \cup Captchas]
  /\ chal \in [Slots -> {0} \cup Captchas]
  /\ loaded \in [Slots -> {0, 1}]
  /\ ever \in [Slots -> {"yes", "no"}]

TablesOK ==
  /\ ustate \in [Users -> RowStates]
  /\ role \in [Users -> {"user", "admin"}]
  /\ plans \in [Rows -> RowStates]
  /\ notices \in [Rows -> RowStates]
  /\ metas \in Seq(Titles \cup {"default"})
  /\ paid \in [Users -> {0} \cup Captchas]

SessionsOK ==
  /\ cookieUser \in [Browsers -> UserIDs]
  /\ cookieCap \in [Browsers -> {0} \cup Captchas]
  /\ proved \in [Browsers -> SUBSET UserIDs]

StoreOK ==
  /\ digits \in [Captchas -> {0} \cup Captchas]
  /\ issued \in {0} \cup Captchas
  /\ begun \in 0 .. MaxRequests

TypeOK == RequestsOK /\ TablesOK /\ SessionsOK /\ StoreOK

(* A session, in a cookie or in a request under way, speaks only for an    *)
(* account whose password its own browser has given: however the answers   *)
(* to two requests of a browser overtake each other, and after a failed    *)
(* login, which saves and answers the session too (PostSession).           *)
SessionJustified ==
  /\ \A b \in Browsers : cookieUser[b] \in proved[b] \cup {Nil}
  /\ \A r \in Slots : who[r] \in proved[from[r]] \cup {Nil}

(* A handler that goes on as an administrator acts for a user who was one  *)
(* at some moment since the request began: the role is read from the row,  *)
(* not from the cookie, and a deleted row gives none (GetRole).            *)
RightsAreCurrent ==
  \A r \in Slots : pc[r] \in {"granted", "save"} => ever[r] = "yes"

(* Every account was registered for a challenge of its own: requests of    *)
(* the same session in flight together cannot register two accounts with   *)
(* one solved captcha (PostUser).                                          *)
AccountsPaid ==
  \A u, v \in Users : paid[u] # 0 /\ paid[u] = paid[v] => u = v

(* A GetMeta that has loaded the row and then could not count it.          *)
CountFailed(r) == pc[r] = "default" /\ loaded[r] # 0

(* Once the site shows a title an administrator has set, only a GetMeta    *)
(* whose Count failed after its First brings the default back: races alone *)
(* do not, whatever GetMeta and PutMeta do between each other's queries    *)
(* and Save.                                                               *)
DefaultNeverReturns ==
  [][metas # <<>> /\ metas[1] # "default" /\ metas'[1] = "default"
       => \E r \in Slots : CountFailed(r) /\ pc'[r] # pc[r]]_vars
=============================================================================
