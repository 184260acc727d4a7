--------------------------- MODULE WebAdminProofs ---------------------------
(***************************************************************************)
(* For any number of requests, browsers, users and rows: a session speaks  *)
(* only for accounts its browser gave the password of, the rights used are *)
(* current, and no solved captcha registers two accounts.  The last part   *)
(* is about the in-memory socket that the requests come through.           *)
(***************************************************************************)
EXTENDS WebAdmin, Memsocket, SequenceTheorems, TLAPS

(* A request that reached no answer yet, of a user who is an administrator *)
(* now, is marked.                                                         *)
EverMarks ==
  \A r \in Slots : pc[r] \notin {"idle", "respond"} /\ IsAdmin(who[r]) => ever[r] = "yes"

Rights == EverMarks /\ RightsAreCurrent

(* A challenge is at one place: a captcha, a registration, or an account.  *)
ChallengesIssued ==
  /\ \A c \in Captchas : digits[c] <= issued
  /\ \A r \in Slots : chal[r] <= issued
  /\ \A u \in Users : paid[u] <= issued

ChallengesUnique ==
  /\ \A c, d \in Captchas : digits[c] # 0 /\ digits[c] = digits[d] => c = d
  /\ \A r, s \in Slots : chal[r] # 0 /\ chal[r] = chal[s] => r = s
  /\ \A c \in Captchas, r \in Slots : digits[c] # 0 => digits[c] # chal[r]
  /\ \A c \in Captchas, u \in Users : digits[c] # 0 => digits[c] # paid[u]
  /\ \A r \in Slots, u \in Users : chal[r] # 0 => chal[r] # paid[u]

Challenges == ChallengesIssued /\ ChallengesUnique /\ AccountsPaid
-----------------------------------------------------------------------------
(* What a step leaves alone keeps its type.                                *)
LEMMA TypesKept ==
  ASSUME TypeOK
  PROVE  /\ UNCHANGED <<tables>> => TablesOK'
         /\ UNCHANGED <<session, proved>> => SessionsOK'
         /\ UNCHANGED <<store, begun>> => StoreOK'
BY DEF TypeOK, TablesOK, SessionsOK, StoreOK, tables, session, store

(* So does the end of a request.                                           *)
LEMMA DoneTypes ==
  ASSUME TypeOK, NEW r \in Slots, Done(r)
  PROVE  RequestsOK'
BY DEF TypeOK, RequestsOK, Done, UserIDs

(* The number after the last challenge is one of a captcha.                *)
LEMMA NextChallenge ==
  ASSUME issued \in {0} \cup Captchas, issued < MaxIssued
  PROVE  issued + 1 \in Captchas
BY WebAssumption DEF Captchas, WebAssumption

(* Every step keeps the types.                                             *)
LEMMA TypeStep == TypeOK /\ [Next]_vars => TypeOK'
<1> SUFFICES ASSUME TypeOK, [Next]_vars PROVE TypeOK'
  OBVIOUS
<1>1. ASSUME NEW r \in Slots, NEW b \in Browsers, Begin(r, b) PROVE TypeOK'
  <2>1. RequestsOK'
    BY <1>1 DEF Begin, TypeOK, RequestsOK, SessionsOK
  <2>2. begun' \in 0 .. MaxRequests
    BY <1>1, WebAssumption DEF Begin, TypeOK, StoreOK, WebAssumption
  <2>3. StoreOK'
    BY <1>1, <2>2 DEF Begin, TypeOK, StoreOK, store
  <2> QED
    BY <1>1, <2>1, <2>3, TypesKept DEF Begin, TypeOK
<1>2. ASSUME NEW r \in Slots, Done(r), UNCHANGED <<session, tables, store, proved, begun>>
      PROVE  TypeOK'
  BY <1>2, TypesKept, DoneTypes DEF TypeOK
<1>3. ASSUME NEW r \in Slots, Respond(r) PROVE TypeOK'
  <2>1. SessionsOK'
    BY <1>3 DEF Respond, TypeOK, SessionsOK, RequestsOK, session
  <2> QED
    BY <1>3, <2>1, TypesKept, DoneTypes DEF Respond, TypeOK
<1>4. ASSUME NEW r \in Slots, GetCaptcha(r) PROVE TypeOK'
  <2>1. issued < MaxIssued /\ issued + 1 \in Captchas
    BY <1>4, NextChallenge DEF GetCaptcha, TypeOK, StoreOK
  <2>2. RequestsOK'
    BY <1>4, <2>1 DEF GetCaptcha, TypeOK, RequestsOK
  <2>3. StoreOK'
    BY <1>4, <2>1 DEF GetCaptcha, TypeOK, StoreOK, store
  <2> QED
    BY <1>4, <2>2, <2>3, TypesKept DEF GetCaptcha, TypeOK
<1>5. ASSUME NEW r \in Slots, Reload(r) PROVE TypeOK'
  <2>1. issued + 1 \in Captchas
    BY <1>5, NextChallenge DEF Reload, TypeOK, StoreOK
  <2>2. StoreOK'
    BY <1>5, <2>1 DEF Reload, TypeOK, StoreOK
  <2> QED
    BY <1>5, <2>2, TypesKept, DoneTypes DEF Reload, TypeOK
<1>6. ASSUME NEW r \in Slots, PostUser(r) PROVE TypeOK'
  <2>1. cap[r] \in Captchas
    BY <1>6 DEF PostUser, TypeOK, RequestsOK
  <2>2. RequestsOK'
    BY <1>6, <2>1, DoneTypes DEF PostUser, Verify, TypeOK, RequestsOK, StoreOK
  <2>3. StoreOK'
    BY <1>6, <2>1 DEF PostUser, Verify, TypeOK, StoreOK
  <2> QED
    BY <1>6, <2>2, <2>3, TypesKept DEF PostUser, TypeOK
<1>7. ASSUME NEW r \in Slots, PostSession(r) PROVE TypeOK'
  <2>1. ASSUME NEW u \in UserIDs, NEW b \in Browsers
        PROVE  [proved EXCEPT ![b] = @ \cup {u}] \in [Browsers -> SUBSET UserIDs]
    BY Zenon DEF TypeOK, SessionsOK
  <2>2. from[r] \in Browsers /\ Admin \in UserIDs /\ Users \subseteq UserIDs
    BY DEF TypeOK, RequestsOK, UserIDs
  <2>3. SessionsOK'
    BY <1>7, <2>1, <2>2
    DEF PostSession, LoginAdmin, LoginUser, TypeOK, SessionsOK, session
  <2>4. RequestsOK'
    BY <1>7, <2>2 DEF PostSession, LoginAdmin, LoginUser, TypeOK, RequestsOK
  <2> QED
    BY <1>7, <2>3, <2>4, TypesKept DEF PostSession, TypeOK
<1>8. ASSUME NEW r \in Slots,
             Fail(r) \/ GetUser(r) \/ GetUserList(r) \/ GetUserOne(r) \/ GetLogOne(r)
               \/ GetLogList(r) \/ PutPlan(r) \/ PutNotice(r)
      PROVE  TypeOK'
  BY <1>8, <1>2 DEF Fail, GetUser, GetUserList, GetUserOne, GetLogOne, GetLogList, PutPlan,
                    PutNotice, Reads
<1>9. ASSUME NEW r \in Slots, GetRole(r) \/ PutMeta(r) \/ GetMeta(r) PROVE TypeOK'
  <2>1. RequestsOK'
    BY <1>9 DEF GetRole, PutMeta, GetMeta, First, TypeOK, RequestsOK
  <2> QED
    BY <1>9, <2>1, TypesKept DEF GetRole, PutMeta, GetMeta, TypeOK
<1>18. ASSUME NEW r \in Slots, CountMeta(r) PROVE TypeOK'
  <2>1. CASE Reads(r)
    BY <1>2, <2>1 DEF Reads
  <2>2. CASE ~ Reads(r)
    <3>1. RequestsOK'
      BY <1>18, <2>2 DEF CountMeta, TypeOK, RequestsOK
    <3> QED
      BY <1>18, <2>2, <3>1, TypesKept DEF CountMeta, TypeOK
  <2> QED
    BY <2>1, <2>2
<1>10. ASSUME NEW r \in Slots,
              metas' \in Seq(Titles \cup {"default"}), Done(r),
              UNCHANGED <<session, ustate, role, plans, notices, paid, store, proved, begun>>
       PROVE  TypeOK'
  <2>1. TablesOK'
    BY <1>10 DEF TypeOK, TablesOK
  <2> QED
    BY <1>10, <2>1, TypesKept, DoneTypes DEF TypeOK
<1>19. ASSUME NEW r \in Slots, NEW title \in Titles \cup {"default"},
              \/ loaded[r] = 0 /\ metas' = Append(metas, title)
              \/ loaded[r] # 0 /\ metas' = [metas EXCEPT ![loaded[r]] = title]
       PROVE  metas' \in Seq(Titles \cup {"default"})
  <2>1. metas \in Seq(Titles \cup {"default"}) /\ loaded[r] \in {0, 1}
    BY DEF TypeOK, TablesOK, RequestsOK
  <2>2. CASE loaded[r] = 0
    BY <1>19, <2>1, <2>2
  <2>3. CASE loaded[r] # 0 /\ metas # <<>>
    BY <1>19, <2>1, <2>3, ExceptSeq
  <2>4. CASE loaded[r] # 0 /\ metas = <<>>
    BY <1>19, <2>1, <2>4
  <2> QED
    BY <2>2, <2>3, <2>4
<1>11. ASSUME NEW r \in Slots, SaveDefault(r) PROVE TypeOK'
  BY <1>10, <1>11, <1>19 DEF SaveDefault
<1>12. ASSUME NEW r \in Slots, NEW title \in Titles, SaveMeta(r, title) PROVE TypeOK'
  BY <1>10, <1>12, <1>19 DEF SaveMeta
<1>13. ASSUME NEW r \in Slots, NEW u \in Users, CreateUser(r, u) \/ DeleteUser(r, u)
       PROVE  TypeOK'
  <2>1. TablesOK'
    BY <1>13 DEF CreateUser, DeleteUser, TypeOK, TablesOK, RequestsOK, RowStates
  <2> QED
    BY <1>13, <2>1, TypesKept, DoneTypes DEF CreateUser, DeleteUser, TypeOK
<1>14. ASSUME NEW r \in Slots, NEW u \in Users, NEW newRole \in {"user", "admin"},
              PutUser(r, u, newRole)
       PROVE  TypeOK'
  <2>1. TablesOK' /\ RequestsOK'
    BY <1>14 DEF PutUser, TypeOK, TablesOK, RequestsOK
  <2> QED
    BY <1>14, <2>1, TypesKept DEF PutUser, TypeOK
<1>15. ASSUME NEW r \in Slots, NEW i \in Rows,
              PostPlan(r, i) \/ DeletePlan(r, i) \/ PostNotice(r, i) \/ DeleteNotice(r, i)
       PROVE  TypeOK'
  <2>1. TablesOK'
    BY <1>15
    DEF PostPlan, DeletePlan, PostNotice, DeleteNotice, TypeOK, TablesOK, RowStates
  <2> QED
    BY <1>15, <2>1, TypesKept, DoneTypes
    DEF PostPlan, DeletePlan, PostNotice, DeleteNotice, TypeOK
<1>16. ASSUME NEW c \in Captchas, Expire(c) PROVE TypeOK'
  <2>1. StoreOK' /\ RequestsOK'
    BY <1>16 DEF Expire, TypeOK, StoreOK, RequestsOK, request
  <2> QED
    BY <1>16, <2>1, TypesKept DEF Expire, TypeOK
<1>17. CASE UNCHANGED vars
  BY <1>17, TypesKept DEF vars, TypeOK, RequestsOK, request
<1> QED
  BY <1>1, <1>3, <1>4, <1>5, <1>6, <1>7, <1>8, <1>9, <1>11, <1>12, <1>13, <1>14, <1>15,
     <1>16, <1>17, <1>18 DEF Next

(* The types of the administration site's state are kept.                  *)
THEOREM WebTypes == Spec => []TypeOK
<1>1. Init => TypeOK
  <2> SUFFICES ASSUME Init PROVE TypeOK
    OBVIOUS
  <2>1. metas \in Seq(Titles \cup {"default"})
    <3>1. CASE metas = <<>>
      BY <3>1
    <3>2. CASE metas # <<>>
      <4>1. PICK t \in Titles : metas = <<t>>
        BY <3>2 DEF Init
      <4> QED
        BY <4>1
    <3> QED
      BY <3>1, <3>2
  <2>2. TablesOK
    BY <2>1 DEF Init, TablesOK, RowStates
  <2>3. RequestsOK
    BY DEF Init, RequestsOK, UserIDs
  <2>4. SessionsOK
    BY DEF Init, SessionsOK, UserIDs
  <2>5. StoreOK
    BY WebAssumption DEF Init, StoreOK, WebAssumption
  <2> QED
    BY <2>2, <2>3, <2>4, <2>5 DEF TypeOK
<1> QED
  BY <1>1, TypeStep, PTL DEF Spec
-----------------------------------------------------------------------------
(* Every step keeps the sessions justified.                                *)
LEMMA JustifiedStep ==
  TypeOK /\ SessionJustified /\ [Next]_vars => SessionJustified'
<1> SUFFICES ASSUME TypeOK, SessionJustified, [Next]_vars PROVE SessionJustified'
  OBVIOUS
<1> USE DEF TypeOK, RequestsOK, SessionsOK, SessionJustified, session, request, tables, store
<1>1. ASSUME NEW r \in Slots, NEW b \in Browsers, Begin(r, b) PROVE SessionJustified'
  BY <1>1 DEF Begin
<1>2. ASSUME NEW r \in Slots, Done(r), UNCHANGED <<session, proved>>
      PROVE  SessionJustified'
  BY <1>2 DEF Done
<1>3. ASSUME NEW r \in Slots, Respond(r) PROVE SessionJustified'
  BY <1>3 DEF Respond, Done
<1>4. ASSUME UNCHANGED <<session, from, who, proved>> PROVE SessionJustified'
  BY <1>4
<1>5. ASSUME NEW r \in Slots, PostSession(r) PROVE SessionJustified'
  BY <1>5 DEF PostSession, LoginAdmin, LoginUser
<1>6. ASSUME NEW r \in Slots,
             Fail(r) \/ Reload(r) \/ PostUser(r) \/ GetUser(r) \/ GetUserList(r)
               \/ GetUserOne(r) \/ GetLogOne(r) \/ GetLogList(r) \/ PutPlan(r)
               \/ PutNotice(r) \/ SaveDefault(r)
               \/ (\E title \in Titles : SaveMeta(r, title))
               \/ (\E u \in Users : CreateUser(r, u) \/ DeleteUser(r, u))
               \/ (\E i \in Rows : PostPlan(r, i) \/ DeletePlan(r, i)
                                     \/ PostNotice(r, i) \/ DeleteNotice(r, i))
      PROVE  SessionJustified'
  BY <1>6, <1>2, <1>4
  DEF Fail, Reload, PostUser, Verify, GetUser, GetUserList, GetUserOne, GetLogOne,
      GetLogList, PutPlan, PutNotice, SaveDefault, SaveMeta, CreateUser, DeleteUser,
      PostPlan, DeletePlan, PostNotice, DeleteNotice, Reads
<1>7. ASSUME NEW r \in Slots,
             GetCaptcha(r) \/ GetRole(r) \/ PutMeta(r) \/ GetMeta(r) \/ CountMeta(r)
               \/ (\E u \in Users, newRole \in {"user", "admin"} : PutUser(r, u, newRole))
      PROVE  SessionJustified'
  BY <1>7, <1>2, <1>4 DEF GetCaptcha, GetRole, PutMeta, GetMeta, CountMeta, Reads, PutUser
<1>8. CASE \E c \in Captchas : Expire(c)
  BY <1>8, <1>4 DEF Expire
<1>9. CASE UNCHANGED vars
  BY <1>9, <1>4 DEF vars
<1> QED
  BY <1>1, <1>3, <1>5, <1>6, <1>7, <1>8, <1>9 DEF Next

(* A session speaks only for an account whose password its browser gave.   *)
THEOREM WebSessionJustified == Spec => []SessionJustified
<1>1. Init => SessionJustified
  BY DEF Init, SessionJustified
<1> QED
  BY <1>1, JustifiedStep, WebTypes, PTL DEF Spec
-----------------------------------------------------------------------------
(* A step that ends a request, or leaves it where it is, and gives nobody  *)
(* rights keeps the marks.                                                 *)
LEMMA RightsKept ==
  ASSUME TypeOK, Rights, NEW r \in Slots, Done(r), UNCHANGED role,
         \A u \in Users : ustate'[u] = "live" /\ role[u] = "admin" => ustate[u] = "live"
  PROVE  Rights'
BY DEF TypeOK, RequestsOK, Rights, EverMarks, RightsAreCurrent, IsAdmin, Done, Nil, Admin,
       UserIDs

(* Every step keeps the marks of the requests of administrators.           *)
LEMMA RightsStep == TypeOK /\ Rights /\ [Next]_vars => Rights'
<1> SUFFICES ASSUME TypeOK, Rights, [Next]_vars PROVE Rights'
  OBVIOUS
<1> USE DEF TypeOK, RequestsOK, TablesOK, SessionsOK, Rights, EverMarks, RightsAreCurrent,
            IsAdmin, session, request, tables, store, Nil, Admin, UserIDs
<1>1. ASSUME NEW r \in Slots, NEW b \in Browsers, Begin(r, b) PROVE Rights'
  BY <1>1 DEF Begin
<1>2. ASSUME NEW r \in Slots,
             Fail(r) \/ Respond(r) \/ Reload(r) \/ GetUser(r) \/ GetUserList(r)
               \/ GetUserOne(r) \/ GetLogOne(r) \/ GetLogList(r) \/ PutPlan(r)
               \/ PutNotice(r) \/ SaveDefault(r)
               \/ (\E title \in Titles : SaveMeta(r, title))
               \/ (\E i \in Rows : PostPlan(r, i) \/ DeletePlan(r, i)
                                     \/ PostNotice(r, i) \/ DeleteNotice(r, i))
      PROVE  Rights'
  <2>1. Done(r) /\ UNCHANGED <<ustate, role>>
    BY <1>2
    DEF Fail, Respond, Reload, GetUser, GetUserList, GetUserOne, GetLogOne, GetLogList,
        PutPlan, PutNotice, SaveDefault, SaveMeta, PostPlan, DeletePlan, PostNotice,
        DeleteNotice, Reads
  <2> QED
    BY <2>1, RightsKept
<1>3. ASSUME NEW r \in Slots, GetCaptcha(r) PROVE Rights'
  BY <1>3 DEF GetCaptcha
<1>4. ASSUME NEW r \in Slots, PostUser(r) PROVE Rights'
  <2>1. CASE Done(r)
    BY <1>4, <2>1, RightsKept DEF PostUser
  <2>2. CASE pc' = [pc EXCEPT ![r] = "create"] /\ UNCHANGED <<who, ever>>
    BY <1>4, <2>2 DEF PostUser
  <2> QED
    BY <1>4, <2>1, <2>2 DEF PostUser, Verify
<1>5. ASSUME NEW r \in Slots, PostSession(r) PROVE Rights'
  BY <1>5 DEF PostSession, LoginAdmin, LoginUser
<1>6. ASSUME NEW r \in Slots, GetRole(r) PROVE Rights'
  BY <1>6 DEF GetRole, Granted
<1>7. ASSUME NEW r \in Slots, PutMeta(r) \/ GetMeta(r) PROVE Rights'
  BY <1>7 DEF PutMeta, GetMeta
<1>13. ASSUME NEW r \in Slots, CountMeta(r) PROVE Rights'
  <2>1. CASE Reads(r)
    BY <2>1, RightsKept DEF Reads
  <2>2. CASE ~ Reads(r)
    BY <1>13, <2>2 DEF CountMeta
  <2> QED
    BY <2>1, <2>2
<1>8. ASSUME NEW r \in Slots, NEW u \in Users, CreateUser(r, u) PROVE Rights'
  BY <1>8 DEF CreateUser, Done
<1>9. ASSUME NEW r \in Slots, NEW u \in Users, DeleteUser(r, u) PROVE Rights'
  BY <1>9, RightsKept DEF DeleteUser
<1>10. ASSUME NEW r \in Slots, NEW u \in Users, NEW newRole \in {"user", "admin"},
              PutUser(r, u, newRole)
       PROVE  Rights'
  BY <1>10 DEF PutUser
<1>11. CASE \E c \in Captchas : Expire(c)
  BY <1>11 DEF Expire
<1>12. CASE UNCHANGED vars
  BY <1>12 DEF vars
<1> QED
  BY <1>1, <1>2, <1>3, <1>4, <1>5, <1>6, <1>7, <1>8, <1>9, <1>10, <1>11, <1>12,
     <1>13 DEF Next

(* A handler goes on as an administrator only for a user who was one at    *)
(* some moment since the request began.                                    *)
THEOREM WebRightsAreCurrent == Spec => []RightsAreCurrent
<1>1. Init => Rights
  BY DEF Init, Rights, EverMarks, RightsAreCurrent
<1>2. Rights => RightsAreCurrent
  BY DEF Rights
<1> QED
  BY <1>1, <1>2, RightsStep, WebTypes, PTL DEF Spec
-----------------------------------------------------------------------------
(* A step that moves no challenge, except that it may forget some.         *)
LEMMA ChallengesKept ==
  ASSUME Challenges, UNCHANGED <<issued, paid>>,
         \A c \in Captchas : digits'[c] \in {0, digits[c]},
         \A r \in Slots : chal'[r] \in {0, chal[r]},
         issued \in Nat
  PROVE  Challenges'
BY DEF Challenges, ChallengesIssued, ChallengesUnique, AccountsPaid

(* A captcha gets a challenge that was never given before.                 *)
LEMMA ChallengeIssued ==
  ASSUME TypeOK, Challenges, NEW c \in Captchas, issued' = issued + 1,
         digits' = [digits EXCEPT ![c] = issued'], UNCHANGED paid,
         \A r \in Slots : chal'[r] \in {0, chal[r]}
  PROVE  Challenges'
<1>1. /\ issued \in Nat
      /\ \A d \in Captchas : digits[d] \in Nat
      /\ \A r \in Slots : chal[r] \in Nat
      /\ \A u \in Users : paid[u] \in Nat
  BY WebAssumption DEF TypeOK, StoreOK, RequestsOK, TablesOK, Captchas, WebAssumption
<1>2. /\ digits'[c] = issued + 1
      /\ \A d \in Captchas : d # c => digits'[d] = digits[d]
  BY DEF TypeOK, StoreOK
<1>3. ChallengesIssued'
  BY <1>1, <1>2 DEF Challenges, ChallengesIssued
<1>4. ChallengesUnique'
  BY <1>1, <1>2 DEF Challenges, ChallengesIssued, ChallengesUnique
<1> QED
  BY <1>3, <1>4 DEF Challenges, AccountsPaid

(* Every step keeps each challenge at one place.                           *)
LEMMA ChallengesStep == TypeOK /\ Challenges /\ [Next]_vars => Challenges'
<1> SUFFICES ASSUME TypeOK, Challenges, [Next]_vars PROVE Challenges'
  OBVIOUS
<1>1. /\ issued \in Nat
      /\ \A d \in Captchas : digits[d] \in Nat
      /\ \A r \in Slots : chal[r] \in Nat
      /\ \A u \in Users : paid[u] \in Nat
  BY WebAssumption DEF TypeOK, StoreOK, RequestsOK, TablesOK, Captchas, WebAssumption
<1>2. ASSUME UNCHANGED <<issued, digits, paid, chal>> PROVE Challenges'
  BY <1>1, <1>2, ChallengesKept
<1>3. ASSUME NEW r \in Slots, Done(r) PROVE \A x \in Slots : chal'[x] \in {0, chal[x]}
  BY <1>3 DEF Done, TypeOK, RequestsOK
<1>4. ASSUME NEW r \in Slots, Done(r), UNCHANGED <<issued, digits, paid>> PROVE Challenges'
  BY <1>1, <1>3, <1>4, ChallengesKept
<1>5. ASSUME NEW r \in Slots, GetCaptcha(r) PROVE Challenges'
  <2>1. CASE UNCHANGED store
    BY <1>2, <1>5, <2>1 DEF GetCaptcha, store, tables
  <2>2. CASE issued' = issued + 1 /\ digits' = [digits EXCEPT ![issued'] = issued']
    <3>1. issued' \in Captchas
      BY <1>5, <2>2, NextChallenge DEF GetCaptcha, TypeOK, StoreOK
    <3> QED
      BY <1>5, <2>2, <3>1, ChallengeIssued DEF GetCaptcha, tables
  <2> QED
    BY <1>5, <2>1, <2>2 DEF GetCaptcha
<1>6. ASSUME NEW r \in Slots, Reload(r) PROVE Challenges'
  <2>1. CASE cap[r] \in Captchas
    BY <1>3, <1>6, <2>1, ChallengeIssued DEF Reload, tables
  <2>2. CASE cap[r] \notin Captchas
    <3>1. digits' = digits
      BY <1>6, <2>2 DEF Reload, TypeOK, StoreOK
    <3> QED
      BY <1>1, <1>3, <1>6, <3>1
      DEF Reload, tables, Challenges, ChallengesIssued, ChallengesUnique, AccountsPaid
  <2> QED
    BY <2>1, <2>2
<1>7. ASSUME NEW r \in Slots, PostUser(r) PROVE Challenges'
  <2>1. cap[r] \in Captchas /\ digits' = [digits EXCEPT ![cap[r]] = 0]
        /\ UNCHANGED <<issued, paid>>
    BY <1>7 DEF PostUser, Verify, TypeOK, RequestsOK, tables
  <2>2. /\ digits'[cap[r]] = 0
        /\ \A d \in Captchas : d # cap[r] => digits'[d] = digits[d]
    BY <2>1 DEF TypeOK, StoreOK
  <2>3. CASE Done(r)
    BY <1>1, <1>3, <2>1, <2>2, <2>3, ChallengesKept
  <2>4. CASE chal' = [chal EXCEPT ![r] = digits[cap[r]]]
    <3>1. /\ chal'[r] = digits[cap[r]]
          /\ \A x \in Slots : x # r => chal'[x] = chal[x]
      BY <2>4 DEF TypeOK, RequestsOK
    <3>2. ChallengesIssued'
      BY <1>1, <2>1, <2>2, <3>1 DEF Challenges, ChallengesIssued
    <3>3. ChallengesUnique'
      BY <1>1, <2>1, <2>2, <3>1 DEF Challenges, ChallengesUnique
    <3> QED
      BY <2>1, <3>2, <3>3 DEF Challenges, AccountsPaid
  <2> QED
    BY <1>7, <2>3, <2>4 DEF PostUser, Verify
<1>8. ASSUME NEW r \in Slots, NEW u \in Users, CreateUser(r, u) PROVE Challenges'
  <2>1. /\ paid'[u] = chal[r]
        /\ \A v \in Users : v # u => paid'[v] = paid[v]
        /\ chal'[r] = 0
        /\ \A x \in Slots : x # r => chal'[x] = chal[x]
        /\ UNCHANGED <<issued, digits>>
    BY <1>8 DEF CreateUser, Done, TypeOK, RequestsOK, TablesOK, store
  <2>2. ChallengesIssued'
    BY <1>1, <2>1 DEF Challenges, ChallengesIssued
  <2>3. ChallengesUnique'
    BY <1>1, <2>1 DEF Challenges, ChallengesUnique
  <2>4. AccountsPaid'
    BY <2>1 DEF Challenges, ChallengesUnique, AccountsPaid
  <2> QED
    BY <2>2, <2>3, <2>4 DEF Challenges
<1>9. ASSUME NEW r \in Slots,
             Fail(r) \/ Respond(r) \/ GetUser(r) \/ GetUserList(r)
               \/ GetUserOne(r) \/ GetLogOne(r) \/ GetLogList(r) \/ PutPlan(r)
               \/ PutNotice(r) \/ SaveDefault(r)
               \/ (\E title \in Titles : SaveMeta(r, title))
               \/ (\E u \in Users : DeleteUser(r, u))
               \/ (\E i \in Rows : PostPlan(r, i) \/ DeletePlan(r, i)
                                     \/ PostNotice(r, i) \/ DeleteNotice(r, i))
      PROVE  Challenges'
  BY <1>4, <1>9
  DEF Fail, Respond, GetUser, GetUserList, GetUserOne, GetLogOne, GetLogList, PutPlan,
      PutNotice, SaveDefault, SaveMeta, DeleteUser, PostPlan, DeletePlan, PostNotice,
      DeleteNotice, Reads, store, tables
<1>10. ASSUME NEW r \in Slots,
              (\E b \in Browsers : Begin(r, b)) \/ PostSession(r) \/ GetRole(r)
                \/ PutMeta(r) \/ GetMeta(r) \/ CountMeta(r)
                \/ (\E u \in Users, newRole \in {"user", "admin"} : PutUser(r, u, newRole))
       PROVE  Challenges'
  BY <1>2, <1>4, <1>10 DEF Begin, PostSession, GetRole, PutMeta, GetMeta, CountMeta, Reads,
     PutUser, store, tables
<1>11. ASSUME NEW c \in Captchas, Expire(c) PROVE Challenges'
  <2>1. \A d \in Captchas : digits'[d] \in {0, digits[d]}
    BY <1>11 DEF Expire, TypeOK, StoreOK
  <2> QED
    BY <1>1, <1>11, <2>1, ChallengesKept DEF Expire, request, tables
<1>12. CASE UNCHANGED vars
  BY <1>2, <1>12 DEF vars, request, tables, store
<1> QED
  BY <1>5, <1>6, <1>7, <1>8, <1>9, <1>10, <1>11, <1>12 DEF Next

(* Every account was registered for a challenge of its own.                *)
THEOREM WebAccountsPaid == Spec => []AccountsPaid
<1>1. Init => Challenges
  BY DEF Init, Challenges, ChallengesIssued, ChallengesUnique, AccountsPaid
<1>2. Challenges => AccountsPaid
  BY DEF Challenges
<1> QED
  BY <1>1, <1>2, ChallengesStep, WebTypes, PTL DEF Spec
-----------------------------------------------------------------------------
(* Only a failed Count brings the default title back.                      *)
LEMMA TitleStep ==
  ASSUME TypeOK, Next, metas # <<>>, metas[1] # "default", metas'[1] = "default"
  PROVE  \E r \in Slots : CountFailed(r) /\ pc'[r] # pc[r]
<1>1. metas \in Seq(Titles \cup {"default"}) /\ Len(metas) \in Nat \ {0}
  BY DEF TypeOK, TablesOK
<1>2. ASSUME NEW title, metas' = Append(metas, title) PROVE FALSE
  BY <1>1, <1>2
<1>3. ASSUME NEW r \in Slots, NEW title \in Titles, SaveMeta(r, title) PROVE FALSE
  <2>1. CASE loaded[r] = 0
    BY <1>2, <1>3, <2>1 DEF SaveMeta
  <2>2. CASE loaded[r] = 1
    BY <1>1, <1>3, <2>2, ExceptSeq, WebAssumption DEF SaveMeta, WebAssumption
  <2> QED
    BY <2>1, <2>2 DEF TypeOK, RequestsOK
<1>4. ASSUME NEW r \in Slots, SaveDefault(r) PROVE CountFailed(r) /\ pc'[r] # pc[r]
  <2>1. loaded[r] # 0
    BY <1>2, <1>4 DEF SaveDefault
  <2>2. pc[r] = "default" /\ pc'[r] = "idle"
    BY <1>4 DEF SaveDefault, Done, TypeOK, RequestsOK
  <2> QED
    BY <2>1, <2>2 DEF CountFailed
<1>5. metas' # metas
  OBVIOUS
<1> QED
  BY <1>3, <1>4, <1>5
  DEF Next, Begin, Fail, Respond, GetCaptcha, Reload, PostUser, PostSession, GetRole,
      GetUser, GetUserList, GetUserOne, GetLogOne, GetLogList, PutPlan, PutNotice, PutMeta,
      GetMeta, CountMeta, CreateUser, DeleteUser, PutUser, PostPlan, DeletePlan, PostNotice,
      DeleteNotice, Reads, Expire, tables

(* Once a title has been set and is shown, the default does not come back, *)
(* unless through a GetMeta whose Count failed.                            *)
THEOREM WebDefaultNeverReturns == Spec => DefaultNeverReturns
<1>1. TypeOK /\ [Next]_vars
        => [metas # <<>> /\ metas[1] # "default" /\ metas'[1] = "default"
              => \E r \in Slots : CountFailed(r) /\ pc'[r] # pc[r]]_vars
  BY TitleStep
<1> QED
  BY <1>1, WebTypes, PTL DEF Spec, DefaultNeverReturns
-----------------------------------------------------------------------------
(* The bridge that carries the requests to the handlers: Memsocket, for    *)
(* every set of calls and every capacity of the channel.                   *)

(* The types, the capacity of the channel among them, hold.                *)
LEMMA BridgeTypes == BridgeSpec => []BridgeTypeOK
<1>1. BridgeInit => BridgeTypeOK
  BY MemsocketAssumption DEF MemsocketAssumption, BridgeInit, BridgeTypeOK
<1>2. BridgeTypeOK /\ [BridgeNext]_bridgeVars => BridgeTypeOK'
  <2> SUFFICES ASSUME BridgeTypeOK, [BridgeNext]_bridgeVars PROVE BridgeTypeOK'
    OBVIOUS
  <2> USE DEF BridgeTypeOK
  <2>1. CASE Close \/ UNCHANGED bridgeVars
    BY <2>1 DEF Close, bridgeVars
  <2>2. ASSUME NEW c \in Calls, Dial(c) PROVE BridgeTypeOK'
    BY <2>2, MemsocketAssumption DEF MemsocketAssumption, Dial, Room
  <2>3. ASSUME NEW c \in Calls, Accept(c) PROVE BridgeTypeOK'
    BY <2>3, MemsocketAssumption DEF MemsocketAssumption, Accept, Receive
  <2>4. ASSUME NEW c \in Calls,
               \/ ServeWeb(c) \/ WriteTo(c) \/ GiveUp(c)
               \/ ReadResponse(c) \/ Broken(c)
        PROVE  BridgeTypeOK'
    BY <2>4 DEF ServeWeb, WriteTo, GiveUp, ReadResponse, Broken
  <2> QED
    BY <2>1, <2>2, <2>3, <2>4 DEF BridgeNext
<1> QED
  BY <1>1, <1>2, PTL DEF BridgeSpec

(* Why no call is lost: what waits in the channel is there once and not    *)
(* yet served, and nobody is served before its call has dialled.           *)
Paired ==
  /\ \A i \in 1 .. Len(pipe) : call[pipe[i]] = "write" /\ served[pipe[i]] = "none"
  /\ \A i, j \in 1 .. Len(pipe) : pipe[i] = pipe[j] => i = j
  /\ \A c \in Calls : call[c] \in {"idle", "dial"} => served[c] = "none"
  /\ NoCallLost

(* Every step keeps the ends paired.                                       *)
LEMMA PairedStep ==
  ASSUME BridgeTypeOK, Paired, [BridgeNext]_bridgeVars
  PROVE  Paired'
<1>0. /\ call \in [Calls -> {"idle", "dial", "write", "read", "done", "failed"}]
      /\ served \in [Calls -> {"none", "reading", "replying", "waiting", "ended"}]
      /\ pipe \in Seq(Calls)
  BY DEF BridgeTypeOK
<1>1. CASE UNCHANGED <<call, served, pipe>>
  BY <1>1 DEF Paired, NoCallLost, Queued
<1>2. ASSUME NEW c \in Calls, NEW v, NEW w, UNCHANGED pipe, ~ Queued(c),
             \A d \in Calls : call'[d] = IF d = c THEN v ELSE call[d],
             \A d \in Calls : served'[d] = IF d = c THEN w ELSE served[d],
             v \in {"idle", "dial"} => w = "none",
             v = "write" => w = "replying" /\ c \in Heavy,
             v = "read" => w = "replying"
      PROVE  Paired'
  <2>1. \A i \in 1 .. Len(pipe) : pipe[i] \in Calls /\ pipe[i] # c
    BY <1>0, <1>2 DEF Queued
  <2>2. \A d \in Calls : Queued(d)' <=> Queued(d)
    BY <1>2 DEF Queued
  <2> QED
    BY <1>2, <2>1, <2>2 DEF Paired, NoCallLost
<1>3. ASSUME NEW c \in Calls, ServeWeb(c) PROVE Paired'
  <2>1. call[c] = "idle" /\ UNCHANGED <<pipe, served>> /\ served[c] = "none" /\ ~ Queued(c)
    BY <1>3 DEF ServeWeb, Paired, Queued
  <2>2. \A d \in Calls : call'[d] = IF d = c THEN "dial" ELSE call[d]
    BY <1>0, <1>3 DEF ServeWeb
  <2> QED
    BY <1>2, <2>1, <2>2
<1>4. ASSUME NEW c \in Calls, Dial(c) PROVE Paired'
  <2>1. /\ call[c] = "dial" /\ UNCHANGED served /\ pipe' = Append(pipe, c)
        /\ \A d \in Calls : call'[d] = IF d = c THEN "write" ELSE call[d]
    BY <1>0, <1>4 DEF Dial
  <2>2. served[c] = "none" /\ \A i \in 1 .. Len(pipe) : pipe[i] \in Calls /\ pipe[i] # c
    BY <1>0, <2>1 DEF Paired, NoCallLost
  <2>3. /\ Len(pipe) \in Nat /\ Len(pipe') = Len(pipe) + 1 /\ pipe'[Len(pipe) + 1] = c
        /\ \A i \in 1 .. Len(pipe) : pipe'[i] = pipe[i]
    BY <1>0, <2>1
  <2>4. Queued(c)' /\ \A d \in Calls : Queued(d) => Queued(d)'
    BY <2>3 DEF Queued
  <2>5. /\ \A i \in 1 .. Len(pipe') : call'[pipe'[i]] = "write" /\ served'[pipe'[i]] = "none"
        /\ \A i, j \in 1 .. Len(pipe') : pipe'[i] = pipe'[j] => i = j
    BY <2>1, <2>2, <2>3 DEF Paired, NoCallLost
  <2> QED
    BY <2>1, <2>4, <2>5 DEF Paired, NoCallLost
<1>5. ASSUME NEW c \in Calls, Accept(c) PROVE Paired'
  <2>1. /\ UNCHANGED call /\ pipe # <<>> /\ pipe' = Tail(pipe) /\ Head(pipe) = c
        /\ \A d \in Calls : served'[d] = IF d = c THEN "reading" ELSE served[d]
    BY <1>0, <1>5 DEF Accept, Receive
  <2>2. /\ Len(pipe) \in Nat \ {0} /\ Len(pipe') = Len(pipe) - 1 /\ pipe[1] = c
        /\ \A i \in 1 .. Len(pipe') : i + 1 \in 1 .. Len(pipe) /\ pipe'[i] = pipe[i + 1]
    BY <1>0, <2>1
  <2>3. \A i \in 1 .. Len(pipe') : pipe'[i] \in Calls /\ pipe'[i] # c
    BY <1>0, <2>2 DEF Paired, NoCallLost
  <2>4. \A d \in Calls : d # c /\ Queued(d) => Queued(d)'
    <3> SUFFICES ASSUME NEW d \in Calls, d # c, NEW i \in 1 .. Len(pipe), pipe[i] = d
                 PROVE  i - 1 \in 1 .. Len(pipe') /\ pipe'[i - 1] = d
      BY DEF Queued
    <3>1. i # 1
      BY <2>2
    <3>2. i - 1 \in 1 .. Len(pipe') /\ (i - 1) + 1 = i
      BY <2>2, <3>1
    <3> QED
      BY <2>2, <3>2
  <2>5. /\ \A i \in 1 .. Len(pipe') : call'[pipe'[i]] = "write" /\ served'[pipe'[i]] = "none"
        /\ \A i, j \in 1 .. Len(pipe') : pipe'[i] = pipe'[j] => i = j
    BY <2>1, <2>2, <2>3 DEF Paired, NoCallLost
  <2>6. call[c] = "write"
    BY <2>2 DEF Paired, NoCallLost
  <2> QED
    BY <2>1, <2>4, <2>5, <2>6 DEF Paired, NoCallLost
<1>6. ASSUME NEW c \in Calls, served[c] \in {"reading", "replying"} PROVE ~ Queued(c)
  BY <1>6 DEF Paired, NoCallLost, Queued
<1>7. ASSUME NEW c \in Calls, WriteTo(c) PROVE Paired'
  <2>1. /\ served[c] = "reading" /\ UNCHANGED pipe
        /\ \A d \in Calls : call'[d] = IF d = c THEN "read" ELSE call[d]
        /\ \A d \in Calls : served'[d] = IF d = c THEN "replying" ELSE served[d]
    BY <1>0, <1>7 DEF WriteTo
  <2> QED
    BY <1>2, <1>6, <2>1
<1>8. ASSUME NEW c \in Calls, GiveUp(c) PROVE Paired'
  <2>1. /\ c \in Heavy /\ served[c] = "reading" /\ UNCHANGED <<call, pipe>>
        /\ \A d \in Calls : served'[d] = IF d = c THEN "replying" ELSE served[d]
    BY <1>0, <1>8 DEF GiveUp
  <2>2. call[c] \notin {"idle", "dial"}
    BY <2>1 DEF Paired, NoCallLost
  <2>3. \A d \in Calls : call'[d] = IF d = c THEN call[c] ELSE call[d]
    BY <2>1
  <2> QED
    BY <1>2, <1>6, <2>1, <2>2, <2>3
<1>9. ASSUME NEW c \in Calls, ReadResponse(c) \/ Broken(c) PROVE Paired'
  <2>1. PICK v \in {"done", "failed"}, w \in {"waiting", "ended"} :
          /\ served[c] \in {"reading", "replying"} /\ UNCHANGED pipe
          /\ \A d \in Calls : call'[d] = IF d = c THEN v ELSE call[d]
          /\ \A d \in Calls : served'[d] = IF d = c THEN w ELSE served[d]
    BY <1>0, <1>9 DEF ReadResponse, Broken
  <2> QED
    BY <1>2, <1>6, <2>1
<1> QED
  BY <1>1, <1>3, <1>4, <1>5, <1>7, <1>8, <1>9 DEF BridgeNext, Close, bridgeVars

(* Whatever the capacity of the channel and however the calls interleave,  *)
(* a call that is blocked has a counterpart: NoCallLost.                   *)
THEOREM MemsocketNoCallLost == BridgeSpec => []NoCallLost
<1>1. BridgeInit => Paired
  BY DEF BridgeInit, Paired, NoCallLost
<1>2. BridgeTypeOK /\ Paired /\ [BridgeNext]_bridgeVars => Paired'
  BY PairedStep
<1>3. Paired => NoCallLost
  BY DEF Paired
<1> QED
  BY <1>1, <1>2, <1>3, BridgeTypes, PTL DEF BridgeSpec
=============================================================================
