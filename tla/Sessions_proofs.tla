--------------------------- MODULE Sessions_proofs ---------------------------
(***************************************************************************)
(* Proofs about Sessions, for any number of calls on any routes: what a    *)
(* successful call supersedes never comes back, and nobody gets in with it.*)
(***************************************************************************)
EXTENDS Sessions, TLAPS

(* What was in the row before request c was sent.                           *)
Old(c) == earlier[c] \cup {Seed}

(* The update is done and acknowledged, and nothing has failed since.       *)
Done(r) == pc[r] \in {"mail", "invalidate"} \/ Succeeded(r)

(* Requests that have an answer stay as they are; what has been done by the *)
(* time a handler is past its update.                                       *)
PhaseInv ==
    \A r \in Requests :
        /\ pc[r] = "idle" <=> kind[r] = None
        /\ r \in saved => pc[r] \notin {"idle", "load", "insert"}
        /\ r \in saved /\ pc[r] = "update" => kind[r] = "signUp"
        /\ pc[r] = "update" /\ kind[r] = "signUp" => r \in saved
        /\ pc[r] = "insert" => kind[r] = "signUp"
        /\ Done(r) => r \in saved
        /\ answer[r] # None => pc[r] = "answered"
        /\ \A a \in earlier[r] : pc[a] = "answered"
        /\ pc[r] # "idle" /\ CredentialField(kind[r]) \in Fields => presented[r] # None

(* The row and every instance hold what was saved, and no account is saved  *)
(* to before it exists.                                                     *)
SavedInv ==
    /\ \A f \in Fields : row[f] \in saved \cup {Seed, None}
    /\ \A r \in Requests, f \in Fields : loaded[r][f] \in saved \cup {Seed, None}
    /\ saved # {} => Exists
    /\ \A r \in Requests : pc[r] = "update" => Exists
    /\ \A a, b \in saved : kind[a] = "signUp" /\ kind[b] = "signUp" => a = b

(* An instance is current as far as values older than the request go, so    *)
(* the UPDATE, which leaves out what is unchanged in the instance, leaves   *)
(* nothing old in the row.                                                  *)
CurrentInv ==
    \A r \in Requests, f \in Fields :
        /\ pc[r] = "update" /\ row[f] \in Old(r) => loaded[r][f] = row[f]
        /\ pc[r] = "update" /\ kind[r] = "signUp" => loaded[r]["refreshToken"] = None

(* What a saved request superseded is gone.                                 *)
GoneInv ==
    \A r \in saved, f \in Fields :
        pc[r] # "update" /\ f \in Supersedes(kind[r]) => row[f] \notin Old(r)

(* Who was let in did not present what an answered request superseded.      *)
JudgedInv ==
    \A a, b \in Requests :
        /\ pc[b] = "update" \/ Done(b)
        /\ Succeeded(a) /\ a \in earlier[b]
        /\ CredentialField(kind[b]) \in Supersedes(kind[a])
        => presented[b] \in saved \ earlier[a]

(* The fields in which a handler stores a value of its own.                 *)
Stored(route) ==
    CASE route \in {"signUp", "login", "refreshToken"} -> {"refreshToken"}
      [] route = "forgetPassword" -> {"resetPasswordOtp"}
      [] OTHER -> {"password"}

(* What a request stored is there, or replaced by a later one.              *)
KeptInv ==
    \A r \in Requests : \A f \in Stored(kind[r]) :
        Done(r) /\ row[f] # r =>
            \E w \in saved \ ({r} \cup earlier[r]) : f \in Supersedes(kind[w])

IInv == TypeOK /\ PhaseInv /\ SavedInv /\ CurrentInv /\ GoneInv /\ JudgedInv /\ KeptInv

------------------------------------------------------------------------------
(* What the handlers write *)

(* What update is given is the request's own value or null, in the fields   *)
(* whose credentials it makes worthless; a password is never null.          *)
LEMMA ValuesFacts ==
    ASSUME NEW r \in Requests, kind[r] \in Routes
    PROVE  /\ DOMAIN Values(r) = Supersedes(kind[r])
           /\ Supersedes(kind[r]) \subseteq Fields
           /\ Stored(kind[r]) \subseteq Supersedes(kind[r])
           /\ \A f \in Supersedes(kind[r]) :
                 /\ f \in Stored(kind[r]) => Values(r)[f] = r
                 /\ f \notin Stored(kind[r]) => Values(r)[f] = None
           /\ "password" \in Supersedes(kind[r]) => "password" \in Stored(kind[r])
  <1> USE DEF Supersedes, Stored, Fields
  <1>1. CASE IssuesToken(r)
    <2>1. Values(r) = [refreshToken |-> r]
      BY <1>1 DEF Values, IssuesToken
    <2> QED
      BY <1>1, <2>1 DEF IssuesToken
  <1>2. CASE kind[r] = "forgetPassword"
    <2>1. Values(r) = [resetPasswordOtp |-> r]
      BY <1>2 DEF Values, IssuesToken
    <2> QED
      BY <1>2, <2>1
  <1>3. CASE kind[r] = "resetPassword"
    <2>1. Values(r) = [password |-> r, resetPasswordOtp |-> None, refreshToken |-> None]
      BY <1>3 DEF Values, IssuesToken
    <2> QED
      BY <1>3, <2>1
  <1>4. CASE kind[r] = "changePassword"
    <2>1. Values(r) = [password |-> r, refreshToken |-> None]
      BY <1>4 DEF Values, IssuesToken
    <2> QED
      BY <1>4, <2>1
  <1> QED
    BY <1>1, <1>2, <1>3, <1>4 DEF Routes, IssuesToken

(* No name of a route, a field or an answer is null.                        *)
LEMMA Distinct ==
    /\ None \notin Routes \cup Fields \cup Answers \cup Requests
    /\ Seed # None /\ Seed \notin Requests
  BY SeedAssumption, NoneAssumption

(* A request that was sent has a route.                                     *)
LEMMA HasRoute ==
    ASSUME IInv, NEW r \in Requests, pc[r] # "idle"
    PROVE  kind[r] \in Routes
  BY KindsAssumption, Distinct DEF IInv, TypeOK, PhaseInv

------------------------------------------------------------------------------
(* The steps *)

LEMMA SendKeeps ==
    ASSUME IInv, NEW r \in Requests, Send(r)
    PROVE  IInv'
  <1> USE Distinct
  <1>1. PICK route \in Kinds, credential \in Requests \cup {Seed, None} :
           /\ credential \in Known(route)
           /\ kind' = [kind EXCEPT ![r] = route]
           /\ presented' = [presented EXCEPT ![r] = credential]
    BY DEF Send
  <1>2. /\ pc[r] = "idle" /\ pc' = [pc EXCEPT ![r] = "load"]
        /\ earlier' = [earlier EXCEPT ![r] = {a \in Requests : pc[a] = "answered"}]
        /\ UNCHANGED <<row, loaded, answer, mailed, expired, saved>>
    BY DEF Send, Goto
  <1>3. TypeOK'
    BY <1>1, <1>2 DEF IInv, TypeOK
  <1>4. /\ \A q \in Requests \ {r} :
               /\ kind'[q] = kind[q] /\ pc'[q] = pc[q]
               /\ presented'[q] = presented[q] /\ earlier'[q] = earlier[q]
        /\ kind'[r] = route /\ pc'[r] = "load" /\ presented'[r] = credential
        /\ earlier'[r] = {a \in Requests : pc[a] = "answered"}
        /\ r \notin saved /\ ~Done(r) /\ ~Succeeded(r)
        /\ \A q \in Requests : r \notin earlier[q] /\ (Done(q)' <=> Done(q))
        /\ \A q \in Requests : Succeeded(q)' <=> Succeeded(q)
    <2>1. /\ \A q \in Requests \ {r} :
               /\ kind'[q] = kind[q] /\ pc'[q] = pc[q]
               /\ presented'[q] = presented[q] /\ earlier'[q] = earlier[q]
          /\ kind'[r] = route /\ pc'[r] = "load" /\ presented'[r] = credential
          /\ earlier'[r] = {a \in Requests : pc[a] = "answered"}
      BY <1>1, <1>2 DEF IInv, TypeOK
    <2>2. r \notin saved /\ ~Succeeded(r) /\ \A q \in Requests : r \notin earlier[q]
      BY <1>2 DEF IInv, PhaseInv, Succeeded, Answers
    <2>3. \A q \in Requests : Succeeded(q)' <=> Succeeded(q)
      BY <1>2 DEF Succeeded
    <2> QED
      BY <1>2, <2>1, <2>2, <2>3 DEF Done
  <1>5. PhaseInv'
    <2>1. CredentialField(route) \in Fields => credential # None
      <3>1. mailed \subseteq Requests
        BY DEF IInv, TypeOK
      <3> QED
        BY <1>1, <3>1, KindsAssumption DEF CredentialField, Known, Routes
    <2>2. route # None
      BY KindsAssumption
    <2> QED
      BY <1>2, <1>4, <2>1, <2>2 DEF IInv, PhaseInv
  <1>6. SavedInv'
    BY <1>2, <1>4 DEF IInv, SavedInv, Exists, TypeOK
  <1>7. CurrentInv'
    BY <1>2, <1>4 DEF IInv, CurrentInv, Old
  <1>8. GoneInv'
    BY <1>2, <1>4 DEF IInv, GoneInv, Old, TypeOK
  <1>9. JudgedInv'
    <2> SUFFICES ASSUME NEW a \in Requests, NEW b \in Requests,
                        pc'[b] = "update" \/ Done(b)', Succeeded(a)', a \in earlier'[b],
                        CredentialField(kind'[b]) \in Supersedes(kind'[a])
                 PROVE  presented'[b] \in saved' \ earlier'[a]
      BY DEF JudgedInv
    <2>1. b # r /\ a # r
      BY <1>4
    <2> QED
      BY <1>2, <1>4, <2>1 DEF IInv, JudgedInv
  <1>10. KeptInv'
    <2> SUFFICES ASSUME NEW q \in Requests, NEW f \in Stored(kind'[q]), Done(q)', row'[f] # q
                 PROVE  \E w \in saved' \ ({q} \cup earlier'[q]) : f \in Supersedes(kind'[w])
      BY DEF KeptInv
    <2>1. q # r
      BY <1>4
    <2>2. PICK w \in saved \ ({q} \cup earlier[q]) : f \in Supersedes(kind[w])
      BY <1>2, <1>4, <2>1 DEF IInv, KeptInv
    <2> QED
      BY <1>2, <1>4, <2>1, <2>2 DEF IInv, TypeOK
  <1> QED
    BY <1>3, <1>5, <1>6, <1>7, <1>8, <1>9, <1>10 DEF IInv

(* A step of a handler that neither loads nor writes.                       *)
LEMMA QuietKeeps ==
    ASSUME IInv, NEW r \in Requests, NEW at \in {"insert", "answered"}, TypeOK',
           pc' = [pc EXCEPT ![r] = at], pc[r] \notin {"idle", "answered"},
           at = "insert" => pc[r] = "load" /\ kind[r] = "signUp" /\ answer' = answer,
           \A q \in Requests \ {r} : answer'[q] = answer[q],
           Succeeded(r)' => pc[r] \in {"mail", "invalidate"},
           UNCHANGED <<row, kind, loaded, presented, saved, earlier>>
    PROVE  IInv'
  <1> USE Distinct
  <1>1. /\ \A q \in Requests \ {r} : pc'[q] = pc[q]
        /\ pc'[r] = at
        /\ \A q \in Requests \ {r} : (Done(q)' <=> Done(q)) /\ (Succeeded(q)' <=> Succeeded(q))
        /\ Done(r)' => Done(r)
        /\ \A q \in Requests : r \notin earlier[q]
    <2>1. (\A q \in Requests \ {r} : pc'[q] = pc[q]) /\ pc'[r] = at
      BY DEF IInv, TypeOK
    <2>2. \A q \in Requests \ {r} : Succeeded(q)' <=> Succeeded(q)
      BY DEF Succeeded
    <2>3. \A q \in Requests : r \notin earlier[q]
      BY DEF IInv, PhaseInv
    <2> QED
      BY <2>1, <2>2, <2>3 DEF Done
  <1>2. PhaseInv'
    BY <1>1 DEF IInv, PhaseInv, Done, Succeeded
  <1>3. SavedInv'
    BY <1>1 DEF IInv, SavedInv, Exists
  <1>4. CurrentInv'
    BY <1>1 DEF IInv, CurrentInv, Old
  <1>5. GoneInv'
    <2> SUFFICES ASSUME NEW q \in saved, NEW f \in Fields, pc'[q] # "update",
                        f \in Supersedes(kind[q]), row[f] \in Old(q)
                 PROVE  FALSE
      BY DEF GoneInv, Old
    <2>1. pc[q] = "update" /\ q = r /\ q \in Requests
      BY <1>1 DEF IInv, GoneInv, TypeOK
    <2>2. kind[q] = "signUp" /\ loaded[q]["refreshToken"] = None
      BY <2>1 DEF IInv, PhaseInv, CurrentInv, Fields
    <2>3. f = "refreshToken" /\ row[f] = None
      BY <2>1, <2>2 DEF IInv, CurrentInv, Supersedes
    <2>4. None \notin Old(q)
      BY <2>1 DEF Old, IInv, TypeOK
    <2> QED
      BY <2>3, <2>4
  <1>6. JudgedInv'
    <2> SUFFICES ASSUME NEW a \in Requests, NEW b \in Requests,
                        pc'[b] = "update" \/ Done(b)', Succeeded(a)', a \in earlier[b],
                        CredentialField(kind[b]) \in Supersedes(kind[a])
                 PROVE  presented[b] \in saved \ earlier[a]
      BY DEF JudgedInv
    <2> QED
      BY <1>1 DEF IInv, JudgedInv
  <1>7. KeptInv'
    BY <1>1 DEF IInv, KeptInv
  <1> QED
    BY <1>2, <1>3, <1>4, <1>5, <1>6, <1>7 DEF IInv

(* The steps that end a handler or refuse the request.                      *)
LEMMA EndKeeps ==
    ASSUME IInv, NEW r \in Requests,
           \/ AccessTokenExpired(r) \/ FindEmail(r) \/ SendMail(r)
           \/ InvalidateAndAnswer(r) \/ StatementFails(r)
           \/ Load(r) /\ ~Accepts(r)
    PROVE  IInv'
  <1> USE Distinct
  <1>1. PICK at \in {"insert", "answered"} :
           /\ pc' = [pc EXCEPT ![r] = at]
           /\ at = "insert" => pc[r] = "load" /\ kind[r] = "signUp" /\ answer' = answer
           /\ at = "answered" => \E what \in Answers :
                  /\ answer' = [answer EXCEPT ![r] = what]
                  /\ what = "OK" => pc[r] \in {"mail", "invalidate"}
    BY DEF AccessTokenExpired, FindEmail, SendMail, InvalidateAndAnswer, StatementFails,
           Load, Answer, Goto, Answers
  <1>2. /\ UNCHANGED <<row, kind, loaded, presented, saved, earlier, expired>>
        /\ pc[r] \notin {"idle", "answered"}
        /\ mailed' = mailed \/ (pc[r] = "mail" /\ mailed' = mailed \cup {r})
    BY DEF AccessTokenExpired, FindEmail, SendMail, InvalidateAndAnswer, StatementFails, Load
  <1>3. mailed' \subseteq saved
    BY <1>2 DEF IInv, TypeOK, PhaseInv, Done
  <1>4. TypeOK'
    BY <1>1, <1>2, <1>3 DEF IInv, TypeOK
  <1>5. /\ \A q \in Requests \ {r} : answer'[q] = answer[q]
        /\ Succeeded(r)' => pc[r] \in {"mail", "invalidate"}
    BY <1>1, <1>2 DEF IInv, TypeOK, PhaseInv, Succeeded, Answers
  <1> QED
    BY <1>1, <1>2, <1>4, <1>5, QuietKeeps

(* Who is let in presented what is in the row, which no answered request    *)
(* has superseded.                                                          *)
LEMMA LoadKeeps ==
    ASSUME IInv, NEW r \in Requests, Load(r), Accepts(r)
    PROVE  IInv'
  <1> USE Distinct
  <1>1. /\ pc[r] = "load" /\ kind[r] # "signUp"
        /\ pc' = [pc EXCEPT ![r] = "update"]
        /\ loaded' = [loaded EXCEPT ![r] = row]
        /\ UNCHANGED <<row, kind, presented, answer, mailed, expired, saved, earlier>>
    BY DEF Load, Goto, Answer
  <1>2. TypeOK'
    BY <1>1 DEF IInv, TypeOK
  <1>3. /\ \A q \in Requests \ {r} : pc'[q] = pc[q] /\ loaded'[q] = loaded[q]
        /\ pc'[r] = "update" /\ loaded'[r] = row
        /\ \A q \in Requests : (Done(q)' <=> Done(q)) /\ (Succeeded(q)' <=> Succeeded(q))
        /\ r \notin saved
    BY <1>1 DEF IInv, TypeOK, PhaseInv, Done, Succeeded
  <1>4. PhaseInv'
    <2>1. \A q \in Requests : r \notin earlier[q]
      BY <1>1 DEF IInv, PhaseInv
    <2> QED
      BY <1>1, <1>3, <2>1 DEF IInv, PhaseInv
  <1>5. SavedInv'
    BY <1>1, <1>3 DEF IInv, SavedInv, Exists, Accepts
  <1>6. CurrentInv'
    BY <1>1, <1>3 DEF IInv, CurrentInv, Old
  <1>7. GoneInv'
    BY <1>1, <1>3 DEF IInv, GoneInv, Old, TypeOK
  <1>8. JudgedInv'
    <2> SUFFICES ASSUME NEW a \in Requests, NEW b \in Requests,
                        pc'[b] = "update" \/ Done(b)', Succeeded(a)', a \in earlier[b],
                        CredentialField(kind[b]) \in Supersedes(kind[a])
                 PROVE  presented[b] \in saved \ earlier[a]
      BY <1>1 DEF JudgedInv
    <2>1. CASE b # r
      BY <1>3, <2>1 DEF IInv, JudgedInv
    <2>2. CASE b = r
      <3> DEFINE f == CredentialField(kind[r])
      <3>1. a \in saved /\ pc[a] = "answered"
        BY <1>3, <2>2 DEF IInv, PhaseInv, Done
      <3>2. f \in Fields /\ f \in Supersedes(kind[a])
        BY <2>2, <3>1, HasRoute, ValuesFacts
      <3>3. row[f] = presented[r] /\ presented[r] # None
        BY <1>1, <3>2 DEF Accepts, IInv, PhaseInv, CredentialField
      <3>4. row[f] \notin Old(a) /\ row[f] \in saved \cup {Seed, None}
        BY <3>1, <3>2 DEF IInv, GoneInv, SavedInv
      <3> QED
        BY <2>2, <3>3, <3>4 DEF Old
    <2> QED
      BY <2>1, <2>2
  <1>9. KeptInv'
    BY <1>1, <1>3 DEF IInv, KeptInv
  <1> QED
    BY <1>2, <1>4, <1>5, <1>6, <1>7, <1>8, <1>9 DEF IInv

(* An account is created only when nothing has been saved yet.              *)
LEMMA InsertKeeps ==
    ASSUME IInv, NEW r \in Requests, pc[r] = "insert", ~Exists, TypeOK',
           NEW at \in {"update", "answered"}, pc' = [pc EXCEPT ![r] = at],
           row' = Created(r), saved' = saved \cup {r},
           at = "update" => loaded' = [loaded EXCEPT ![r] = Created(r)] /\ answer' = answer,
           at = "answered" => loaded' = loaded /\ answer' = [answer EXCEPT ![r] = "FAILED"],
           UNCHANGED <<kind, presented, mailed, expired, earlier>>
    PROVE  IInv'
  <1> USE Distinct
  <1>1. saved = {} /\ \A q \in Requests : pc[q] # "update" /\ ~Done(q)
    BY DEF IInv, SavedInv, PhaseInv
  <1>2. kind[r] = "signUp" /\ \A q \in Requests : r \notin earlier[q]
    BY DEF IInv, PhaseInv
  <1>3. /\ \A q \in Requests \ {r} : pc'[q] = pc[q] /\ loaded'[q] = loaded[q]
        /\ pc'[r] = at
        /\ \A q \in Requests : ~Done(q)'
        /\ saved' = {r}
    <2>1. (\A q \in Requests \ {r} : pc'[q] = pc[q] /\ loaded'[q] = loaded[q]) /\ pc'[r] = at
      BY DEF IInv, TypeOK
    <2>2. \A q \in Requests : ~Succeeded(q)'
      BY <1>1 DEF IInv, TypeOK, Succeeded, Done
    <2> QED
      BY <1>1, <2>1, <2>2 DEF Done
  <1>4. /\ row' \in [Fields -> {r, None}] /\ row'["password"] = r
        /\ row'["refreshToken"] = None
        /\ at = "update" => loaded'[r] = row'
        /\ at = "answered" => loaded'[r] = loaded[r]
    BY DEF Created, NoUser, Fields, IInv, TypeOK
  <1>5. PhaseInv'
    BY <1>1, <1>2, <1>3 DEF IInv, PhaseInv, TypeOK
  <1>6. SavedInv'
    <2>1. Exists'
      BY <1>4 DEF Exists
    <2>2. \A q \in Requests, f \in Fields : loaded'[q][f] \in saved' \cup {Seed, None}
      BY <1>1, <1>3, <1>4 DEF IInv, SavedInv
    <2> QED
      BY <1>3, <1>4, <2>1, <2>2 DEF SavedInv
  <1>7. CurrentInv'
    BY <1>1, <1>3, <1>4 DEF IInv, CurrentInv, Old, Fields
  <1>8. GoneInv'
    <2> SUFFICES ASSUME NEW f \in Fields, f \in Supersedes("signUp")
                 PROVE  row'[f] \notin Old(r)'
      BY <1>2, <1>3 DEF GoneInv
    <2>1. f = "refreshToken" /\ earlier' = earlier /\ earlier[r] \subseteq Requests
      BY DEF Supersedes, IInv, TypeOK
    <2> QED
      BY <1>4, <2>1 DEF Old
  <1>9. JudgedInv'
    BY <1>3 DEF JudgedInv, Done
  <1>10. KeptInv'
    BY <1>3 DEF KeptInv
  <1> QED
    BY <1>5, <1>6, <1>7, <1>8, <1>9, <1>10 DEF IInv

(* The write of r concerns no value that is older than a request to which   *)
(* it would matter: r was still running when that one was sent.             *)
LEMMA UpdateKeeps ==
    ASSUME IInv, NEW r \in Requests, pc[r] = "update", TypeOK',
           NEW at \in {"mail", "invalidate", "answered"}, pc' = [pc EXCEPT ![r] = at],
           row' = Written(r), saved' = saved \cup {r},
           loaded' = loaded \/ loaded' = [loaded EXCEPT ![r] = NoUser],
           at # "answered" => answer' = answer,
           at = "answered" => \E what \in Answers : answer' = [answer EXCEPT ![r] = what],
           UNCHANGED <<kind, presented, mailed, expired, earlier>>
    PROVE  IInv'
  <1> USE Distinct
  <1> DEFINE mine == Supersedes(kind[r])
  <1>1. /\ kind[r] \in Routes /\ mine \subseteq Fields
        /\ \A q \in Requests : r \notin earlier[q]
        /\ earlier[r] \subseteq Requests
    BY HasRoute, ValuesFacts DEF IInv, PhaseInv, TypeOK
  <1>2. \A f \in Fields :
           /\ f \in Stored(kind[r]) => row'[f] = r
           /\ f \in mine \ Stored(kind[r]) => row'[f] = None \/ (row'[f] = row[f] /\ loaded[r][f] = None)
           /\ f \notin mine => row'[f] = row[f]
    <2> SUFFICES ASSUME NEW f \in Fields
                 PROVE  /\ f \in Stored(kind[r]) => row'[f] = r
                        /\ f \in mine \ Stored(kind[r]) =>
                               row'[f] = None \/ (row'[f] = row[f] /\ loaded[r][f] = None)
                        /\ f \notin mine => row'[f] = row[f]
      OBVIOUS
    <2>1. /\ DOMAIN Values(r) = mine
          /\ Stored(kind[r]) \subseteq mine
          /\ f \in Stored(kind[r]) => Values(r)[f] = r
          /\ f \in mine \ Stored(kind[r]) => Values(r)[f] = None
      BY <1>1, ValuesFacts
    <2>2. row'[f] = IF f \in mine /\ Values(r)[f] # loaded[r][f] THEN Values(r)[f] ELSE row[f]
      BY <2>1 DEF Written
    <2>3. f \in Stored(kind[r]) => loaded[r][f] # r
      <3>1. CASE kind[r] = "signUp"
        BY <3>1 DEF IInv, CurrentInv, Stored
      <3>2. CASE kind[r] # "signUp"
        BY <3>2 DEF IInv, PhaseInv, SavedInv
      <3> QED
        BY <3>1, <3>2
    <2> QED
      BY <2>1, <2>2, <2>3
  <1> HIDE DEF mine
  <1>3. /\ \A q \in Requests \ {r} : pc'[q] = pc[q]
        /\ pc'[r] = at
        /\ \A q \in Requests \ {r} : loaded'[q] = loaded[q]
        /\ \A f \in Fields : loaded'[r][f] \in {loaded[r][f], None}
        /\ \A q \in Requests \ {r} : (Done(q)' <=> Done(q)) /\ (Succeeded(q)' <=> Succeeded(q))
        /\ ~Done(r) /\ ~Succeeded(r)
    <2>1. (\A q \in Requests \ {r} : pc'[q] = pc[q]) /\ pc'[r] = at
      BY DEF IInv, TypeOK
    <2>2. \A q \in Requests \ {r} : Succeeded(q)' <=> Succeeded(q)
      BY DEF Succeeded, IInv, TypeOK
    <2>3. /\ \A q \in Requests \ {r} : loaded'[q] = loaded[q]
          /\ \A f \in Fields : loaded'[r][f] \in {loaded[r][f], None}
      BY DEF IInv, TypeOK, NoUser
    <2>4. ~Succeeded(r)
      BY DEF IInv, PhaseInv, Succeeded, Answers
    <2> QED
      BY <2>1, <2>2, <2>3, <2>4 DEF Done
  <1>4. PhaseInv'
    <2>1. \A q \in Requests \ {r} : answer'[q] = answer[q]
      BY DEF IInv, TypeOK
    <2>2. at # "answered" => answer'[r] = None
      BY DEF IInv, PhaseInv
    <2> QED
      BY <1>1, <1>3, <2>1, <2>2 DEF IInv, PhaseInv
  <1>5. SavedInv'
    <2>1. \A f \in Fields : row'[f] \in saved' \cup {Seed, None}
      BY <1>2 DEF IInv, SavedInv
    <2>2. \A q \in Requests, f \in Fields : loaded'[q][f] \in saved' \cup {Seed, None}
      BY <1>3 DEF IInv, SavedInv
    <2>3. Exists'
      <3>1. "password" \in Fields /\ row["password"] # None
        BY DEF IInv, SavedInv, Exists, Fields
      <3>2. "password" \in mine => "password" \in Stored(kind[r])
        BY <1>1, ValuesFacts DEF mine
      <3> QED
        BY <1>2, <3>1, <3>2 DEF Exists
    <2>4. \A a, b \in saved' : kind'[a] = "signUp" /\ kind'[b] = "signUp" => a = b
      BY DEF IInv, SavedInv, PhaseInv
    <2> QED
      BY <2>1, <2>2, <2>3, <2>4 DEF SavedInv
  <1>6. CurrentInv'
    <2> SUFFICES ASSUME NEW q \in Requests, NEW f \in Fields, pc'[q] = "update"
                 PROVE  /\ row'[f] \in Old(q) => loaded'[q][f] = row'[f]
                        /\ kind[q] = "signUp" => loaded'[q]["refreshToken"] = None
      BY DEF CurrentInv, Old
    <2>1. q # r /\ loaded'[q] = loaded[q] /\ pc[q] = "update"
      BY <1>3
    <2>2. row'[f] \in Old(q) => row'[f] = row[f]
      <3>1. r \notin Old(q) /\ None \notin Old(q)
        BY <1>1 DEF Old, IInv, TypeOK
      <3> QED
        BY <1>2, <3>1
    <2> QED
      BY <2>1, <2>2 DEF IInv, CurrentInv
  <1>7. GoneInv'
    <2> SUFFICES ASSUME NEW q \in saved', NEW f \in Fields, pc'[q] # "update",
                        f \in Supersedes(kind[q]), row'[f] \in Old(q)
                 PROVE  FALSE
      BY DEF GoneInv, Old
    <2>1. q \in Requests
      BY DEF IInv, TypeOK
    <2>2. r \notin Old(q) /\ None \notin Old(q)
      BY <1>1, <2>1 DEF Old, IInv, TypeOK
    <2>3. row'[f] = row[f]
      BY <1>2, <2>2
    <2>4. CASE q # r
      BY <1>3, <2>1, <2>3, <2>4 DEF IInv, GoneInv
    <2>5. CASE q = r
      <3>1. loaded[r][f] = row[f]
        BY <2>3, <2>5 DEF IInv, CurrentInv
      <3> QED
        BY <1>2, <2>2, <2>3, <2>5, <3>1 DEF mine
    <2> QED
      BY <2>4, <2>5
  <1>8. JudgedInv'
    <2> SUFFICES ASSUME NEW a \in Requests, NEW b \in Requests,
                        pc'[b] = "update" \/ Done(b)', Succeeded(a)', a \in earlier[b],
                        CredentialField(kind[b]) \in Supersedes(kind[a])
                 PROVE  presented[b] \in saved' \ earlier[a]
      BY DEF JudgedInv
    <2> QED
      BY <1>1, <1>3 DEF IInv, JudgedInv
  <1>9. KeptInv'
    <2> SUFFICES ASSUME NEW q \in Requests, NEW f \in Stored(kind[q]), Done(q)', row'[f] # q
                 PROVE  \E w \in saved' \ ({q} \cup earlier[q]) : f \in Supersedes(kind[w])
      BY DEF KeptInv
    <2>1. f \in Fields
      BY DEF Stored, Fields
    <2>2. q # r
      BY <1>2, <2>1
    <2>3. CASE row[f] = q
      <3>1. f \in mine
        BY <1>2, <2>1, <2>3
      <3> QED
        BY <1>1, <2>2, <3>1 DEF mine
    <2>4. CASE row[f] # q
      BY <1>3, <2>2, <2>4 DEF IInv, KeptInv
    <2> QED
      BY <2>3, <2>4
  <1> QED
    BY <1>4, <1>5, <1>6, <1>7, <1>8, <1>9 DEF IInv

------------------------------------------------------------------------------
(* The theorems *)

LEMMA InitInvariant == Init => IInv
  <1> SUFFICES ASSUME Init PROVE IInv
    OBVIOUS
  <1> USE Distinct DEF Init
  <1>1. row \in [Fields -> {Seed, None}] /\ \A r \in Requests, f \in Fields : loaded[r][f] = None
    BY DEF NoUser, Created, Fields
  <1>2. \A r \in Requests : ~Succeeded(r) /\ ~Done(r)
    BY DEF Succeeded, Done, Answers
  <1>3. TypeOK
    BY <1>1 DEF TypeOK, NoUser
  <1>4. PhaseInv
    BY <1>2 DEF PhaseInv
  <1>5. SavedInv /\ CurrentInv /\ GoneInv
    BY <1>1 DEF SavedInv, CurrentInv, GoneInv
  <1>6. JudgedInv /\ KeptInv
    BY <1>2 DEF JudgedInv, KeptInv
  <1> QED
    BY <1>3, <1>4, <1>5, <1>6 DEF IInv

(* What is written has the type of the row.                                 *)
LEMMA WrittenType ==
    ASSUME IInv, NEW r \in Requests, pc[r] # "idle"
    PROVE  Written(r) \in [Fields -> Requests \cup {Seed, None}]
  <1>1. \A f \in DOMAIN Values(r) : Values(r)[f] \in {r, None}
    BY HasRoute, ValuesFacts
  <1> QED
    BY <1>1 DEF Written, IInv, TypeOK

LEMMA WriteStepKeeps ==
    ASSUME IInv, NEW r \in Requests,
           InsertUser(r) \/ UpdateUser(r) \/ WriteUnacknowledged(r)
    PROVE  IInv'
  <1> USE Distinct
  <1>0. Created(r) \in [Fields -> Requests \cup {Seed, None}] /\ NoUser \in [Fields -> {None}]
    BY DEF Created, NoUser
  <1>1. CASE InsertUser(r) /\ Exists
    <2>1. /\ pc[r] = "insert" /\ pc' = [pc EXCEPT ![r] = "answered"]
          /\ answer' = [answer EXCEPT ![r] = "FAILED"]
          /\ UNCHANGED <<row, kind, loaded, presented, mailed, expired, saved, earlier>>
      BY <1>1 DEF InsertUser, Answer, Goto
    <2>2. TypeOK'
      BY <2>1 DEF IInv, TypeOK, Answers
    <2>3. /\ \A q \in Requests \ {r} : answer'[q] = answer[q]
          /\ ~Succeeded(r)'
      BY <2>1 DEF IInv, TypeOK, Succeeded
    <2> QED
      BY <2>1, <2>2, <2>3, QuietKeeps
  <1>2. CASE InsertUser(r) /\ ~Exists
    <2>1. /\ pc[r] = "insert" /\ pc' = [pc EXCEPT ![r] = "update"]
          /\ row' = Created(r) /\ loaded' = [loaded EXCEPT ![r] = Created(r)]
          /\ saved' = saved \cup {r}
          /\ UNCHANGED <<kind, presented, answer, mailed, expired, earlier>>
      BY <1>2 DEF InsertUser, Goto
    <2>2. TypeOK'
      BY <1>0, <2>1 DEF IInv, TypeOK
    <2> QED
      BY <1>2, <2>1, <2>2, InsertKeeps
  <1>3. CASE WriteUnacknowledged(r) /\ pc[r] = "insert"
    <2>1. /\ ~Exists /\ pc' = [pc EXCEPT ![r] = "answered"]
          /\ row' = Created(r) /\ saved' = saved \cup {r}
          /\ answer' = [answer EXCEPT ![r] = "FAILED"]
          /\ UNCHANGED <<kind, loaded, presented, mailed, expired, earlier>>
      BY <1>3 DEF WriteUnacknowledged, Answer, Goto
    <2>2. TypeOK'
      BY <1>0, <2>1 DEF IInv, TypeOK, Answers
    <2> QED
      BY <1>3, <2>1, <2>2, InsertKeeps
  <1>4. CASE UpdateUser(r)
    <2>1. /\ pc[r] = "update" /\ row' = Written(r) /\ saved' = saved \cup {r}
          /\ loaded' = [loaded EXCEPT ![r] = NoUser]
          /\ UNCHANGED <<kind, presented, mailed, expired, earlier>>
      BY <1>4 DEF UpdateUser
    <2>2. PICK at \in {"mail", "invalidate", "answered"} :
             /\ pc' = [pc EXCEPT ![r] = at]
             /\ at # "answered" => answer' = answer
             /\ at = "answered" => answer' = [answer EXCEPT ![r] = "OK"]
      BY <1>4 DEF UpdateUser, AfterUpdate, Answer, Goto
    <2>3. TypeOK'
      <3>1. answer' \in [Requests -> Answers \cup {None}]
        BY <2>2 DEF IInv, TypeOK, Answers
      <3>2. row' \in [Fields -> Requests \cup {Seed, None}]
        BY <2>1, WrittenType
      <3>3. loaded' \in [Requests -> [Fields -> Requests \cup {Seed, None}]]
        BY <1>0, <2>1 DEF IInv, TypeOK
      <3> QED
        BY <2>1, <2>2, <3>1, <3>2, <3>3 DEF IInv, TypeOK
    <2> QED
      BY <2>1, <2>2, <2>3, UpdateKeeps DEF Answers
  <1>5. CASE WriteUnacknowledged(r) /\ pc[r] = "update"
    <2>1. /\ row' = Written(r) /\ saved' = saved \cup {r}
          /\ pc' = [pc EXCEPT ![r] = "answered"]
          /\ answer' = [answer EXCEPT ![r] = "FAILED"]
          /\ UNCHANGED <<kind, loaded, presented, mailed, expired, earlier>>
      BY <1>5 DEF WriteUnacknowledged, Answer, Goto
    <2>2. TypeOK'
      BY <1>5, <2>1, WrittenType DEF IInv, TypeOK, Answers
    <2> QED
      BY <1>5, <2>1, <2>2, UpdateKeeps DEF Answers
  <1> QED
    BY <1>1, <1>2, <1>3, <1>4, <1>5 DEF WriteUnacknowledged

LEMMA StepInvariant == IInv /\ [Next]_vars => IInv'
  <1> SUFFICES ASSUME IInv, [Next]_vars PROVE IInv'
    OBVIOUS
  <1>1. CASE UNCHANGED vars
    BY <1>1 DEF vars, IInv, TypeOK, PhaseInv, SavedInv, CurrentInv, GoneInv, JudgedInv, KeptInv,
                Done, Succeeded, Old, Exists
  <1>2. ASSUME NEW r \in Requests, Expire(r)
        PROVE  IInv'
    <2>1. r \in saved
      BY <1>2, Distinct DEF Expire, IInv, SavedInv, Fields
    <2> QED
      BY <1>2, <2>1 DEF Expire, IInv, TypeOK, PhaseInv, SavedInv, CurrentInv, GoneInv, JudgedInv,
                        KeptInv, Done, Succeeded, Old, Exists
  <1> QED
    BY <1>1, <1>2, SendKeeps, EndKeeps, LoadKeeps, WriteStepKeeps DEF Next, RequestStep

(* The invariant holds in every reachable state, for any number of calls.   *)
THEOREM Invariance == Spec => []IInv
  BY InitInvariant, StepInvariant, PTL DEF Spec

(* The row holds passwords, tokens and codes, and a code is in a mailbox    *)
(* only after it was stored.                                                *)
THEOREM TypeCorrect == Spec => []TypeOK
  <1>1. IInv => TypeOK
    BY DEF IInv
  <1> QED
    BY <1>1, Invariance, PTL

(* However many signups race on one email, one succeeds at most.            *)
THEOREM OneSignUp == Spec => []SignUpOnce
  <1>1. IInv => SignUpOnce
    BY DEF IInv, PhaseInv, SavedInv, SignUpOnce, Done
  <1> QED
    BY <1>1, Invariance, PTL

(* resetPassword and changePassword end every session that was there before *)
(* the request, whatever overlaps with it.                                  *)
THEOREM OldSessionsEnd == Spec => []PasswordChangeRevokes
  <1>1. ASSUME IInv
        PROVE  PasswordChangeRevokes
    <2> SUFFICES ASSUME NEW a \in Requests, NEW c \in Requests,
                        SetsPassword(c), Succeeded(c), a \in earlier[c], row.refreshToken = a
                 PROVE  FALSE
      BY DEF PasswordChangeRevokes
    <2>1. c \in saved /\ pc[c] # "update"
      BY <1>1, Distinct DEF IInv, PhaseInv, Done, Succeeded, Answers
    <2>2. "refreshToken" \in Fields /\ "refreshToken" \in Supersedes(kind[c])
      BY DEF SetsPassword, Supersedes, Fields
    <2> QED
      BY <1>1, <2>1, <2>2 DEF IInv, GoneInv, Old
  <1> QED
    BY <1>1, Invariance, PTL

(* login, refreshToken, resetPassword and changePassword refuse every       *)
(* credential that an answered request has superseded.                      *)
THEOREM SupersededRefused == Spec => []SupersededIsRefused
  <1>1. IInv => SupersededIsRefused
    BY DEF IInv, JudgedInv, SupersededIsRefused, Done
  <1> QED
    BY <1>1, Invariance, PTL

(* No stale instance undoes what an answered request stored.                *)
THEOREM AnswersHold == Spec => []LastAnswerHolds
  <1>1. ASSUME IInv
        PROVE  LastAnswerHolds
    <2> SUFFICES ASSUME NEW r \in Requests, NEW f \in Fields,
                        Succeeded(r), f \in DOMAIN Values(r), Values(r)[f] = r, row[f] # r
                 PROVE  \E w \in saved \ ({r} \cup earlier[r]) : f \in DOMAIN Values(w)
      BY DEF LastAnswerHolds
    <2>1. \A q \in saved : q \in Requests /\ pc[q] # "idle"
      BY <1>1 DEF IInv, TypeOK, PhaseInv
    <2>2. r \in saved
      BY <1>1 DEF IInv, PhaseInv, Done
    <2>3. f \in Stored(kind[r])
      BY <1>1, <2>1, <2>2, HasRoute, ValuesFacts, Distinct
    <2>4. PICK w \in saved \ ({r} \cup earlier[r]) : f \in Supersedes(kind[w])
      BY <1>1, <2>3 DEF IInv, KeptInv, Done
    <2>5. f \in DOMAIN Values(w)
      BY <1>1, <2>1, <2>4, HasRoute, ValuesFacts
    <2> QED
      BY <2>4, <2>5
  <1> QED
    BY <1>1, Invariance, PTL
==============================================================================
