------------------------------- MODULE Sessions -------------------------------
(***************************************************************************)
(* One account: sign up, log in, rotate the refresh token, reset a         *)
(* forgotten password with a mailed code, change the password.  Every      *)
(* handler loads the row, judges what the client presented on that         *)
(* instance, and later updates the row; requests overlap at will.  The     *)
(* rows of different accounts share nothing.                               *)
(*                                                                         *)
(* Tokens, codes and new passwords are random or new, so each is known by  *)
(* the request that made it.                                               *)
(***************************************************************************)
EXTENDS FiniteSets

CONSTANTS
    Requests,   \* calls of /api/auth
    Kinds,      \* the routes they may take
    Seed,       \* the password of an account that was there before
    None        \* null

Routes == {"signUp", "login", "refreshToken", "forgetPassword", "resetPassword", "changePassword"}
Fields == {"password", "refreshToken", "resetPasswordOtp"}
Answers == {"OK", "REFUSED", "FAILED"}

ASSUME KindsAssumption == Kinds \subseteq Routes
ASSUME SeedAssumption == Seed \notin Requests /\ None \notin Requests /\ Seed # None
ASSUME NoneAssumption == None \notin Answers \cup Routes \cup Fields

VARIABLES
    row,        \* the row of users; there is none while password is null
    kind,       \* the route of each request
    pc,         \* where it is
    loaded,     \* the instance its handler works on
    presented,  \* the password, refresh token or code it carries
    answer,
    mailed,     \* codes that reached the user's mailbox
    expired,    \* tokens and codes whose time is over
    saved,      \* requests whose write to the row took effect
    earlier     \* requests already answered when this one was sent

vars == <<row, kind, pc, loaded, presented, answer, mailed, expired, saved, earlier>>

IssuesToken(r) == kind[r] \in {"signUp", "login", "refreshToken"}
SetsPassword(r) == kind[r] \in {"resetPassword", "changePassword"}

NoUser == [f \in Fields |-> None]
Created(password) == [NoUser EXCEPT !.password = password]
Exists == row.password # None

Init ==
    /\ row \in {NoUser, Created(Seed)}
    /\ kind = [r \in Requests |-> None]
    /\ pc = [r \in Requests |-> "idle"]
    /\ loaded = [r \in Requests |-> NoUser]
    /\ presented = [r \in Requests |-> None]
    /\ answer = [r \in Requests |-> None]
    /\ mailed = {}
    /\ expired = {}
    /\ saved = {}
    /\ earlier = [r \in Requests |-> {}]

Goto(r, label) == pc' = [pc EXCEPT ![r] = label]
Answer(r, what) == Goto(r, "answered") /\ answer' = [answer EXCEPT ![r] = what]

------------------------------------------------------------------------------
(* A request is sent *)

\* What a client may know: passwords somebody chose, refresh tokens handed
\* out, codes mailed.
Known(route) ==
    CASE route \in {"login", "changePassword"} ->
             {Seed} \cup {a \in Requests : SetsPassword(a) \/ kind[a] = "signUp"}
      [] route = "refreshToken" -> {a \in Requests : IssuesToken(a) /\ answer[a] = "OK"}
      [] route = "resetPassword" -> mailed
      [] OTHER -> {None}

\* CheckToken lets changePassword through with an access token, which only the
\* owner of an account has.
Send(r) ==
    /\ pc[r] = "idle"
    /\ \E route \in Kinds, credential \in Requests \cup {Seed, None} :
          /\ credential \in Known(route)
          /\ route = "changePassword" => Exists
          /\ kind' = [kind EXCEPT ![r] = route]
          /\ presented' = [presented EXCEPT ![r] = credential]
    /\ Goto(r, "load")
    /\ earlier' = [earlier EXCEPT ![r] = {a \in Requests : pc[a] = "answered"}]
    /\ UNCHANGED <<row, loaded, answer, mailed, expired, saved>>

------------------------------------------------------------------------------
(* Loading the user *)

\* The field a request's credential is compared with.
CredentialField(route) ==
    CASE route \in {"login", "changePassword"} -> "password"
      [] route = "refreshToken" -> "refreshToken"
      [] route = "resetPassword" -> "resetPasswordOtp"
      [] OTHER -> None

\* What the handler demands of the row it loads.  Passwords do not expire.
Accepts(r) ==
    /\ Exists
    /\ kind[r] # "forgetPassword" => row[CredentialField(kind[r])] = presented[r]
    /\ kind[r] \in {"refreshToken", "resetPassword"} => presented[r] \notin expired

\* Mutant of Load: forgetPassword mails the code without storing it.
LoadForgetting(r) ==
    /\ pc[r] = "load"
    /\ kind[r] # "signUp"
    /\ \/ /\ Accepts(r)
          /\ loaded' = [loaded EXCEPT ![r] = row]
          /\ Goto(r, IF kind[r] = "forgetPassword" THEN "mail" ELSE "update")
          /\ UNCHANGED answer
       \/ ~Accepts(r) /\ Answer(r, "REFUSED") /\ UNCHANGED loaded
    /\ UNCHANGED <<row, kind, presented, mailed, expired, saved, earlier>>

\* User.findOne, and the comparisons made on the instance at once.
Load(r) ==
    /\ pc[r] = "load"
    /\ kind[r] # "signUp"
    /\ \/ /\ Accepts(r)
          /\ loaded' = [loaded EXCEPT ![r] = row]
          /\ Goto(r, "update")
          /\ UNCHANGED answer
       \/ ~Accepts(r) /\ Answer(r, "REFUSED") /\ UNCHANGED loaded
    /\ UNCHANGED <<row, kind, presented, mailed, expired, saved, earlier>>

\* The access token of changePassword ran out on the way.
AccessTokenExpired(r) ==
    /\ pc[r] = "load"
    /\ kind[r] = "changePassword"
    /\ Answer(r, "REFUSED")
    /\ UNCHANGED <<row, kind, loaded, presented, mailed, expired, saved, earlier>>

FindEmail(r) ==
    /\ pc[r] = "load"
    /\ kind[r] = "signUp"
    /\ \/ ~Exists /\ Goto(r, "insert") /\ UNCHANGED answer
       \/ Exists /\ Answer(r, "REFUSED")
    /\ UNCHANGED <<row, kind, loaded, presented, mailed, expired, saved, earlier>>

\* Mutant of InsertUser: the column email has no unique index.
InsertUserUnindexed(r) ==
    /\ pc[r] = "insert"
    /\ row' = Created(r)
    /\ loaded' = [loaded EXCEPT ![r] = Created(r)]
    /\ saved' = saved \cup {r}
    /\ Goto(r, "update")
    /\ UNCHANGED <<kind, presented, answer, mailed, expired, earlier>>

\* User.create meets the unique index on email.
InsertUser(r) ==
    /\ pc[r] = "insert"
    /\ \/ /\ ~Exists
          /\ row' = Created(r)
          /\ loaded' = [loaded EXCEPT ![r] = Created(r)]
          /\ saved' = saved \cup {r}
          /\ Goto(r, "update")
          /\ UNCHANGED answer
       \/ /\ Exists
          /\ Answer(r, "FAILED")
          /\ UNCHANGED <<row, loaded, saved>>
    /\ UNCHANGED <<kind, presented, mailed, expired, earlier>>

------------------------------------------------------------------------------
(* user.update *)

\* Mutant of Values: a new password leaves the refresh token alone.
ValuesKeepingToken(r) ==
    CASE IssuesToken(r) -> [refreshToken |-> r]
      [] kind[r] = "forgetPassword" -> [resetPasswordOtp |-> r]
      [] kind[r] = "resetPassword" -> [password |-> r, resetPasswordOtp |-> None]
      [] kind[r] = "changePassword" -> [password |-> r]

\* Mutant of Values: the code is not cleared by the reset that used it.
ValuesKeepingCode(r) ==
    CASE IssuesToken(r) -> [refreshToken |-> r]
      [] kind[r] = "forgetPassword" -> [resetPasswordOtp |-> r]
      [] SetsPassword(r) -> [password |-> r, refreshToken |-> None]

\* The values a handler assigns; each field with an expiry stands for both.
Values(r) ==
    CASE IssuesToken(r) -> [refreshToken |-> r]
      [] kind[r] = "forgetPassword" -> [resetPasswordOtp |-> r]
      [] kind[r] = "resetPassword" ->
             [password |-> r, resetPasswordOtp |-> None, refreshToken |-> None]
      [] kind[r] = "changePassword" -> [password |-> r, refreshToken |-> None]

\* Mutant of Written: the whole instance is saved.
WrittenWhole(r) ==
    [f \in Fields |-> IF f \in DOMAIN Values(r) THEN Values(r)[f] ELSE loaded[r][f]]

\* The UPDATE names the assigned columns whose value differs from the loaded
\* instance: a null assigned to what was null when loaded is not written.
Written(r) ==
    [f \in Fields |-> IF f \in DOMAIN Values(r) /\ Values(r)[f] # loaded[r][f]
                      THEN Values(r)[f] ELSE row[f]]

\* What is left to do after the update: the mail, the cache, or nothing.
AfterUpdate(r) ==
    CASE kind[r] = "forgetPassword" -> Goto(r, "mail") /\ UNCHANGED answer
      [] kind[r] = "signUp" \/ SetsPassword(r) -> Goto(r, "invalidate") /\ UNCHANGED answer
      [] OTHER -> Answer(r, "OK")

UpdateUser(r) ==
    /\ pc[r] = "update"
    /\ row' = Written(r)
    /\ saved' = saved \cup {r}
    /\ AfterUpdate(r)
    /\ loaded' = [loaded EXCEPT ![r] = NoUser]     \* not used any more
    /\ UNCHANGED <<kind, presented, mailed, expired, earlier>>

\* The mail is delivered, or not; and a delivered one may be reported failed.
SendMail(r) ==
    /\ pc[r] = "mail"
    /\ \/ mailed' = mailed \cup {r} /\ (Answer(r, "OK") \/ Answer(r, "FAILED"))
       \/ UNCHANGED mailed /\ Answer(r, "FAILED")
    /\ UNCHANGED <<row, kind, loaded, presented, expired, saved, earlier>>

\* invalidateCache("authMutation"), which may throw.
InvalidateAndAnswer(r) ==
    /\ pc[r] = "invalidate"
    /\ Answer(r, "OK") \/ Answer(r, "FAILED")
    /\ UNCHANGED <<row, kind, loaded, presented, mailed, expired, saved, earlier>>

------------------------------------------------------------------------------
(* Failures and time *)

\* A query fails without effect.  Handlers share nothing but the row, so a
\* process that dies is the same as every running request failing in turn.
StatementFails(r) ==
    /\ pc[r] \in {"load", "insert", "update"}
    /\ Answer(r, "FAILED")
    /\ UNCHANGED <<row, kind, loaded, presented, mailed, expired, saved, earlier>>

\* The write is done and its acknowledgement lost.
WriteUnacknowledged(r) ==
    /\ \/ pc[r] = "update" /\ row' = Written(r)
       \/ pc[r] = "insert" /\ ~Exists /\ row' = Created(r)
    /\ saved' = saved \cup {r}
    /\ Answer(r, "FAILED")
    /\ UNCHANGED <<kind, loaded, presented, mailed, expired, earlier>>

\* The seven days of a token, the ten minutes of a code.
Expire(r) ==
    /\ r \in {row.refreshToken, row.resetPasswordOtp} \ expired
    /\ expired' = expired \cup {r}
    /\ UNCHANGED <<row, kind, pc, loaded, presented, answer, mailed, saved, earlier>>

RequestStep(r) ==
    Load(r) \/ FindEmail(r) \/ InsertUser(r) \/ UpdateUser(r) \/ SendMail(r)
        \/ InvalidateAndAnswer(r)

Next ==
    \E r \in Requests :
        \/ Send(r) \/ RequestStep(r)
        \/ AccessTokenExpired(r) \/ StatementFails(r) \/ WriteUnacknowledged(r)
        \/ Expire(r)

Spec == Init /\ [][Next]_vars

------------------------------------------------------------------------------
(* Properties *)

TypeOK ==
    /\ row \in [Fields -> Requests \cup {Seed, None}]
    /\ kind \in [Requests -> Kinds \cup {None}]
    /\ pc \in [Requests -> {"idle", "load", "insert", "update", "mail", "invalidate", "answered"}]
    /\ loaded \in [Requests -> [Fields -> Requests \cup {Seed, None}]]
    /\ presented \in [Requests -> Requests \cup {Seed, None}]
    /\ answer \in [Requests -> Answers \cup {None}]
    /\ mailed \subseteq saved
    /\ expired \subseteq saved
    /\ saved \subseteq Requests
    /\ earlier \in [Requests -> SUBSET Requests]

Succeeded(r) == answer[r] = "OK"

(* A refresh token handed out before a password reset or change was sent no *)
(* longer works once that one succeeded, whatever logins, refreshes and     *)
(* other changes overlap with it.                                           *)
PasswordChangeRevokes ==
    \A a, c \in Requests :
        IssuesToken(a) /\ SetsPassword(c) /\ Succeeded(a) /\ Succeeded(c) /\ a \in earlier[c] =>
            row.refreshToken # a

\* The credentials a successful call makes worthless.
Supersedes(route) ==
    CASE route = "resetPassword" -> Fields
      [] route = "changePassword" -> {"password", "refreshToken"}
      [] route = "forgetPassword" -> {"resetPasswordOtp"}
      [] OTHER -> {"refreshToken"}

(* No request is accepted with a credential that an answered request has    *)
(* superseded: a rotated refresh token, a used reset code and a replaced    *)
(* password are refused for good.  What b presents was stored by a itself   *)
(* or by a request that was not over when a was sent.                       *)
SupersededIsRefused ==
    \A a, b \in Requests :
        Succeeded(a) /\ Succeeded(b) /\ a \in earlier[b]
            /\ CredentialField(kind[b]) \in Supersedes(kind[a]) =>
                presented[b] \in saved \ earlier[a]

(* What a successful request stored stays until a request that was not over *)
(* when it was sent, and that assigns the same field, stores something      *)
(* else: stale instances never bring an older value back.                   *)
LastAnswerHolds ==
    \A r \in Requests, f \in Fields :
        Succeeded(r) /\ f \in DOMAIN Values(r) /\ Values(r)[f] = r /\ row[f] # r =>
            \E w \in saved \ ({r} \cup earlier[r]) : f \in DOMAIN Values(w)

(* Of several signups with one email at most one is told it succeeded.      *)
SignUpOnce ==
    \A a, b \in Requests :
        kind[a] = "signUp" /\ kind[b] = "signUp" /\ Succeeded(a) /\ Succeeded(b) => a = b
==============================================================================
