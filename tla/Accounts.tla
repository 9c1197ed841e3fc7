------------------------------ MODULE Accounts ------------------------------
(***************************************************************************)
(* Accounts, their addresses and the codes mailed to them: auth.service    *)
(* with UserRepository, UcodeRepository, the mail queue and its worker.    *)
(*                                                                         *)
(* A call is the list of the database, redis and queue calls it still has  *)
(* to make; one of them is one step and everybody else may step between    *)
(* two.  A step that throws, or whose check fails, drops the rest of the   *)
(* list; nothing is undone.  Reads that only refuse early what a unique    *)
(* index refuses anyway are merged with the write.                         *)
(*                                                                         *)
(* Accounts and codes are numbered in the order in which they are made.    *)
(* Codes are taken to differ; a code that expires and one that is deleted  *)
(* are the same to every query, so both are just no longer valid.          *)
(***************************************************************************)
EXTENDS Naturals, Sequences

CONSTANTS
    Addresses,      \* the mailboxes
    Subjects,       \* what providers call their users
    Provider,       \* [Subjects -> {"google", "apple"}]
    Handlers,       \* the calls that can be in flight
    Kinds,          \* the calls clients make
    Settled,        \* the addresses of the accounts there are at first
    MaxAccounts, MaxCalls, MaxFailures,     \* bounds
    None,           \* null
    Unreachable     \* an address no mailbox has: deleted_<time>_..., and
                    \* apple_<id>@appleid.local

AllKinds == { "REGISTER", "ASK", "VERIFY", "RESET", "REQUEST_CHANGE", "CHANGE",
              "PASSWORD", "DELETE", "SIGN_IN", "LOGIN", "LOGOUT", "TWO_FACTOR",
              "HELP", "ADMIN_EMAIL", "ADMIN_DELETE" }

ASSUME BoundsAreNumbers ==
    MaxAccounts \in Nat /\ MaxCalls \in Nat /\ MaxFailures \in Nat
ASSUME KindsAreKnown == Kinds \subseteq AllKinds
ASSUME SettledAreAddresses ==
    /\ Settled \in Seq(Addresses) /\ Len(Settled) \in 0..MaxAccounts
    /\ \A i, j \in DOMAIN Settled : Settled[i] = Settled[j] => i = j
ASSUME ProvidersAreKnown == Provider \in [Subjects -> {"google", "apple"}]
ASSUME SentinelsAreNoAddresses ==
    /\ None \notin Addresses \cup Subjects /\ Unreachable \notin Addresses
    /\ None # Unreachable

VARIABLES
    users,      \* the rows of the users table; erased ones keep their number
    ucodes,     \* the rows of ucodes
    mailQueue,  \* the jobs of the mail queue
    inbox,      \* <<address, code>>: the mails delivered
    vouched,    \* addresses a provider's token carried or an administrator
                \* typed
    typed,      \* addresses an Apple sign-in took from the request's body
    used,       \* <<address, code>>: what has changed a password or an address
    cut,        \* <<address, code>>: used by a request that then failed
    session,    \* the accounts that have a refresh token in redis
    call,       \* [Handlers -> what the call knows and still has to do]
    calls, failures

vars == <<users, ucodes, mailQueue, inbox, vouched, typed, used, cut,
          session, call, calls, failures>>

---------------------------------------------------------------------------
(* Rows, calls, jobs *)

Email == Addresses \cup {None, Unreachable}

User == [ email : Email, verified : BOOLEAN,    \* email_verified_at # null
          password : BOOLEAN,                   \* password # null
          ids : SUBSET Subjects,                \* google_id, apple_id
          secret : BOOLEAN, enabled : BOOLEAN,  \* two-factor
          state : {"live", "deleted", "erased"} ]

Ucode == [ email : Email, valid : BOOLEAN ]

Job == [ name : {"sendOtpCodeToEmail", "sendSupportRequest"},
         to : Email, code : Nat ]

Steps == { "create", "code", "mail", "support", "validate",
           "validateNew", "verify", "move", "spend", "compare", "rekey",
           "bury", "match", "link", "adopt", "login", "store", "drop",
           "generate", "enable", "disable" }

(* email is the address in the body; code the code in it, or the one made  *)
(* here; under the address the new code is stored with, if the caller      *)
(* names one; seen the row's provider ids when it was read.                *)
Call == [ todo : Seq(Steps), user : Nat, email : Email, code : Nat,
          under : Email, subject : Subjects \cup {None}, seen : SUBSET Subjects ]

Blank == [ todo |-> <<>>, user |-> 0, email |-> None, code |-> 0,
           under |-> None, subject |-> None, seen |-> {} ]

Ids == DOMAIN users
Present == {u \in Ids : users[u].state # "erased"}
Linked(s) == {u \in Present : s \in users[u].ids}
HolderOf(a) == {u \in Present : users[u].email = a}

TypeOK ==
    /\ users \in Seq(User)
    /\ ucodes \in Seq(Ucode)
    /\ mailQueue \subseteq Job
    /\ inbox \subseteq Addresses \X Nat
    /\ vouched \subseteq Addresses /\ typed \subseteq Addresses
    /\ used \subseteq Addresses \X Nat /\ cut \subseteq Addresses \X Nat
    /\ session \subseteq Ids
    /\ call \in [Handlers -> Call]
    /\ calls \in 0..MaxCalls /\ failures \in 0..MaxFailures

NewUser(a) == [ email |-> a, verified |-> FALSE, password |-> TRUE, ids |-> {},
                secret |-> FALSE, enabled |-> FALSE, state |-> "live" ]

Init ==
    /\ users = [u \in 1..Len(Settled) |-> NewUser(Settled[u])]
    /\ ucodes = <<>>
    /\ mailQueue = {} /\ inbox = {}
    /\ vouched = {} /\ typed = {} /\ used = {} /\ cut = {}
    /\ session = {}
    /\ call = [h \in Handlers |-> Blank]
    /\ calls = 0 /\ failures = 0

tables == <<users, ucodes, session>>
post == <<mailQueue, inbox>>
credit == <<vouched, typed>>
spending == <<used, cut>>
history == <<credit, spending>>

---------------------------------------------------------------------------
(* The requests.  What the first read finds is part of them. *)

Accept(h, kind, request) ==
    /\ kind \in Kinds
    /\ call[h].todo = <<>>
    /\ calls < MaxCalls
    /\ calls' = calls + 1
    /\ call' = [call EXCEPT ![h] = request]
    /\ UNCHANGED <<tables, post, spending, failures>>

(* POST /auth/register, of an address nobody has: 'Email already exist'.   *)
(* Between row and code Paystack is told; an error there is a Fail.        *)
Register(h, a) ==
    /\ HolderOf(a) = {}
    /\ Accept(h, "REGISTER", [Blank EXCEPT
            !.todo = <<"create", "code", "mail">>, !.email = a])
    /\ UNCHANGED credit

(* forgotPassword and resendVerificationEmail: find the user, store a code *)
(* and mail it to the address that was typed.                              *)
AskForCode(h, a) ==
    \E u \in HolderOf(a) :
        /\ Accept(h, "ASK", [Blank EXCEPT
                !.todo = <<"code", "mail">>, !.user = u, !.email = a])
        /\ UNCHANGED credit

(* A client types an address and a code somebody has received; any other   *)
(* code is refused.                                                        *)
Received == {m[2] : m \in inbox}

VerifyEmail(h, a, c) ==
    \E u \in HolderOf(a) :
        /\ c \in Received
        /\ Accept(h, "VERIFY", [Blank EXCEPT
                !.todo = <<"validate", "verify">>,
                !.user = u, !.email = a, !.code = c])
        /\ UNCHANGED credit

ResetPassword(h, a, c) ==
    /\ HolderOf(a) # {}
    /\ c \in Received
    /\ Accept(h, "RESET", [Blank EXCEPT
            !.todo = <<"validate", "rekey", "spend">>,
            !.email = a, !.code = c])
    /\ UNCHANGED credit

(* The rest of the requests carry an access token, whose user is looked up *)
(* by id, else by the address in it: it may be any user there is.          *)
(* Mutant: the code is stored under the account's address.                 *)
RequestEmailChangeUnderOld(h, u, a) ==
    /\ u \in Present
    /\ Accept(h, "REQUEST_CHANGE", [Blank EXCEPT
            !.todo = <<"code", "mail">>, !.user = u, !.email = a])
    /\ UNCHANGED credit

RequestEmailChange(h, u, a) ==
    /\ u \in Present
    /\ Accept(h, "REQUEST_CHANGE", [Blank EXCEPT
            !.todo = <<"code", "mail">>, !.user = u, !.email = a, !.under = a])
    /\ UNCHANGED credit

ChangeEmail(h, u, a, c) ==
    /\ u \in Present
    /\ c \in Received
    /\ Accept(h, "CHANGE", [Blank EXCEPT
            !.todo = <<"validateNew", "move", "spend">>,
            !.user = u, !.email = a, !.code = c])
    /\ UNCHANGED credit

(* The address is read here; password and row are found by it later.       *)
ChangePassword(h, u) ==
    /\ u \in Present
    /\ Accept(h, "PASSWORD", [Blank EXCEPT
            !.todo = <<"compare", "rekey">>, !.email = users[u].email])
    /\ UNCHANGED credit

DeleteAccount(h, u) ==
    /\ u \in Present
    /\ Accept(h, "DELETE", [Blank EXCEPT
            !.todo = <<"bury">>, !.user = u, !.email = users[u].email])
    /\ UNCHANGED credit

HelpSupport(h, u) ==
    /\ u \in Present
    /\ Accept(h, "HELP", [Blank EXCEPT !.todo = <<"support">>, !.user = u])
    /\ UNCHANGED credit

(* handleGoogleProfile and handleAppleProfile: by the provider's id, else  *)
(* by the address, else a new row; then login.  The address is the one in  *)
(* the token, whatever a Google token says of its being verified; where an *)
(* Apple token has none it is what the request's body says, signed by      *)
(* nobody, or there is none.                                               *)
SignIn(h, s, a, signed) ==
    /\ signed \/ Provider[s] = "apple"
    /\ \E u \in Linked(s) \cup (IF Linked(s) = {} THEN {0} ELSE {}) :
          Accept(h, "SIGN_IN", [Blank EXCEPT
            !.todo = IF u # 0 THEN <<"store">>
                     ELSE IF a # None THEN <<"match">> ELSE <<"adopt", "store">>,
            !.user = u, !.email = a, !.subject = s])
    /\ vouched' = vouched \cup (IF signed THEN {a} \ {None} ELSE {})
    /\ typed' = typed \cup (IF signed THEN {} ELSE {a} \ {None})

(* validateUser: the row with the address; whether it asks for a second    *)
(* factor is what it says now.                                             *)
Login(h, a) ==
    \E u \in HolderOf(a) :
        /\ Accept(h, "LOGIN", [Blank EXCEPT
                !.todo = IF users[u].enabled THEN <<"compare", "login", "store">>
                         ELSE <<"compare", "store">>,
                !.user = u, !.email = a])
        /\ UNCHANGED credit

(* refreshToken: the token in redis is the one the client sends; it stays. *)
MayRefresh(u) == u \in session

(* revokeRefreshToken, of a user who has one.                              *)
Logout(h, u) ==
    /\ MayRefresh(u)
    /\ Accept(h, "LOGOUT", [Blank EXCEPT !.todo = <<"drop">>, !.user = u])
    /\ UNCHANGED credit

(* generate2FASecret, enable2FA (also without a secret) and disable2FA.    *)
TwoFactor(h, u, what) ==
    /\ u \in Present
    /\ Accept(h, "TWO_FACTOR", [Blank EXCEPT !.todo = <<what>>, !.user = u])
    /\ UNCHANGED credit

(* admin/user: updateUser with an address, unless another account has it.  *)
AdminSetEmail(h, u, a) ==
    /\ u \in Present
    /\ HolderOf(a) \subseteq {u}
    /\ Accept(h, "ADMIN_EMAIL", [Blank EXCEPT
            !.todo = <<"move">>, !.user = u, !.email = a])
    /\ vouched' = vouched \cup {a}
    /\ UNCHANGED typed

(* admin/user: deleteUser is one statement after a look.                   *)
AdminDelete(u) ==
    /\ "ADMIN_DELETE" \in Kinds
    /\ u \in Present
    /\ users' = [users EXCEPT ![u].state = "erased"]
    /\ UNCHANGED <<ucodes, session, post, history, call, calls, failures>>

---------------------------------------------------------------------------
(* The steps *)

At(h, step) == call[h].todo # <<>> /\ Head(call[h].todo) = step

End(h) == call' = [call EXCEPT ![h] = Blank]

Proceed(h, known) ==
    call' = [call EXCEPT ![h] = IF Len(call[h].todo) = 1 THEN Blank
                                ELSE [known EXCEPT !.todo = Tail(call[h].todo)]]

(* UserRepository.createUser: the unique index decides.                    *)
Create(h) ==
    /\ At(h, "create")
    /\ IF HolderOf(call[h].email) = {} /\ Len(users) < MaxAccounts
       THEN /\ users' = Append(users, NewUser(call[h].email))
            /\ Proceed(h, [call[h] EXCEPT !.user = Len(users) + 1])
       ELSE End(h) /\ UNCHANGED users
    /\ UNCHANGED <<ucodes, session, post, history, calls, failures>>

(* createToken: the address is the caller's or the one the row has now; no *)
(* row or no address, no code, but the caller goes on.                     *)
CreateToken(h) ==
    /\ At(h, "code")
    /\ LET u == call[h].user
           email == IF call[h].under # None THEN call[h].under ELSE users[u].email
       IN IF u \in Present /\ users[u].email # None
          THEN /\ ucodes' = Append(ucodes, [email |-> email, valid |-> TRUE])
               /\ Proceed(h, [call[h] EXCEPT !.code = Len(ucodes) + 1])
          ELSE Proceed(h, call[h]) /\ UNCHANGED ucodes
    /\ UNCHANGED <<users, session, post, history, calls, failures>>

(* MailService swallows an error of the queue: the job may be missing and  *)
(* the caller is answered all the same.                                    *)
Enqueue(h, job) ==
    /\ \/ mailQueue' = mailQueue \cup {job} /\ UNCHANGED failures
       \/ /\ failures < MaxFailures
          /\ failures' = failures + 1
          /\ UNCHANGED mailQueue
    /\ End(h)
    /\ UNCHANGED <<tables, inbox, history, calls>>

SendOtpCodeToEmail(h) ==
    /\ At(h, "mail")
    /\ Enqueue(h, [ name |-> "sendOtpCodeToEmail", to |-> call[h].email,
                    code |-> call[h].code ])

SendSupportRequest(h) ==
    /\ At(h, "support")
    /\ Enqueue(h, [ name |-> "sendSupportRequest", to |-> None, code |-> 0 ])

(* Mutant: the code is looked up without its address.                      *)
ValidatesAnyAddress(c, a) == ucodes[c].valid

(* A code is one of an address.                                            *)
Validates(c, a) == ucodes[c].valid /\ ucodes[c].email = a

(* The endpoint verifyOtp answers this and changes nothing.                *)
VerifyOtp(c, a) == HolderOf(a) # {} /\ Validates(c, a)

(* validateToken; except for a change of address somebody must have the    *)
(* address (still).                                                        *)
ValidateToken(h) ==
    /\ At(h, "validate") \/ At(h, "validateNew")
    /\ IF \/ VerifyOtp(call[h].code, call[h].email)
          \/ At(h, "validateNew") /\ Validates(call[h].code, call[h].email)
       THEN Proceed(h, call[h]) ELSE End(h)
    /\ UNCHANGED <<tables, post, history, calls, failures>>

(* Writes the row with this id; without one Prisma throws.                 *)
Update(h, u, row) ==
    IF u \in Present
    THEN users' = [users EXCEPT ![u] = row] /\ Proceed(h, call[h])
    ELSE UNCHANGED users /\ End(h)

Verify(h) ==
    /\ At(h, "verify")
    /\ Update(h, call[h].user, [users[call[h].user] EXCEPT !.verified = TRUE])
    /\ UNCHANGED <<ucodes, session, post, history, calls, failures>>

(* A row changed by a request that carries a code: the code is used.       *)
ChangeBy(h, u, row) ==
    /\ Update(h, u, row)
    /\ used' = IF u \in Present /\ call[h].code # 0
               THEN used \cup {<<call[h].email, call[h].code>>} ELSE used

(* validatePassword and changePassword go by the address, not by the row.  *)
Compare(h) ==
    /\ At(h, "compare")
    /\ IF \E u \in HolderOf(call[h].email) : users[u].password
       THEN Proceed(h, call[h]) ELSE End(h)
    /\ UNCHANGED <<tables, post, history, calls, failures>>

Rekey(h) ==
    /\ At(h, "rekey")
    /\ IF HolderOf(call[h].email) = {} THEN UNCHANGED <<users, used>> /\ End(h)
       ELSE \E u \in HolderOf(call[h].email) :
               ChangeBy(h, u, [users[u] EXCEPT !.password = TRUE])
    /\ UNCHANGED <<ucodes, session, post, credit, cut, calls, failures>>

(* The unique index refuses an address another row has.                    *)
Move(h) ==
    /\ At(h, "move")
    /\ IF HolderOf(call[h].email) \subseteq {call[h].user}
       THEN ChangeBy(h, call[h].user,
                     [users[call[h].user] EXCEPT !.email = call[h].email])
       ELSE UNCHANGED <<users, used>> /\ End(h)
    /\ UNCHANGED <<ucodes, session, post, credit, cut, calls, failures>>

(* Mutant: the code is deleted under the account's old address.            *)
SpendNothing(h) ==
    /\ At(h, "spend")
    /\ End(h)
    /\ UNCHANGED <<users, session, ucodes, post, history, calls, failures>>

(* deleteToken, after what the code was good for is done.                  *)
Spend(h) ==
    /\ At(h, "spend")
    /\ ucodes' = [ucodes EXCEPT ![call[h].code].valid =
                    @ /\ ucodes[call[h].code].email # call[h].email]
    /\ End(h)
    /\ UNCHANGED <<users, session, post, history, calls, failures>>

(* "Soft delete and anonymize unique fields to allow re-registration".     *)
Bury(h) ==
    /\ At(h, "bury")
    /\ LET u == call[h].user
       IN Update(h, u, [users[u] EXCEPT !.state = "deleted", !.ids = {},
                 !.email = IF call[h].email = None THEN @ ELSE Unreachable])
    /\ UNCHANGED <<ucodes, session, post, history, calls, failures>>

---------------------------------------------------------------------------
(* Sign-in *)

(* Not known by id: a row with the address is linked, else one is made.    *)
Match(h) ==
    /\ At(h, "match")
    /\ \/ \E u \in HolderOf(call[h].email) :
            call' = [call EXCEPT ![h].todo = <<"link", "store">>,
                                 ![h].user = u, ![h].seen = users[u].ids]
       \/ /\ HolderOf(call[h].email) = {}
          /\ call' = [call EXCEPT ![h].todo = <<"adopt", "store">>]
    /\ UNCHANGED <<tables, post, history, calls, failures>>

OfProvider(s) == {t \in Subjects : Provider[t] = Provider[s]}

(* byEmail.google_id ?? googleId, as it was when the row was read.         *)
Link(h) ==
    /\ At(h, "link")
    /\ LET s == call[h].subject
           had == call[h].seen \cap OfProvider(s)
           id == IF had = {} THEN {s} ELSE had
           u == call[h].user
       IN IF \E v \in Present \ {u} : users[v].ids \cap id # {}
          THEN UNCHANGED users /\ End(h)
          ELSE Update(h, u, [users[u] EXCEPT
                    !.ids = (@ \ OfProvider(s)) \cup id, !.verified = TRUE])
    /\ UNCHANGED <<ucodes, session, post, history, calls, failures>>

(* Without an address Apple's users get one that nobody reads, verified.   *)
Adopt(h) ==
    /\ At(h, "adopt")
    /\ LET s == call[h].subject
           a == call[h].email
           email == IF a = None /\ Provider[s] = "apple" THEN Unreachable ELSE a
       IN IF Linked(s) # {} \/ (a # None /\ HolderOf(a) # {}) \/ Len(users) = MaxAccounts
          THEN UNCHANGED users /\ End(h)
          ELSE /\ users' = Append(users,
                    [NewUser(email) EXCEPT !.verified = email # None,
                                           !.password = FALSE, !.ids = {s}])
               /\ Proceed(h, [call[h] EXCEPT !.user = Len(users) + 1])
    /\ UNCHANGED <<ucodes, session, post, history, calls, failures>>

(* verify2FA: no secret, no valid token.                                   *)
VerifyTwoFactor(h) ==
    /\ At(h, "login")
    /\ IF call[h].user \in Present /\ users[call[h].user].secret
       THEN Proceed(h, call[h]) ELSE End(h)
    /\ UNCHANGED <<tables, post, history, calls, failures>>

(* login: the one refresh token of the account is overwritten.  The update *)
(* of the row that follows may throw; the token stays.                     *)
StoreToken(h) ==
    /\ At(h, "store")
    /\ session' = session \cup ({call[h].user} \cap Present)
    /\ End(h)
    /\ UNCHANGED <<users, ucodes, post, history, calls, failures>>

DropToken(h) ==
    /\ At(h, "drop")
    /\ session' = session \ {call[h].user}
    /\ End(h)
    /\ UNCHANGED <<users, ucodes, post, history, calls, failures>>

SwitchTwoFactor(h) ==
    /\ \E what \in {"generate", "enable", "disable"} :
          /\ At(h, what)
          /\ Update(h, call[h].user, [users[call[h].user] EXCEPT
                !.secret = what = "generate" \/ (what = "enable" /\ @),
                !.enabled = what = "enable" \/ (what = "generate" /\ @)])
    /\ UNCHANGED <<ucodes, session, post, history, calls, failures>>

(* Any call may throw and the process may stop: the rest is never done.  A *)
(* password or an address may then have changed with its code still valid. *)
Fail(h) ==
    /\ call[h].todo # <<>>
    /\ failures < MaxFailures
    /\ failures' = failures + 1
    /\ cut' = cut \cup (IF At(h, "spend") THEN {<<call[h].email, call[h].code>>} ELSE {})
    /\ End(h)
    /\ UNCHANGED <<tables, post, credit, used, calls>>

---------------------------------------------------------------------------
(* Time and the mail worker *)

(* A code is good for five minutes.                                        *)
Expire(c) ==
    /\ ucodes[c].valid
    /\ ucodes' = [ucodes EXCEPT ![c].valid = FALSE]
    /\ UNCHANGED <<users, session, post, history, call, calls, failures>>

(* The job names process has a case for; all others it drops.              *)
Handles == {"sendMemberInvitation", "sendOtpCodeToEmail", "sendVerificationLink"}

(* Mutant: every job is taken for one that carries a code.                 *)
DeliverAll(job) == inbox' = inbox \cup {<<job.to, job.code>>}

Deliver(job) ==
    inbox' = IF job.name \in Handles /\ job.to \in Addresses /\ job.code # 0
             THEN inbox \cup {<<job.to, job.code>>} ELSE inbox

Work(job) ==
    /\ Deliver(job)
    /\ mailQueue' = mailQueue \ {job}
    /\ UNCHANGED <<tables, history, call, calls, failures>>

(* A job that throws is not tried again; one whose worker stops after the  *)
(* mail went out is.                                                       *)
WorkFails(job) ==
    /\ failures < MaxFailures
    /\ failures' = failures + 1
    /\ \/ mailQueue' = mailQueue \ {job} /\ UNCHANGED inbox
       \/ Deliver(job) /\ UNCHANGED mailQueue
    /\ UNCHANGED <<tables, history, call, calls>>

---------------------------------------------------------------------------
(* The endpoints: what anybody may ask for, what the user of the access    *)
(* token, what a provider has signed, what an administrator.               *)
EntryRequest(h) == \E a \in Addresses : Register(h, a) \/ Login(h, a)

CodeRequest(h) ==
    \E a \in Addresses :
        \/ AskForCode(h, a)
        \/ \E c \in Received : VerifyEmail(h, a, c) \/ ResetPassword(h, a, c)

ProfileRequest(h) ==
    \E u \in Present :
        \/ ChangePassword(h, u)
        \/ \E a \in Addresses :
              RequestEmailChange(h, u, a) \/ \E c \in Received : ChangeEmail(h, u, a, c)

FactorRequest(h) ==
    \E u \in Present, what \in {"generate", "enable", "disable"} : TwoFactor(h, u, what)

AccountRequest(h) == \E u \in Present : DeleteAccount(h, u) \/ HelpSupport(h, u)

ProviderRequest(h) ==
    \E s \in Subjects, a \in Addresses \cup {None}, signed \in BOOLEAN :
        SignIn(h, s, a, signed)

AdminRequest(h) == \E u \in Present, a \in Addresses : AdminSetEmail(h, u, a)

Request(h) ==
    \/ EntryRequest(h) \/ CodeRequest(h) \/ ProfileRequest(h) \/ FactorRequest(h)
    \/ AccountRequest(h) \/ ProviderRequest(h)
    \/ AdminRequest(h) \/ \E u \in Present : Logout(h, u)

Step(h) ==
    \/ Create(h) \/ CreateToken(h) \/ SendOtpCodeToEmail(h) \/ SendSupportRequest(h)
    \/ ValidateToken(h) \/ Verify(h) \/ Compare(h) \/ Rekey(h) \/ Move(h)
    \/ Spend(h) \/ Bury(h) \/ Match(h) \/ Link(h) \/ Adopt(h)
    \/ VerifyTwoFactor(h) \/ StoreToken(h) \/ DropToken(h) \/ SwitchTwoFactor(h)

Next ==
    \/ \E h \in Handlers : Request(h) \/ Step(h) \/ Fail(h)
    \/ \E job \in mailQueue : Work(job) \/ WorkFails(job)
    \/ \E c \in DOMAIN ucodes : Expire(c)
    \/ \E u \in Ids : AdminDelete(u)

Spec == Init /\ [][Next]_vars

---------------------------------------------------------------------------
(* Properties *)

(* The addresses somebody has answered for.  What an Apple client typed is *)
(* not among them.                                                         *)
Reached == vouched \cup {m[1] : m \in inbox}

(* A code may be stored under the address an account has moved to and be   *)
(* mailed to the one it had.  It then opens an address that had answered   *)
(* before, never one that nobody has proved to have.                       *)
MisaddressedCodesOpenProvedAddresses ==
    \A m \in inbox : ucodes[m[2]].email # m[1] =>
        ucodes[m[2]].email \in Reached \cup {Unreachable}

(* The change comes before the code is deleted.  A code that has changed a *)
(* password or an address still validates only while such a request has it *)
(* to delete, or when one failed in between (then until it expires).       *)
UsedCodesDie ==
    \A m \in used : Validates(m[2], m[1]) =>
        m \in cut \/ \E h \in Handlers : /\ At(h, "spend")
                                        /\ m = <<call[h].email, call[h].code>>

ID == INSTANCE AccountIdentity WITH
        Accounts <- 1..MaxAccounts,
        holder <- [a \in Addresses |-> HolderOf(a)],
        confirmed <- {users[u].email : u \in {v \in Present : users[v].verified}} \cap Addresses,
        proved <- Reached,
        claimed <- typed

(* Every step is one of AccountIdentity, or changes nothing it shows.      *)
ImplementsIdentity == ID!Spec

---------------------------------------------------------------------------
(* What one would expect and the code does not do                          *)

(* email_verified_at: the address is its owner's.  With the address in the *)
(* body of an Apple sign-in anybody confirms, and signs in to, the account *)
(* that has it.                                                            *)
ConfirmedMeansProved ==
    \A u \in Present : users[u].verified => users[u].email \notin Addresses \ Reached
=============================================================================
