----------------------------- MODULE PhoneSignIn ----------------------------
(***************************************************************************)
(* One-time codes sent to phones, and the accounts whose phone they prove: *)
(* sign-in, registration, linking, and an administrator's edit of a phone. *)
(*                                                                         *)
(* Sends for one phone queue at an advisory lock, checks of one code at    *)
(* its row; the accounts' rows are read without a lock, and written at     *)
(* the commit, by key, in the columns that differ from what was read.      *)
(***************************************************************************)
EXTENDS Integers, FiniteSets

CONSTANTS Phones, NoPhone, Accounts, NoAccount, Sessions, NoSession,
          MaxAttempts,   \* settings.otp_max_attempts
          MaxPerPhone,   \* settings.phone_otp_max_sends_per_phone_per_hour
          MaxPerIp,      \* settings.phone_otp_max_sends_per_ip_per_hour
          MaxCodes       \* bound: codes ever sent; their window never passes

VARIABLES
    codes,      \* the phone_otp_challenges rows, in the order they were sent
    uses,       \* how often each code was accepted
    cooling,    \* phones whose resend cooldown runs
    sending,    \* who has a phone's advisory lock
    checking,   \* who has a code's row
    account,    \* each account's row: exists, phone, phone_verified_at is set
    proved,     \* the phones that a code has proved for each account
    tokens,     \* phones with a registration token
    req,        \* each session's handler
    raced       \* accounts written from a row that had changed since it was read

vars == <<codes, uses, cooling, sending, checking, account, proved, tokens, req, raced>>
codeVars    == <<codes, uses, cooling, sending, checking>>
accountVars == <<account, proved, raced>>

Ids  == 1..MaxCodes
Row  == [exists: BOOLEAN, phone: Phones \cup {NoPhone}, verified: BOOLEAN]
NoRow == [exists |-> FALSE, phone |-> NoPhone, verified |-> FALSE]
Idle == [at |-> "idle", phone |-> NoPhone, code |-> 0, user |-> NoAccount, seen |-> NoRow, holders |-> {}]

TypeOK ==
    /\ codes \in [Ids -> [phone: Phones \cup {NoPhone}, active: BOOLEAN, expired: BOOLEAN, attempts: 0..MaxAttempts]]
    /\ uses \in [Ids -> Nat]
    /\ cooling \subseteq Phones /\ tokens \subseteq Phones /\ raced \subseteq Accounts
    /\ sending \in [Phones -> Sessions \cup {NoSession}]
    /\ checking \in [Ids -> Sessions \cup {NoSession}]
    /\ account \in [Accounts -> Row]
    /\ proved \in [Accounts -> SUBSET Phones]
    /\ req \in [Sessions -> [at: {"idle", "send", "sms", "sign_in", "link", "linking", "holders", "release", "edit"},
                             phone: Phones \cup {NoPhone}, code: Ids \cup {0},
                             user: Accounts \cup {NoAccount}, seen: Row, holders: SUBSET Accounts]]

\* Accounts registered by e-mail may have typed any phone that nobody else has.
Init ==
    /\ codes = [i \in Ids |-> [phone |-> NoPhone, active |-> FALSE, expired |-> FALSE, attempts |-> 0]]
    /\ uses = [i \in Ids |-> 0]
    /\ cooling = {} /\ tokens = {} /\ raced = {}
    /\ sending = [p \in Phones |-> NoSession] /\ checking = [i \in Ids |-> NoSession]
    /\ account \in [Accounts -> {r \in Row : ~r.verified /\ (~r.exists => r = NoRow)}]
    /\ \A a, b \in Accounts : account[a].phone = account[b].phone => a = b \/ account[a].phone = NoPhone
    /\ proved = [a \in Accounts |-> {}]
    /\ req = [s \in Sessions |-> Idle]

Sent         == {i \in Ids : codes[i].phone # NoPhone}
SentTo(p)    == {i \in Sent : codes[i].phone = p}
Active(p)    == {i \in SentTo(p) : codes[i].active}
VerifiedOf(p) == {a \in Accounts : account[a].phone = p /\ account[a].verified}
ClaimedBy(p) == {a \in Accounts : account[a].phone = p /\ ~account[a].verified}
Goto(s, r)   == req' = [req EXCEPT ![s] = r]
End(s)       == Goto(s, Idle)

----------------------------------------------------------------------------
(* PhoneOtpService.send *)

WithinLimits(p) ==
    /\ p \notin cooling
    /\ Cardinality(SentTo(p)) < MaxPerPhone
    /\ Cardinality(Sent) < MaxPerIp

LockPhone(s, p) ==
    /\ req[s] = Idle /\ sending[p] = NoSession /\ WithinLimits(p)
    /\ sending' = [sending EXCEPT ![p] = s]
    /\ Goto(s, [Idle EXCEPT !.at = "send", !.phone = p])
    /\ UNCHANGED <<codes, uses, cooling, checking, accountVars, tokens>>

\* Earlier codes are invalidated (waiting for one that is being checked) and
\* the new one is added: one commit, before the message goes out.
BrokenCommitCode(s) ==
    LET p == req[s].phone
        n == Cardinality(Sent) + 1 IN
    /\ req[s].at = "send" /\ n <= MaxCodes
    /\ codes' = [codes EXCEPT ![n] = [phone |-> p, active |-> TRUE, expired |-> FALSE, attempts |-> 0]]
    /\ Goto(s, [req[s] EXCEPT !.at = "sms", !.code = n])
    /\ sending' = [sending EXCEPT ![p] = NoSession]
    /\ cooling' = cooling \cup {p}
    /\ UNCHANGED <<uses, checking, accountVars, tokens>>
CommitCode(s) ==
    LET p == req[s].phone IN
    /\ req[s].at = "send" /\ Cardinality(Sent) < MaxCodes
    /\ \A i \in Active(p) : checking[i] = NoSession
    /\ LET n == Cardinality(Sent) + 1 IN
        /\ codes' = [i \in Ids |->
            IF i = n THEN [phone |-> p, active |-> TRUE, expired |-> FALSE, attempts |-> 0]
            ELSE IF i \in Active(p) THEN [codes[i] EXCEPT !.active = FALSE] ELSE codes[i]]
        /\ Goto(s, [req[s] EXCEPT !.at = "sms", !.code = n])
    /\ sending' = [sending EXCEPT ![p] = NoSession]
    /\ cooling' = cooling \cup {p}
    /\ UNCHANGED <<uses, checking, accountVars, tokens>>

MessageSent(s) == req[s].at = "sms" /\ End(s) /\ UNCHANGED <<codeVars, accountVars, tokens>>
MessageFailed(s) ==
    /\ req[s].at = "sms" /\ checking[req[s].code] = NoSession
    /\ codes' = [codes EXCEPT ![req[s].code].active = FALSE]
    /\ End(s)
    /\ UNCHANGED <<uses, cooling, sending, checking, accountVars, tokens>>

----------------------------------------------------------------------------
(* PhoneOtpService.verify, called by verify_otp and link_phone *)

Checkable(p) == {i \in Active(p) : ~codes[i].expired /\ codes[i].attempts < MaxAttempts}

\* The row stays locked until the caller commits.
AcceptCode(s, p, from, r) ==
    \E i \in Checkable(p) :
        /\ req[s] = from /\ checking[i] = NoSession
        /\ checking' = [checking EXCEPT ![i] = s]
        /\ Goto(s, [r EXCEPT !.code = i])
        /\ UNCHANGED <<codes, uses, cooling, sending, accountVars, tokens>>

WrongCode(s, p) ==
    \E i \in Checkable(p) :
        /\ req[s] = Idle \/ (req[s].at = "link" /\ req[s].phone = p)
        /\ checking[i] = NoSession
        /\ codes' = [codes EXCEPT ![i].attempts = @ + 1]
        /\ End(s)
        /\ UNCHANGED <<uses, cooling, sending, checking, accountVars, tokens>>

ConsumeCode(s) ==
    /\ codes' = [codes EXCEPT ![req[s].code].active = FALSE]
    /\ uses' = [uses EXCEPT ![req[s].code] = @ + 1]
    /\ checking' = [checking EXCEPT ![req[s].code] = NoSession]
    /\ UNCHANGED <<cooling, sending>>

AskSignIn(s, p) == AcceptCode(s, p, Idle, [Idle EXCEPT !.at = "sign_in", !.phone = p])

\* verify_otp: a session for the account of the verified phone, or the token
\* to register with.
CommitSignIn(s) ==
    /\ req[s].at = "sign_in"
    /\ ConsumeCode(s)
    /\ tokens' = IF VerifiedOf(req[s].phone) = {} THEN tokens \cup {req[s].phone} ELSE tokens
    /\ End(s)
    /\ UNCHANGED accountVars

----------------------------------------------------------------------------
(* Accounts.  A write by key fails on the unique index of phones.          *)

UniquePhones(accounts) ==
    \A a, b \in Accounts :
        accounts[a].phone = accounts[b].phone => a = b \/ accounts[a].phone = NoPhone

Write(accounts) ==
    /\ UniquePhones(accounts)
    /\ account' = accounts

Abandon(s) ==
    /\ req[s].at \notin {"idle", "sms"}
    /\ checking' = [i \in Ids |-> IF checking[i] = s THEN NoSession ELSE checking[i]]
    /\ sending' = [p \in Phones |-> IF sending[p] = s THEN NoSession ELSE sending[p]]
    /\ End(s)
    /\ UNCHANGED <<codes, uses, cooling, accountVars, tokens>>

\* link_phone: _ensure_can_link, verify, list_unverified_by_phone, save.
AskLink(s, a, p) ==
    /\ req[s] = Idle /\ account[a].exists
    /\ VerifiedOf(p) = {}
    /\ Goto(s, [Idle EXCEPT !.at = "link", !.phone = p, !.user = a, !.seen = account[a]])
    /\ UNCHANGED <<codeVars, accountVars, tokens>>

LinkCode(s) == req[s].at = "link" /\ AcceptCode(s, req[s].phone, req[s], [req[s] EXCEPT !.at = "linking"])

Release(accounts, holders) ==
    [a \in Accounts |-> IF a \in holders THEN [accounts[a] EXCEPT !.phone = NoPhone] ELSE accounts[a]]

ListHolders(s) ==
    /\ req[s].at \in {"linking", "holders"}
    /\ Goto(s, [req[s] EXCEPT !.at = "release", !.holders = ClaimedBy(req[s].phone) \ {req[s].user}])
    /\ UNCHANGED <<codeVars, accountVars, tokens>>

\* The accounts written although their rows are no longer as they were read.
Changed(s) ==
    (IF req[s].user # NoAccount /\ account[req[s].user] # req[s].seen THEN {req[s].user} ELSE {})
      \cup {a \in req[s].holders : a \notin ClaimedBy(req[s].phone)}

CommitLink(s) ==
    LET u == req[s].user
        p == req[s].phone IN
    /\ req[s].at = "release" /\ u # NoAccount
    /\ Write([Release(account, req[s].holders) EXCEPT
                ![u].phone = IF req[s].seen.phone = p THEN @ ELSE p,
                ![u].verified = TRUE])
    /\ proved' = [proved EXCEPT ![u] = @ \cup {p}]
    /\ raced' = raced \cup Changed(s)
    /\ ConsumeCode(s)
    /\ End(s)
    /\ UNCHANGED tokens

\* register: the token may be sent again until it expires.
AskRegister(s, p) ==
    /\ req[s] = Idle /\ p \in tokens /\ VerifiedOf(p) = {}
    /\ Goto(s, [Idle EXCEPT !.at = "holders", !.phone = p])
    /\ UNCHANGED <<codeVars, accountVars, tokens>>

CommitRegister(s) ==
    LET p == req[s].phone IN
    /\ req[s].at = "release" /\ req[s].user = NoAccount
    /\ \E u \in Accounts :
        /\ ~account[u].exists
        /\ Write([Release(account, req[s].holders) EXCEPT
                    ![u] = [exists |-> TRUE, phone |-> p, verified |-> TRUE]])
        /\ proved' = [proved EXCEPT ![u] = {p}]
    /\ raced' = raced \cup Changed(s)
    /\ End(s)
    /\ UNCHANGED <<codeVars, tokens>>

\* UserService.update: an administrator types another phone.
AskEdit(s, a, p) ==
    /\ req[s] = Idle /\ account[a].exists /\ p # account[a].phone
    /\ \A b \in Accounts : account[b].phone # p
    /\ Goto(s, [Idle EXCEPT !.at = "edit", !.phone = p, !.user = a, !.seen = account[a]])
    /\ UNCHANGED <<codeVars, accountVars, tokens>>

CommitEdit(s) ==
    LET u == req[s].user IN
    /\ req[s].at = "edit"
    /\ Write([account EXCEPT ![u].phone = req[s].phone,
                             ![u].verified = @ /\ ~req[s].seen.verified])
    /\ raced' = raced \cup Changed(s)
    /\ End(s)
    /\ UNCHANGED <<codeVars, proved, tokens>>

----------------------------------------------------------------------------
CooledDown(p) ==
    /\ p \in cooling
    /\ cooling' = cooling \ {p}
    /\ UNCHANGED <<codes, uses, sending, checking, accountVars, tokens, req>>
ExpireCode(i) ==
    /\ i \in Sent /\ ~codes[i].expired
    /\ codes' = [codes EXCEPT ![i].expired = TRUE]
    /\ UNCHANGED <<uses, cooling, sending, checking, accountVars, tokens, req>>
ExpireToken(p) ==
    /\ p \in tokens
    /\ tokens' = tokens \ {p}
    /\ UNCHANGED <<codeVars, accountVars, req>>

Next ==
    \/ \E s \in Sessions :
        \/ CommitCode(s) \/ MessageSent(s) \/ MessageFailed(s) \/ CommitSignIn(s) \/ LinkCode(s)
        \/ ListHolders(s) \/ CommitLink(s) \/ CommitRegister(s) \/ CommitEdit(s) \/ Abandon(s)
        \/ \E p \in Phones :
            \/ LockPhone(s, p) \/ WrongCode(s, p) \/ AskSignIn(s, p) \/ AskRegister(s, p)
            \/ \E a \in Accounts : AskLink(s, a, p) \/ AskEdit(s, a, p)
    \/ \E p \in Phones : CooledDown(p) \/ ExpireToken(p)
    \/ \E i \in Ids : ExpireCode(i)

Spec == Init /\ [][Next]_vars

----------------------------------------------------------------------------
\* However sends, checks and failed messages interleave, a phone has one code
\* at a time, and a code is accepted once.
CodesOnce ==
    /\ \A p \in Phones : Cardinality(Active(p)) <= 1
    /\ \A i \in Ids : uses[i] <= 1

\* A phone gets no more codes an hour than allowed.  The limit of an address
\* is checked under another phone's lock: sends to several phones at once may
\* exceed it, by no more than there are sessions.
SendsBounded ==
    /\ \A p \in Phones : Cardinality(SentTo(p)) <= MaxPerPhone
    /\ Cardinality(Sent) < MaxPerIp + Cardinality(Sessions)

\* README: only a verified phone signs in, numbers typed never do.  A phone
\* marked verified was proved by a code for that account, unless its row was
\* written by a request that had read an older one.
VerifiedPhonesProved ==
    \A a \in Accounts \ raced : account[a].verified => account[a].phone \in proved[a]

(* What a handler goes by: a sender has its phone's lock, and the phone    *)
(* may get one more code; whoever had a code accepted has its row, still   *)
(* as it was; and what it is accepted for was written to the request.      *)
Sending      == {s \in Sessions : req[s].at = "send"}
Accepting(r) == r.at \in {"sign_in", "linking"} \/ (r.at = "release" /\ r.user # NoAccount)

SentInOrder == \E n \in 0..MaxCodes : Sent = 1..n
UsedUp      == \A i \in Ids : uses[i] = 0 \/ (uses[i] = 1 /\ i \in Sent /\ ~codes[i].active)
OneActive   == \A p \in Phones : \A i, j \in Active(p) : i = j
Queued ==
    \A s \in Sending :
        /\ req[s].phone \in Phones /\ sending[req[s].phone] = s
        /\ Cardinality(SentTo(req[s].phone)) < MaxPerPhone
LimitKept   == Cardinality(Sent) + Cardinality(Sending) < MaxPerIp + Cardinality(Sessions)
PhoneLimit  == \A p \in Phones : Cardinality(SentTo(p)) <= MaxPerPhone
Checked ==
    \A s \in Sessions : Accepting(req[s]) =>
        /\ req[s].code \in Sent /\ checking[req[s].code] = s
        /\ codes[req[s].code].active
KnowsWhat(r) ==
    /\ r.at \notin {"idle", "sms"} => r.phone \in Phones
    /\ r.at \in {"link", "linking", "edit"} => r.user \in Accounts
    /\ r.at = "sms" => r.code \in Ids
    /\ r.at = "edit" => r.holders = {}
    /\ r.at = "holders" => r.user = NoAccount
    /\ r.user \notin r.holders
Asked       == \A s \in Sessions : KnowsWhat(req[s])
IInv ==
    /\ TypeOK /\ SentInOrder /\ UsedUp /\ OneActive /\ Queued /\ LimitKept /\ PhoneLimit
    /\ Checked /\ Asked /\ VerifiedPhonesProved
=============================================================================
