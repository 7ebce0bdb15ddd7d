----------------------------- MODULE EmailCodes -----------------------------
(***************************************************************************)
(* The email address of one account, and the codes that verify it.  The    *)
(* handlers that send a code commit several times, and lock nothing in     *)
(* between; one that checks a code selects the newest active one FOR       *)
(* UPDATE.                                                                 *)
(***************************************************************************)
EXTENDS Naturals, FiniteSets

CONSTANTS Addresses,
          MaxAttempts, \* otp_max_attempts
          MaxCodes,    \* bound: codes created between two verifications
          Sessions, NoSession

VARIABLES
    email,    \* users.email
    verified, \* users.email_verified_at is set
    codes,    \* the email_verification_otps rows, by their creation
    wrong,    \* how many wrong guesses were answered about each code
    proof,    \* the address to which the code that verified was sent
    lock,     \* who selected each code FOR UPDATE
    req,      \* each session's handler, its address, the code it locked or created
    hasty,    \* two sends were under way at once, or one was cut short
    moved     \* the address changed while a code was active, or a handler under way

vars == <<email, verified, codes, wrong, proof, lock, req, hasty, moved>>

Ids    == 1..MaxCodes
NoCode == [status |-> "NONE", to |-> CHOOSE a \in Addresses : TRUE, attempts |-> 0, expired |-> FALSE, recent |-> FALSE]
Idle   == [at |-> "idle", to |-> NoCode.to, code |-> 0, attempts |-> 0]
Sends  == {"link", "cooldown", "invalidate", "create", "mail"}

TypeOK ==
    /\ email \in Addresses /\ proof \in Addresses
    /\ {verified, hasty, moved} \subseteq BOOLEAN
    /\ codes \in [Ids -> [status: {"NONE", "ACTIVE", "CONSUMED"}, to: Addresses,
                          attempts: 0..MaxAttempts, expired: BOOLEAN, recent: BOOLEAN]]
    /\ wrong \in [Ids -> 0..MaxAttempts]
    /\ lock \in [Ids -> Sessions \cup {NoSession}]
    /\ req \in [Sessions -> [at: Sends \cup {"idle", "lock", "compare"}, to: Addresses,
                             code: 0..MaxCodes, attempts: 0..MaxAttempts]]

Init ==
    /\ email \in Addresses /\ proof = email
    /\ verified = FALSE /\ hasty = FALSE /\ moved = FALSE
    /\ codes = [i \in Ids |-> NoCode] /\ wrong = [i \in Ids |-> 0]
    /\ lock = [i \in Ids |-> NoSession] /\ req = [s \in Sessions |-> Idle]

Active  == {i \in Ids : codes[i].status = "ACTIVE"}
Rows    == {i \in Ids : codes[i].status # "NONE"}
Newest  == CHOOSE i \in Active : \A j \in Active : j <= i
Locked  == {i \in Ids : lock[i] # NoSession}
Busy    == {s \in Sessions : req[s].at # "idle"}
Sending == {s \in Sessions : req[s].at \in Sends}

Goto(s, statement) == req' = [req EXCEPT ![s].at = statement]
End(s) ==
    /\ req' = [req EXCEPT ![s] = Idle]
    /\ lock' = [i \in Ids |-> IF lock[i] = s THEN NoSession ELSE lock[i]]

Begin(s, statement, a) ==
    /\ req[s].at = "idle"
    /\ req' = [req EXCEPT ![s] = [Idle EXCEPT !.at = statement, !.to = a]]
    /\ hasty' = (hasty \/ (statement \in Sends /\ Sending # {}))
    /\ moved' = (moved \/ (statement = "link" /\ Busy # {}) \/ \E r \in Busy : req[r].at = "link")
    /\ UNCHANGED <<email, verified, codes, wrong, proof, lock>>

\* A check refuses; or the process dies, and whoever was sending got no further.
Abandon(s) ==
    /\ req[s].at # "idle"
    /\ End(s)
    /\ hasty' = (hasty \/ req[s].at \in {"create", "mail"})
    /\ UNCHANGED <<email, verified, codes, wrong, proof, moved>>

----------------------------------------------------------------------------
(* resend, send_link_otp *)
AskResend(s)  == ~verified /\ Begin(s, "cooldown", email)
AskLink(s, a) == ~verified /\ Begin(s, "link", a)

\* Commits the address, whatever comes after it.
SaveAddress(s) ==
    /\ req[s].at = "link"
    /\ email' = req[s].to
    /\ moved' = (moved \/ (email # req[s].to /\ (Active # {} \/ Busy # {s})))
    /\ Goto(s, "cooldown")
    /\ UNCHANGED <<verified, codes, wrong, proof, lock, hasty>>

EnforceCooldown(s) ==
    /\ req[s].at = "cooldown"
    /\ \A i \in Rows : ~codes[i].recent
    /\ Goto(s, "invalidate")
    /\ UNCHANGED <<email, verified, codes, wrong, proof, lock, hasty, moved>>

\* invalidate_active_for_user waits for whoever compares one of them.
Invalidated == [i \in Ids |-> IF i \in Active THEN [codes[i] EXCEPT !.status = "CONSUMED"] ELSE codes[i]]
Invalidate(s) ==
    /\ req[s].at = "invalidate" /\ Active \cap Locked = {}
    /\ codes' = Invalidated
    /\ Goto(s, "create")
    /\ UNCHANGED <<email, verified, wrong, proof, lock, hasty, moved>>

\* The address is not known to the row: it is where the mail goes.
CreateCode(s) ==
    LET i == Cardinality(Rows) + 1 IN
    /\ req[s].at = "create" /\ i \in Ids
    /\ codes' = [codes EXCEPT ![i] = [NoCode EXCEPT !.status = "ACTIVE", !.recent = TRUE, !.to = email]]
    /\ req' = [req EXCEPT ![s].at = "mail", ![s].code = i]
    /\ UNCHANGED <<email, verified, wrong, proof, lock, hasty, moved>>

\* user.email is read again after the commit.
Mail(s) ==
    /\ req[s].at = "mail"
    /\ codes' = IF codes[req[s].code].status = "NONE" THEN codes
                ELSE [codes EXCEPT ![req[s].code].to = email]
    /\ End(s)
    /\ UNCHANGED <<email, verified, wrong, proof, hasty, moved>>

----------------------------------------------------------------------------
(* verify, link_email *)
AskVerify(s, a) == ~verified /\ a = email /\ Begin(s, "lock", a)

LockNewest(s) ==
    /\ req[s].at = "lock" /\ Active # {}
    /\ lock[Newest] = NoSession
    /\ lock' = [lock EXCEPT ![Newest] = s]
    /\ req' = [req EXCEPT ![s].at = "compare", ![s].code = Newest, ![s].attempts = codes[Newest].attempts]
    /\ UNCHANGED <<email, verified, codes, wrong, proof, hasty, moved>>

BrokenGuessable(s) == ~codes[req[s].code].expired
Guessable(s) == ~codes[req[s].code].expired /\ req[s].attempts < MaxAttempts

WrongCode(s) ==
    LET i == req[s].code IN
    /\ req[s].at = "compare" /\ Guessable(s)
    /\ codes' = [codes EXCEPT ![i].attempts = req[s].attempts + 1]
    /\ wrong' = [wrong EXCEPT ![i] = @ + 1]
    /\ End(s)
    /\ UNCHANGED <<email, verified, proof, hasty, moved>>

\* delete_all_for_user waits for whoever compares another code.
RightCode(s) ==
    /\ req[s].at = "compare" /\ Guessable(s)
    /\ Locked \subseteq {req[s].code}
    /\ verified' = TRUE /\ proof' = codes[req[s].code].to
    /\ codes' = [i \in Ids |-> NoCode] /\ wrong' = [i \in Ids |-> 0]
    /\ End(s)
    /\ UNCHANGED <<email, hasty, moved>>

Age(i) ==
    /\ codes[i].status # "NONE" /\ ~codes[i].expired
    /\ codes' = [codes EXCEPT ![i].recent = FALSE, ![i].expired = ~codes[i].recent]
    /\ UNCHANGED <<email, verified, wrong, proof, lock, req, hasty, moved>>

Next ==
    \/ \E s \in Sessions :
        \/ AskResend(s) \/ SaveAddress(s) \/ EnforceCooldown(s) \/ Invalidate(s) \/ CreateCode(s) \/ Mail(s)
        \/ LockNewest(s) \/ WrongCode(s) \/ RightCode(s) \/ Abandon(s)
        \/ \E a \in Addresses : AskLink(s, a) \/ AskVerify(s, a)
    \/ \E i \in Ids : Age(i)

Spec == Init /\ [][Next]_vars

----------------------------------------------------------------------------
WrongCounted == \A i \in Ids : wrong[i] = codes[i].attempts

(* However many clients guess at once, no more than MaxAttempts wrong      *)
(* guesses are answered about a code; and as long as one code is sent at a *)
(* time, only one can be guessed.                                          *)
GuessesBounded ==
    /\ WrongCounted
    /\ ~hasty => Cardinality(Active) <= 1

(* An address that was verified is the one the code went to, if it never   *)
(* changed while a code was active or a handler was under way.             *)
VerifiedAddressProved == verified /\ ~moved => proof = email

(* What a handler goes by: whoever compares a code has locked it, and it   *)
(* is still active and as it was read; and unless things crossed, one code *)
(* is on its way to the address there is, and only one handler changes it. *)
RowsInOrder   == \A i, j \in Ids : i < j /\ j \in Rows => i \in Rows
UnusedRows    == \A i \in Ids \ Rows : codes[i].attempts = 0
Compared ==
    \A s \in Sessions : req[s].at = "compare" =>
        /\ req[s].code \in Active /\ lock[req[s].code] = s
        /\ req[s].attempts = codes[req[s].code].attempts
Mailed        == \A s \in Sessions : req[s].at = "mail" => req[s].code \in Ids
OneSend ==
    ~hasty => /\ \A s, t \in Sending : s = t
              /\ \A s \in Sessions : req[s].at = "create" => Active = {}
OneActive     == ~hasty => \A i, j \in Active : i = j
SentThere     == ~moved => \A i \in Active : codes[i].to = email
AddressOfOne  == ~moved => \A s \in Sessions : req[s].at = "link" => Busy = {s} /\ ~verified
IInv ==
    /\ TypeOK /\ RowsInOrder /\ UnusedRows /\ WrongCounted
    /\ Compared /\ Mailed /\ OneSend /\ OneActive
    /\ SentThere /\ AddressOfOne /\ VerifiedAddressProved
=============================================================================
