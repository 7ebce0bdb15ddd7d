------------------------- MODULE AccountPartsProofs -------------------------
(***************************************************************************)
(* Proofs about components of MCAccounts: codes sent to phones, for any    *)
(* phones, accounts, sessions and limits; codes sent by e-mail and Google  *)
(* accounts, for any accounts and sessions and the limits of MCAccounts;   *)
(* the roles given to users, for any roles and any bounds; the tools that  *)
(* the assistant runs for them; and whom users follow, what they collect   *)
(* and what they are shown, for any users, posts, kinds of posts and of    *)
(* readers, and any bounds.                                                *)
(***************************************************************************)
EXTENDS PhoneSignIn, Sequences, FiniteSetTheorems, WellFoundedInduction, TLAPS

-----------------------------------------------------------------------------
(* Codes sent to phones.                                                   *)

\* What is assumed of the constants.
Setting ==
    /\ NoSession \notin Sessions /\ NoPhone \notin Phones /\ NoAccount \notin Accounts
    /\ IsFiniteSet(Sessions)
    /\ MaxAttempts \in Nat /\ MaxPerPhone \in Nat /\ MaxPerIp \in Nat \ {0} /\ MaxCodes \in Nat

CodeRows == [phone: Phones \cup {NoPhone}, active: BOOLEAN, expired: BOOLEAN, attempts: 0..MaxAttempts]
Requests == [at: {"idle", "send", "sms", "sign_in", "link", "linking", "holders", "release", "edit"},
             phone: Phones \cup {NoPhone}, code: Ids \cup {0},
             user: Accounts \cup {NoAccount}, seen: Row, holders: SUBSET Accounts]

LEMMA Typed ==
    ASSUME TypeOK
    PROVE  /\ codes \in [Ids -> CodeRows] /\ uses \in [Ids -> Nat]
           /\ cooling \subseteq Phones /\ tokens \subseteq Phones /\ raced \subseteq Accounts
           /\ sending \in [Phones -> Sessions \cup {NoSession}] /\ checking \in [Ids -> Sessions \cup {NoSession}]
           /\ account \in [Accounts -> Row] /\ proved \in [Accounts -> SUBSET Phones]
           /\ req \in [Sessions -> Requests]
  BY DEF TypeOK, CodeRows, Requests

LEMMA Types ==
    ASSUME codes' \in [Ids -> CodeRows], uses' \in [Ids -> Nat],
           cooling' \subseteq Phones, tokens' \subseteq Phones, raced' \subseteq Accounts,
           sending' \in [Phones -> Sessions \cup {NoSession}], checking' \in [Ids -> Sessions \cup {NoSession}],
           account' \in [Accounts -> Row], proved' \in [Accounts -> SUBSET Phones],
           req' \in [Sessions -> Requests]
    PROVE  TypeOK'
  BY DEF TypeOK, CodeRows, Requests

LEMMA Records ==
    /\ NoRow \in Row /\ Idle \in Requests /\ KnowsWhat(Idle) /\ ~Accepting(Idle)
    /\ Idle.at = "idle" /\ Idle.user = NoAccount /\ Idle.holders = {} /\ Idle.code = 0
<1>1. NoRow \in Row
  BY DEF NoRow, Row
<1>2. /\ Idle \in Requests /\ Idle.at = "idle" /\ Idle.user = NoAccount /\ Idle.holders = {} /\ Idle.code = 0
  BY <1>1 DEF Idle, Requests
<1> QED
  BY <1>1, <1>2 DEF KnowsWhat, Accepting

\* The codes sent are numbered without gaps: the next number is free.
LEMMA SentCounted ==
    ASSUME Setting, SentInOrder
    PROVE  /\ IsFiniteSet(Sent) /\ Cardinality(Sent) \in 0..MaxCodes /\ Sent = 1..Cardinality(Sent)
           /\ Cardinality(Sent) + 1 \notin Sent
           /\ \A p \in Phones : IsFiniteSet(SentTo(p)) /\ Cardinality(SentTo(p)) \in Nat
<1>1. PICK n \in 0..MaxCodes : Sent = 1..n
  BY DEF SentInOrder
<1>2. n \in Nat /\ 1 \in Int /\ n \in Int
  BY DEF Setting
<1>3. IsFiniteSet(1..n) /\ Cardinality(1..n) = n
  <2>1. Cardinality(1..n) = IF 1 > n THEN 0 ELSE n - 1 + 1
    BY <1>2, FS_Interval
  <2> QED
    BY <1>2, <2>1, FS_Interval
<1>4. \A p \in Phones : SentTo(p) \subseteq Sent
  BY DEF SentTo
<1>5. n + 1 \notin 1..n
  BY <1>2
<1> QED
  BY <1>1, <1>3, <1>4, <1>5, FS_Subset, FS_CardinalityType

\* Nothing is sent, and no code becomes active.
LEMMA CodesStay ==
    ASSUME IInv, \A i \in Ids : codes'[i].phone = codes[i].phone /\ (codes'[i].active => codes[i].active)
    PROVE  /\ Sent' = Sent /\ \A p : SentTo(p)' = SentTo(p) /\ Active(p)' \subseteq Active(p)
           /\ SentInOrder' /\ OneActive' /\ PhoneLimit'
<1>1. Sent' = Sent
  BY DEF Sent
<1>2. \A p : SentTo(p)' = SentTo(p)
  BY <1>1 DEF SentTo, Sent
<1>3. \A p : Active(p)' \subseteq Active(p)
  BY <1>2 DEF Active, SentTo, Sent
<1>4. SentInOrder' /\ PhoneLimit'
  BY <1>1, <1>2 DEF IInv, SentInOrder, PhoneLimit
<1>5. OneActive'
  BY <1>3 DEF IInv, OneActive
<1> QED
  BY <1>1, <1>2, <1>3, <1>4, <1>5

\* A handler goes on, and the others know what they did.
LEMMA HandlerMoves ==
    ASSUME Setting, IInv, NEW s \in Sessions, NEW r \in Requests, req' = [req EXCEPT ![s] = r],
           r.at # "send", KnowsWhat(r),
           \A i \in Ids : codes'[i].phone = codes[i].phone /\ (codes'[i].active => codes[i].active),
           \A i \in Ids : \A t \in Sessions \ {s} :
               checking[i] = t => checking'[i] = t /\ (codes[i].active => codes'[i].active),
           \A p \in Phones : \A t \in Sessions \ {s} : sending[p] = t => sending'[p] = t,
           Accepting(r) => r.code \in Sent /\ checking'[r.code] = s /\ codes'[r.code].active
    PROVE  /\ req' \in [Sessions -> Requests] /\ SentInOrder' /\ OneActive' /\ PhoneLimit'
           /\ Queued' /\ LimitKept' /\ Checked' /\ Asked'
<1>1. Sent' = Sent /\ SentInOrder' /\ OneActive' /\ PhoneLimit' /\ \A p : SentTo(p)' = SentTo(p)
  BY CodesStay
<1>2. req \in [Sessions -> Requests]
  BY Typed DEF IInv
<1>3. req' \in [Sessions -> Requests] /\ req'[s] = r /\ \A t \in Sessions \ {s} : req'[t] = req[t]
  BY <1>2
<1>4. Sending' \subseteq Sending /\ s \notin Sending'
  BY <1>3 DEF Sending
<1>5. Queued'
  <2>1. ASSUME NEW t \in Sending'
        PROVE  (/\ req[t].phone \in Phones /\ sending[req[t].phone] = t
                /\ Cardinality(SentTo(req[t].phone)) < MaxPerPhone)'
    <3>1. t \in Sending /\ t \in Sessions \ {s} /\ req'[t] = req[t]
      BY <1>3, <1>4 DEF Sending
    <3>2. PICK p \in Phones : p = req[t].phone /\ sending[p] = t /\ Cardinality(SentTo(p)) < MaxPerPhone
      BY <3>1 DEF IInv, Queued
    <3>3. SentTo(req[t].phone)' = SentTo(p)
      <4>1. SentTo(req[t].phone)' = {i \in Sent' : codes'[i].phone = req'[t].phone}
        BY DEF SentTo
      <4>2. SentTo(p)' = {i \in Sent' : codes'[i].phone = p}
        BY DEF SentTo
      <4> QED
        BY <1>1, <3>1, <3>2, <4>1, <4>2
    <3> QED
      BY <3>1, <3>2, <3>3
  <2> QED
    BY <2>1 DEF Queued
<1>6. LimitKept'
  <2>1. IsFiniteSet(Sending) /\ IsFiniteSet(Sending')
    BY FS_Subset DEF Setting, Sending
  <2>2. Cardinality(Sending') <= Cardinality(Sending) /\ Cardinality(Sending') \in Nat /\ Cardinality(Sending) \in Nat
    BY <1>4, <2>1, FS_Subset, FS_CardinalityType
  <2>3. Cardinality(Sent) \in Nat /\ Cardinality(Sessions) \in Nat /\ MaxPerIp \in Nat
    BY SentCounted, FS_CardinalityType DEF IInv, Setting
  <2> DEFINE a == Cardinality(Sending)
             b == Cardinality(Sending')
             c == Cardinality(Sent)
             d == Cardinality(Sessions)
  <2>4. c + a < MaxPerIp + d
    BY DEF IInv, LimitKept
  <2>5. c + b < MaxPerIp + d
    <3>1. a \in Nat /\ b \in Nat /\ c \in Nat /\ d \in Nat /\ b <= a /\ MaxPerIp \in Nat
      BY <2>2, <2>3
    <3> HIDE DEF a, b, c, d
    <3> QED
      BY <2>4, <3>1
  <2> QED
    BY <1>1, <2>5 DEF LimitKept
<1>7. Checked'
  <2>1. ASSUME NEW t \in Sessions, Accepting(req'[t])
        PROVE  req'[t].code \in Sent /\ checking'[req'[t].code] = t /\ codes'[req'[t].code].active
    <3>1. CASE t = s
      BY <1>3, <2>1, <3>1
    <3>2. CASE t # s
      <4>1. req'[t] = req[t]
        BY <1>3, <3>2
      <4>2. req[t].code \in Sent /\ checking[req[t].code] = t /\ codes[req[t].code].active
        BY <2>1, <4>1 DEF IInv, Checked
      <4>3. req[t].code \in Ids
        BY <4>2 DEF Sent
      <4> QED
        BY <3>2, <4>1, <4>2, <4>3
    <3> QED
      BY <3>1, <3>2
  <2> QED
    BY <1>1, <2>1 DEF Checked, Accepting
<1>8. Asked'
  <2>1. \A t \in Sessions : KnowsWhat(req'[t])
    BY <1>3 DEF IInv, Asked
  <2> QED
    BY <2>1 DEF Asked, KnowsWhat, Ids
<1> QED
  BY <1>1, <1>3, <1>5, <1>6, <1>7, <1>8

\* A handler goes on, and writes nothing yet.
LEMMA HandlerReads ==
    ASSUME Setting, IInv, NEW s \in Sessions, NEW r \in Requests, req' = [req EXCEPT ![s] = r],
           r.at # "send", KnowsWhat(r), Accepting(r) => Accepting(req[s]) /\ r.code = req[s].code,
           UNCHANGED <<codes, uses, sending, checking, account, proved, raced>>,
           cooling' \subseteq Phones, tokens' \subseteq Phones
    PROVE  IInv'
<1>1. Accepting(r) => r.code \in Sent /\ checking'[r.code] = s /\ codes'[r.code].active
  BY DEF IInv, Checked
<1>2. /\ req' \in [Sessions -> Requests] /\ SentInOrder' /\ OneActive' /\ PhoneLimit'
      /\ Queued' /\ LimitKept' /\ Checked' /\ Asked'
  BY <1>1, HandlerMoves
<1>3. TypeOK'
  BY <1>2, Typed, Types DEF IInv
<1>4. UsedUp' /\ VerifiedPhonesProved'
  BY DEF IInv, UsedUp, VerifiedPhonesProved, Sent
<1> QED
  BY <1>2, <1>3, <1>4 DEF IInv

LEMMA Reads ==
    ASSUME Setting, IInv, NEW s \in Sessions,
           \/ MessageSent(s) \/ ListHolders(s)
           \/ \E p \in Phones : \/ AskRegister(s, p)
                                \/ \E a \in Accounts : AskLink(s, a, p) \/ AskEdit(s, a, p)
    PROVE  IInv'
<1>1. /\ req \in [Sessions -> Requests] /\ account \in [Accounts -> Row] /\ req[s] \in Requests
      /\ cooling \subseteq Phones /\ tokens \subseteq Phones
  BY Typed DEF IInv
<1>2. CASE MessageSent(s)
  <2>1. req' = [req EXCEPT ![s] = Idle] /\ UNCHANGED <<codeVars, accountVars, tokens>>
    BY <1>2 DEF MessageSent, End, Goto
  <2> QED
    BY <1>1, <2>1, Records, HandlerReads DEF codeVars, accountVars
<1>3. CASE ListHolders(s)
  <2> DEFINE r == [req[s] EXCEPT !.at = "release", !.holders = ClaimedBy(req[s].phone) \ {req[s].user}]
  <2>1. /\ req[s].at \in {"linking", "holders"} /\ req' = [req EXCEPT ![s] = r]
        /\ UNCHANGED <<codeVars, accountVars, tokens>>
    BY <1>3 DEF ListHolders, Goto
  <2>2. ClaimedBy(req[s].phone) \ {req[s].user} \in SUBSET Accounts
    BY DEF ClaimedBy
  <2>3. /\ r \in Requests /\ r.at = "release" /\ r.phone = req[s].phone /\ r.code = req[s].code
        /\ r.user = req[s].user /\ r.user \notin r.holders
    BY <1>1, <2>2 DEF Requests
  <2> HIDE DEF r
  <2>4. KnowsWhat(req[s])
    BY DEF IInv, Asked
  <2>5. KnowsWhat(r)
    BY <2>1, <2>3, <2>4 DEF KnowsWhat
  <2>6. Accepting(r) => Accepting(req[s])
    BY <2>1, <2>3, <2>4 DEF Accepting, KnowsWhat
  <2> QED
    BY <1>1, <2>1, <2>3, <2>5, <2>6, HandlerReads DEF codeVars, accountVars
<1>4. ASSUME NEW p \in Phones, AskRegister(s, p) PROVE IInv'
  <2> DEFINE r == [Idle EXCEPT !.at = "holders", !.phone = p]
  <2>1. req' = [req EXCEPT ![s] = r] /\ UNCHANGED <<codeVars, accountVars, tokens>>
    BY <1>4 DEF AskRegister, Goto
  <2>2. /\ r \in Requests /\ r.at = "holders" /\ r.phone = p /\ r.user = NoAccount /\ r.holders = {}
    BY Records DEF Requests
  <2> HIDE DEF r
  <2>3. KnowsWhat(r) /\ ~Accepting(r)
    BY <2>2 DEF KnowsWhat, Accepting
  <2> QED
    BY <1>1, <2>1, <2>2, <2>3, HandlerReads DEF codeVars, accountVars
<1>5. ASSUME NEW p \in Phones, NEW a \in Accounts, NEW next \in {"link", "edit"},
             req' = [req EXCEPT ![s] = [Idle EXCEPT !.at = next, !.phone = p, !.user = a, !.seen = account[a]]],
             UNCHANGED <<codeVars, accountVars, tokens>>
      PROVE  IInv'
  <2> DEFINE r == [Idle EXCEPT !.at = next, !.phone = p, !.user = a, !.seen = account[a]]
  <2>1. account[a] \in Row
    BY <1>1
  <2>2. /\ r \in Requests /\ r.at = next /\ r.phone = p /\ r.user = a /\ r.holders = {}
    BY <2>1, Records DEF Requests
  <2>3. req' = [req EXCEPT ![s] = r]
    BY <1>5
  <2> HIDE DEF r
  <2>4. KnowsWhat(r) /\ ~Accepting(r)
    BY <2>2 DEF KnowsWhat, Accepting
  <2> QED
    BY <1>1, <1>5, <2>2, <2>3, <2>4, HandlerReads DEF codeVars, accountVars
<1>6. ASSUME NEW p \in Phones, NEW a \in Accounts, AskLink(s, a, p) \/ AskEdit(s, a, p) PROVE IInv'
  BY <1>5, <1>6 DEF AskLink, AskEdit, Goto
<1> QED
  BY <1>2, <1>3, <1>4, <1>6

\* Time passes for a phone, a code or a token.
LEMMA Passes ==
    ASSUME Setting, IInv,
           \/ \E p \in Phones : CooledDown(p) \/ ExpireToken(p)
           \/ \E i \in Ids : ExpireCode(i)
    PROVE  IInv'
<1>1. /\ codes \in [Ids -> CodeRows] /\ req \in [Sessions -> Requests]
      /\ cooling \subseteq Phones /\ tokens \subseteq Phones
  BY Typed DEF IInv
<1>2. UNCHANGED <<uses, sending, checking, account, proved, raced, req>> /\ cooling' \subseteq Phones /\ tokens' \subseteq Phones
  BY <1>1 DEF CooledDown, ExpireToken, ExpireCode, codeVars, accountVars
<1>3. /\ codes' \in [Ids -> CodeRows]
      /\ \A i \in Ids : codes'[i].phone = codes[i].phone /\ codes'[i].active = codes[i].active
  <2>1. CASE UNCHANGED codes
    BY <1>1, <2>1
  <2>2. ASSUME NEW i \in Ids, codes' = [codes EXCEPT ![i].expired = TRUE] PROVE <1>3
    <3> DEFINE row == [codes[i] EXCEPT !.expired = TRUE]
    <3>1. row \in CodeRows /\ row.phone = codes[i].phone /\ row.active = codes[i].active
      BY <1>1 DEF CodeRows
    <3>2. codes' = [codes EXCEPT ![i] = row]
      BY <2>2
    <3> HIDE DEF row
    <3> QED
      BY <1>1, <3>1, <3>2
  <2> QED
    BY <2>1, <2>2 DEF CooledDown, ExpireToken, ExpireCode, codeVars
<1>4. /\ Sent' = Sent /\ \A p : SentTo(p)' = SentTo(p) /\ Active(p)' \subseteq Active(p)
      /\ SentInOrder' /\ OneActive' /\ PhoneLimit'
  BY <1>3, CodesStay
<1>5. TypeOK'
  BY <1>2, <1>3, Typed, Types DEF IInv
<1>6. UsedUp' /\ Checked'
  BY <1>2, <1>3, <1>4 DEF IInv, UsedUp, Checked, Sent
<1>7. Queued'
  <2>1. ASSUME NEW t \in Sessions PROVE SentTo(req[t].phone)' = SentTo(req[t].phone)
    <3>1. SentTo(req[t].phone)' = {i \in Sent' : codes'[i].phone = req'[t].phone}
      BY DEF SentTo
    <3> QED
      BY <1>2, <1>3, <1>4, <3>1 DEF SentTo, Sent
  <2> QED
    BY <1>2, <2>1 DEF IInv, Queued, Sending
<1>8. LimitKept' /\ Asked' /\ VerifiedPhonesProved'
  BY <1>2, <1>4 DEF IInv, LimitKept, Sending, Asked, KnowsWhat, VerifiedPhonesProved, Ids
<1> QED
  BY <1>4, <1>5, <1>6, <1>7, <1>8 DEF IInv

\* Who may send gets the lock of the phone, and its place under the limits.
LEMMA Locks ==
    ASSUME Setting, IInv, NEW s \in Sessions, NEW p \in Phones, LockPhone(s, p)
    PROVE  IInv'
<1> DEFINE r == [Idle EXCEPT !.at = "send", !.phone = p]
<1>1. /\ req[s] = Idle /\ sending[p] = NoSession /\ WithinLimits(p) /\ sending' = [sending EXCEPT ![p] = s]
      /\ req' = [req EXCEPT ![s] = r]
      /\ UNCHANGED <<codes, uses, cooling, checking, account, proved, raced, tokens>>
  BY DEF LockPhone, Goto, accountVars
<1>2. /\ r \in Requests /\ r.at = "send" /\ r.phone = p /\ r.user = NoAccount /\ r.holders = {}
  BY Records DEF Requests
<1> HIDE DEF r
<1>3. /\ req \in [Sessions -> Requests] /\ sending \in [Phones -> Sessions \cup {NoSession}]
  BY Typed DEF IInv
<1>4. req' \in [Sessions -> Requests] /\ req'[s] = r /\ \A t \in Sessions \ {s} : req'[t] = req[t]
  BY <1>1, <1>2, <1>3
<1>5. /\ sending' \in [Phones -> Sessions \cup {NoSession}]
      /\ sending'[p] = s /\ \A q \in Phones \ {p} : sending'[q] = sending[q]
  BY <1>1, <1>3
<1>6. TypeOK'
  BY <1>1, <1>4, <1>5, Typed, Types DEF IInv
<1>7. /\ Sent' = Sent /\ \A q : SentTo(q)' = SentTo(q) /\ Active(q)' \subseteq Active(q)
      /\ SentInOrder' /\ OneActive' /\ PhoneLimit'
  BY <1>1, CodesStay
<1>8. UsedUp' /\ VerifiedPhonesProved'
  BY <1>1 DEF IInv, UsedUp, VerifiedPhonesProved, Sent
<1>9. Sending' = Sending \cup {s} /\ s \notin Sending /\ Sending' \subseteq Sessions
  BY <1>1, <1>2, <1>4, Records DEF Sending
<1>10. Queued'
  <2>1. ASSUME NEW t \in Sending'
        PROVE  (/\ req[t].phone \in Phones /\ sending[req[t].phone] = t
                /\ Cardinality(SentTo(req[t].phone)) < MaxPerPhone)'
    <3>1. PICK q \in Phones : q = req'[t].phone /\ sending'[q] = t /\ Cardinality(SentTo(q)) < MaxPerPhone
      <4>1. CASE t = s
        BY <1>1, <1>2, <1>4, <1>5, <4>1 DEF WithinLimits
      <4>2. CASE t # s
        <5>1. t \in Sending /\ req'[t] = req[t]
          BY <1>4, <1>9, <4>2 DEF Sending
        <5>2. req[t].phone \in Phones /\ sending[req[t].phone] = t /\ Cardinality(SentTo(req[t].phone)) < MaxPerPhone
          BY <5>1 DEF IInv, Queued
        <5>3. req[t].phone # p
          BY <1>1, <5>1, <5>2 DEF Setting, Sending
        <5> QED
          BY <1>5, <5>1, <5>2, <5>3
      <4> QED
        BY <4>1, <4>2
    <3>2. SentTo(req[t].phone)' = SentTo(q)
      <4>1. SentTo(req[t].phone)' = {i \in Sent' : codes'[i].phone = req'[t].phone}
        BY DEF SentTo
      <4> QED
        BY <1>1, <1>7, <3>1, <4>1 DEF SentTo
    <3> QED
      BY <3>1, <3>2
  <2> QED
    BY <2>1 DEF Queued
<1>11. LimitKept'
  <2>1. Cardinality(Sending') <= Cardinality(Sessions) /\ Cardinality(Sending') \in Nat /\ Cardinality(Sessions) \in Nat
    BY <1>9, FS_Subset, FS_CardinalityType DEF Setting
  <2>2. Cardinality(Sent) \in Nat /\ Cardinality(Sent) < MaxPerIp /\ MaxPerIp \in Nat
    BY <1>1, SentCounted DEF IInv, WithinLimits, Setting
  <2> DEFINE b == Cardinality(Sending')
             c == Cardinality(Sent)
             d == Cardinality(Sessions)
  <2>3. c + b < MaxPerIp + d
    <3> HIDE DEF b, c, d
    <3>1. b <= d /\ b \in Nat /\ d \in Nat /\ c \in Nat /\ c < MaxPerIp /\ MaxPerIp \in Nat
      BY <2>1, <2>2 DEF b, c, d
    <3> QED
      BY <3>1
  <2> QED
    BY <1>7, <2>3 DEF LimitKept
<1>12. Checked'
  BY <1>1, <1>2, <1>4, <1>7 DEF IInv, Checked, Accepting
<1>13. Asked'
  <2>1. KnowsWhat(r)
    BY <1>2 DEF KnowsWhat
  <2>2. \A t \in Sessions : KnowsWhat(req'[t])
    BY <1>4, <2>1 DEF IInv, Asked
  <2> QED
    BY <2>2 DEF Asked, KnowsWhat, Ids
<1> QED
  BY <1>6, <1>7, <1>8, <1>10, <1>11, <1>12, <1>13 DEF IInv

\* The new code is the only one of its phone, and takes the place that was kept for it.
LEMMA Commits ==
    ASSUME Setting, IInv, NEW s \in Sessions, CommitCode(s)
    PROVE  IInv'
<1>1. /\ codes \in [Ids -> CodeRows] /\ req \in [Sessions -> Requests] /\ req[s] \in Requests
      /\ sending \in [Phones -> Sessions \cup {NoSession}] /\ cooling \subseteq Phones /\ uses \in [Ids -> Nat]
      /\ checking \in [Ids -> Sessions \cup {NoSession}]
  BY Typed DEF IInv
<1>2. req[s].at = "send" /\ Cardinality(Sent) < MaxCodes
  BY DEF CommitCode
<1>3. PICK p \in Phones : /\ p = req[s].phone /\ s \in Sending /\ sending[p] = s
                          /\ Cardinality(SentTo(p)) < MaxPerPhone
  BY <1>2 DEF IInv, Queued, Sending
<1>4. PICK n \in Ids : /\ n = Cardinality(Sent) + 1 /\ n \notin Sent /\ Sent = 1..(n - 1) /\ n - 1 \in Nat
                       /\ Cardinality(Sent) = n - 1 /\ IsFiniteSet(Sent)
  <2>1. PICK m \in 0..MaxCodes : m = Cardinality(Sent) /\ IsFiniteSet(Sent) /\ Sent = 1..m
    BY SentCounted DEF IInv
  <2>2. m \in Nat /\ m < MaxCodes /\ MaxCodes \in Nat
    BY <1>2, <2>1 DEF Setting
  <2>3. m + 1 \in 1..MaxCodes /\ (m + 1) - 1 = m /\ m + 1 \notin 1..m
    BY <2>2
  <2> QED
    BY <2>1, <2>2, <2>3 DEF Ids
<1> DEFINE row == [phone |-> p, active |-> TRUE, expired |-> FALSE, attempts |-> 0]
           r == [req[s] EXCEPT !.at = "sms", !.code = n]
<1>5. /\ \A i \in Active(p) : checking[i] = NoSession
      /\ codes' = [i \in Ids |-> IF i = n THEN row
                                 ELSE IF i \in Active(p) THEN [codes[i] EXCEPT !.active = FALSE] ELSE codes[i]]
      /\ req' = [req EXCEPT ![s] = r] /\ sending' = [sending EXCEPT ![p] = NoSession]
      /\ cooling' = cooling \cup {p} /\ UNCHANGED <<uses, checking, account, proved, raced, tokens>>
  BY <1>3, <1>4 DEF CommitCode, Goto, accountVars
<1>6. row \in CodeRows /\ row.phone = p /\ row.active
  <2>1. 0 \in 0..MaxAttempts
    BY DEF Setting
  <2> QED
    BY <1>3, <2>1 DEF CodeRows
<1>7. r \in Requests /\ r.at = "sms" /\ r.code = n /\ r.user = req[s].user /\ r.holders = req[s].holders /\ r.phone = p
  BY <1>1, <1>3, <1>4 DEF Requests
<1>8. \A i \in Ids : LET off == [codes[i] EXCEPT !.active = FALSE]
                     IN off \in CodeRows /\ off.phone = codes[i].phone /\ off.active = FALSE
  BY <1>1 DEF CodeRows
<1> HIDE DEF row, r
<1>9. /\ codes' \in [Ids -> CodeRows] /\ codes'[n] = row
      /\ \A i \in Ids \ {n} : /\ codes'[i].phone = codes[i].phone
                              /\ i \in Active(p) => codes'[i].active = FALSE
                              /\ i \notin Active(p) => codes'[i] = codes[i]
  <2>1. \A i \in Ids : (IF i = n THEN row
                        ELSE IF i \in Active(p) THEN [codes[i] EXCEPT !.active = FALSE] ELSE codes[i]) \in CodeRows
    BY <1>1, <1>6, <1>8
  <2>2. codes' \in [Ids -> CodeRows]
    BY <1>5, <2>1
  <2>3. codes'[n] = row
    BY <1>5
  <2>4. \A i \in Ids \ {n} : codes'[i] = IF i \in Active(p) THEN [codes[i] EXCEPT !.active = FALSE] ELSE codes[i]
    BY <1>5
  <2>5. ASSUME NEW i \in Ids \ {n}
        PROVE  /\ codes'[i].phone = codes[i].phone
               /\ i \in Active(p) => codes'[i].active = FALSE
               /\ i \notin Active(p) => codes'[i] = codes[i]
    BY <1>8, <2>4
  <2> QED
    BY <2>2, <2>3, <2>5
<1>10. /\ req' \in [Sessions -> Requests] /\ req'[s] = r /\ \A t \in Sessions \ {s} : req'[t] = req[t]
  BY <1>1, <1>5, <1>7
<1>11. /\ sending' \in [Phones -> Sessions \cup {NoSession}]
       /\ sending'[p] = NoSession /\ \A q \in Phones \ {p} : sending'[q] = sending[q]
  BY <1>1, <1>5
<1>12. TypeOK'
  BY <1>1, <1>5, <1>9, <1>10, <1>11, Typed, Types DEF IInv
<1>13. Sent' = Sent \cup {n}
  <2>1. p # NoPhone
    BY DEF Setting
  <2>2. codes'[n].phone = p
    BY <1>6, <1>9
  <2>3. \A i \in Ids : i \in Sent' <=> i \in Sent \/ i = n
    BY <1>9, <2>1, <2>2 DEF Sent
  <2>4. Sent' \subseteq Ids /\ Sent \subseteq Ids
    BY DEF Sent
  <2> QED
    BY <2>3, <2>4
<1>14. SentTo(p)' = SentTo(p) \cup {n} /\ n \notin SentTo(p)
  <2>1. \A i : i \in SentTo(p)' <=> i \in Sent' /\ codes'[i].phone = p
    BY DEF SentTo
  <2>2. \A i : i \in SentTo(p) <=> i \in Sent /\ codes[i].phone = p
    BY DEF SentTo
  <2>3. \A i \in Sent : i \in Ids \ {n}
    BY <1>4 DEF Sent
  <2> QED
    BY <1>4, <1>6, <1>9, <1>13, <2>1, <2>2, <2>3
<1>15. ASSUME NEW q \in Phones \ {p} PROVE SentTo(q)' = SentTo(q)
  <2>1. \A i : i \in SentTo(q)' <=> i \in Sent' /\ codes'[i].phone = q
    BY DEF SentTo
  <2>2. \A i : i \in SentTo(q) <=> i \in Sent /\ codes[i].phone = q
    BY DEF SentTo
  <2>3. \A i \in Sent : i \in Ids \ {n}
    BY <1>4 DEF Sent
  <2>4. \A i : i \in SentTo(q)' <=> i \in SentTo(q)
    <3>1. codes'[n].phone # q
      BY <1>6, <1>9
    <3>2. \A i \in Sent : codes'[i].phone = codes[i].phone
      BY <1>9, <2>3
    <3> QED
      BY <1>13, <2>1, <2>2, <3>1, <3>2
  <2> QED
    BY <2>4
<1>16. SentInOrder'
  <2>1. (1..(n - 1)) \cup {n} = 1..n /\ n \in 0..MaxCodes
    BY <1>4 DEF Ids, Setting
  <2> QED
    BY <1>4, <1>13, <2>1 DEF SentInOrder
<1>17. UsedUp'
  <2>1. uses[n] = 0
    BY <1>4 DEF IInv, UsedUp
  <2>2. \A i \in Ids \ {n} : codes'[i].active => codes[i].active
    BY <1>9
  <2>3. \A i \in Ids : uses[i] = 0 \/ (uses[i] = 1 /\ i \in Sent' /\ ~codes'[i].active)
    BY <1>4, <1>13, <2>1, <2>2 DEF IInv, UsedUp
  <2> QED
    BY <1>5, <2>3 DEF UsedUp, Ids
<1>18. OneActive'
  <2>1. ASSUME NEW q \in Phones, NEW i \in Active(q)', NEW j \in Active(q)' PROVE i = j
    <3>1. /\ i \in SentTo(q)' /\ codes'[i].active /\ j \in SentTo(q)' /\ codes'[j].active
      BY DEF Active
    <3>2. CASE q = p
      <4>1. \A k \in SentTo(p) : k \in Ids \ {n}
        BY <1>4 DEF SentTo, Sent
      <4>2. \A k \in SentTo(p) : ~codes'[k].active
        BY <1>9, <4>1 DEF Active
      <4> QED
        BY <1>14, <3>1, <3>2, <4>2
    <3>3. CASE q # p
      <4>1. i \in SentTo(q) /\ j \in SentTo(q)
        BY <1>15, <3>1, <3>3
      <4>2. i \in Ids \ {n} /\ j \in Ids \ {n} /\ i \notin Active(p) /\ j \notin Active(p)
        BY <1>4, <3>3, <4>1 DEF SentTo, Sent, Active
      <4>3. i \in Active(q) /\ j \in Active(q)
        BY <1>9, <3>1, <4>1, <4>2 DEF Active
      <4> QED
        BY <4>3 DEF IInv, OneActive
    <3> QED
      BY <3>2, <3>3
  <2> QED
    BY <2>1 DEF OneActive
<1>19. Sending' = Sending \ {s}
  BY <1>7, <1>10 DEF Sending
<1>20. Queued'
  <2>1. ASSUME NEW t \in Sending'
        PROVE  (/\ req[t].phone \in Phones /\ sending[req[t].phone] = t
                /\ Cardinality(SentTo(req[t].phone)) < MaxPerPhone)'
    <3>1. t \in Sending /\ t \in Sessions \ {s} /\ req'[t] = req[t]
      BY <1>10, <1>19 DEF Sending
    <3>2. PICK q \in Phones : q = req[t].phone /\ sending[q] = t /\ Cardinality(SentTo(q)) < MaxPerPhone
      BY <3>1 DEF IInv, Queued
    <3>3. q \in Phones \ {p}
      BY <1>3, <3>1, <3>2
    <3>4. SentTo(req[t].phone)' = SentTo(q)'
      BY <3>1, <3>2 DEF SentTo
    <3> QED
      BY <1>11, <1>15, <3>1, <3>2, <3>3, <3>4
  <2> QED
    BY <2>1 DEF Queued
<1>21. LimitKept'
  <2>1. IsFiniteSet(Sending)
    BY FS_Subset DEF Setting, Sending
  <2>2. Cardinality(Sending') = Cardinality(Sending) - 1 /\ Cardinality(Sending) \in Nat
    BY <1>3, <1>19, <2>1, FS_RemoveElement, FS_CardinalityType
  <2>3. Cardinality(Sent') = Cardinality(Sent) + 1 /\ Cardinality(Sent) \in Nat
    BY <1>4, <1>13, FS_AddElement
  <2>4. Cardinality(Sessions) \in Nat /\ MaxPerIp \in Nat
    BY FS_CardinalityType DEF Setting
  <2> DEFINE a == Cardinality(Sending)
             b == Cardinality(Sending')
             c == Cardinality(Sent)
             d == Cardinality(Sessions)
             e == Cardinality(Sent')
  <2>5. c + a < MaxPerIp + d
    BY DEF IInv, LimitKept
  <2>6. e + b < MaxPerIp + d
    <3>1. a \in Nat /\ b = a - 1 /\ c \in Nat /\ e = c + 1 /\ d \in Nat /\ MaxPerIp \in Nat
      BY <2>2, <2>3, <2>4
    <3> HIDE DEF a, b, c, d, e
    <3> QED
      BY <2>5, <3>1
  <2> QED
    BY <2>6 DEF LimitKept
<1>22. PhoneLimit'
  <2>1. IsFiniteSet(SentTo(p)) /\ Cardinality(SentTo(p)) \in Nat /\ MaxPerPhone \in Nat
    BY SentCounted DEF IInv, Setting
  <2>2. Cardinality(SentTo(p)') = Cardinality(SentTo(p)) + 1
    BY <1>14, <2>1, FS_AddElement
  <2>3. Cardinality(SentTo(p)') <= MaxPerPhone
    BY <1>3, <2>1, <2>2
  <2>4. \A q \in Phones : Cardinality(SentTo(q)') <= MaxPerPhone
    BY <1>15, <2>3 DEF IInv, PhoneLimit
  <2> QED
    BY <2>4 DEF PhoneLimit
<1>23. Checked'
  <2>1. ASSUME NEW t \in Sessions, Accepting(req'[t])
        PROVE  req'[t].code \in Sent' /\ checking'[req'[t].code] = t /\ codes'[req'[t].code].active
    <3>1. t # s
      BY <1>7, <1>10, <2>1 DEF Accepting
    <3>2. PICK i \in Sent : i = req[t].code /\ req'[t] = req[t] /\ checking[i] = t /\ codes[i].active
      BY <1>10, <2>1, <3>1 DEF IInv, Checked
    <3>3. i \in Ids \ {n} /\ i \notin Active(p)
      BY <1>4, <1>5, <3>2 DEF Sent, Setting
    <3> QED
      BY <1>5, <1>9, <1>13, <3>2, <3>3
  <2> QED
    BY <2>1 DEF Checked, Accepting
<1>24. Asked'
  <2>1. KnowsWhat(req[s])
    BY DEF IInv, Asked
  <2>2. r.user \notin r.holders
    BY <1>7, <2>1 DEF KnowsWhat
  <2>3. KnowsWhat(r)
    BY <1>7, <2>2 DEF KnowsWhat
  <2>4. \A t \in Sessions : KnowsWhat(req'[t])
    BY <1>10, <2>3 DEF IInv, Asked
  <2> QED
    BY <2>4 DEF Asked, KnowsWhat, Ids
<1>25. VerifiedPhonesProved'
  BY <1>5 DEF IInv, VerifiedPhonesProved
<1> QED
  BY <1>12, <1>16, <1>17, <1>18, <1>20, <1>21, <1>22, <1>23, <1>24, <1>25 DEF IInv

\* A code that a handler has accepted is one it may use.
LEMMA Accepts ==
    ASSUME Setting, IInv, NEW s \in Sessions, NEW p \in Phones, NEW from, NEW base \in Requests,
           AcceptCode(s, p, from, base),
           base.at # "send", KnowsWhat(base), base.at # "sms"
    PROVE  IInv'
<1>1. /\ codes \in [Ids -> CodeRows] /\ req \in [Sessions -> Requests]
      /\ checking \in [Ids -> Sessions \cup {NoSession}]
  BY Typed DEF IInv
<1>2. PICK i \in Checkable(p) : /\ checking[i] = NoSession /\ checking' = [checking EXCEPT ![i] = s]
                                /\ req' = [req EXCEPT ![s] = [base EXCEPT !.code = i]]
                                /\ UNCHANGED <<codes, uses, cooling, sending, accountVars, tokens>>
  BY DEF AcceptCode, Goto
<1>3. i \in Sent /\ i \in Ids /\ codes[i].active
  BY <1>2 DEF Checkable, Active, SentTo, Sent
<1> DEFINE r == [base EXCEPT !.code = i]
<1>4. /\ r \in Requests /\ r.at = base.at /\ r.code = i /\ r.phone = base.phone /\ r.user = base.user
      /\ r.holders = base.holders
  BY <1>3 DEF Requests
<1>5. req' = [req EXCEPT ![s] = r]
  BY <1>2
<1> HIDE DEF r
<1>6. /\ checking' \in [Ids -> Sessions \cup {NoSession}] /\ checking'[i] = s
      /\ \A j \in Ids : \A t \in Sessions \ {s} : checking[j] = t => checking'[j] = t
  BY <1>1, <1>2, <1>3 DEF Setting
<1>7. KnowsWhat(r)
  BY <1>4 DEF KnowsWhat
<1>8. /\ req' \in [Sessions -> Requests] /\ SentInOrder' /\ OneActive' /\ PhoneLimit'
      /\ Queued' /\ LimitKept' /\ Checked' /\ Asked'
  BY <1>2, <1>3, <1>4, <1>5, <1>6, <1>7, HandlerMoves
<1>9. TypeOK'
  BY <1>2, <1>6, <1>8, Typed, Types DEF IInv, accountVars
<1>10. UsedUp' /\ VerifiedPhonesProved'
  BY <1>2 DEF IInv, UsedUp, VerifiedPhonesProved, Sent, accountVars
<1> QED
  BY <1>8, <1>9, <1>10 DEF IInv

LEMMA CodeAccepted ==
    ASSUME Setting, IInv, NEW s \in Sessions,
           LinkCode(s) \/ \E p \in Phones : AskSignIn(s, p)
    PROVE  IInv'
<1>1. req[s] \in Requests /\ KnowsWhat(req[s])
  BY Typed DEF IInv, Asked
<1>2. CASE LinkCode(s)
  <2> DEFINE r == [req[s] EXCEPT !.at = "linking"]
  <2>1. req[s].at = "link" /\ AcceptCode(s, req[s].phone, req[s], r)
    BY <1>2 DEF LinkCode
  <2>2. /\ r \in Requests /\ r.at = "linking" /\ r.phone = req[s].phone /\ r.user = req[s].user
        /\ r.holders = req[s].holders
    BY <1>1 DEF Requests
  <2> HIDE DEF r
  <2>3. KnowsWhat(r) /\ req[s].phone \in Phones
    BY <1>1, <2>1, <2>2 DEF KnowsWhat
  <2> QED
    BY <2>1, <2>2, <2>3, Accepts
<1>3. ASSUME NEW p \in Phones, AskSignIn(s, p) PROVE IInv'
  <2> DEFINE r == [Idle EXCEPT !.at = "sign_in", !.phone = p]
  <2>1. AcceptCode(s, p, Idle, r)
    BY <1>3 DEF AskSignIn
  <2>2. /\ r \in Requests /\ r.at = "sign_in" /\ r.phone = p /\ r.user = NoAccount /\ r.holders = {}
    BY Records DEF Requests
  <2> HIDE DEF r
  <2>3. KnowsWhat(r)
    BY <2>2 DEF KnowsWhat
  <2> QED
    BY <2>1, <2>2, <2>3, Accepts
<1> QED
  BY <1>2, <1>3

\* A code nobody is checking is changed, and its handler ends.
LEMMA CodeWritten ==
    ASSUME Setting, IInv, NEW s \in Sessions, NEW i \in Ids, NEW row \in CodeRows,
           checking[i] = NoSession,
           codes' = [codes EXCEPT ![i] = row],
           row.phone = codes[i].phone, row.active => codes[i].active,
           End(s), UNCHANGED <<uses, cooling, sending, checking, accountVars, tokens>>
    PROVE  IInv'
<1>1. /\ codes \in [Ids -> CodeRows] /\ req \in [Sessions -> Requests] /\ req' = [req EXCEPT ![s] = Idle]
  BY Typed DEF IInv, End, Goto
<1>2. /\ codes' \in [Ids -> CodeRows] /\ codes'[i] = row /\ \A j \in Ids \ {i} : codes'[j] = codes[j]
  BY <1>1
<1>3. \A j \in Ids : codes'[j].phone = codes[j].phone /\ (codes'[j].active => codes[j].active)
  BY <1>2
<1>4. \A j \in Ids : \A t \in Sessions \ {s} :
         checking[j] = t => checking'[j] = t /\ (codes[j].active => codes'[j].active)
  BY <1>2 DEF Setting
<1>5. /\ req' \in [Sessions -> Requests] /\ SentInOrder' /\ OneActive' /\ PhoneLimit'
      /\ Queued' /\ LimitKept' /\ Checked' /\ Asked'
  BY <1>1, <1>3, <1>4, Records, HandlerMoves
<1>6. TypeOK'
  BY <1>2, <1>5, Typed, Types DEF IInv, accountVars
<1>7. Sent' = Sent
  BY <1>3, CodesStay
<1>8. UsedUp' /\ VerifiedPhonesProved'
  BY <1>3, <1>7 DEF IInv, UsedUp, VerifiedPhonesProved, accountVars
<1> QED
  BY <1>5, <1>6, <1>8 DEF IInv

LEMMA MessageFails ==
    ASSUME Setting, IInv, NEW s \in Sessions, MessageFailed(s)
    PROVE  IInv'
<1>1. /\ codes \in [Ids -> CodeRows] /\ req[s].at = "sms" /\ KnowsWhat(req[s])
  BY Typed DEF IInv, Asked, MessageFailed
<1>2. PICK i \in Ids : i = req[s].code
  BY <1>1 DEF KnowsWhat
<1> DEFINE row == [codes[i] EXCEPT !.active = FALSE]
<1>3. row \in CodeRows /\ row.phone = codes[i].phone /\ ~row.active
  BY <1>1 DEF CodeRows
<1>4. codes' = [codes EXCEPT ![i] = row] /\ checking[i] = NoSession
  BY <1>1, <1>2 DEF MessageFailed
<1> HIDE DEF row
<1> QED
  BY <1>3, <1>4, CodeWritten DEF MessageFailed

LEMMA WrongCodes ==
    ASSUME Setting, IInv, NEW s \in Sessions, NEW p \in Phones, WrongCode(s, p)
    PROVE  IInv'
<1>1. codes \in [Ids -> CodeRows]
  BY Typed DEF IInv
<1>2. PICK i \in Checkable(p) : /\ checking[i] = NoSession /\ codes' = [codes EXCEPT ![i].attempts = @ + 1]
                                /\ End(s) /\ UNCHANGED <<uses, cooling, sending, checking, accountVars, tokens>>
  BY DEF WrongCode
<1>3. i \in Ids /\ codes[i].attempts < MaxAttempts
  BY <1>2 DEF Checkable, Active, SentTo, Sent
<1> DEFINE row == [codes[i] EXCEPT !.attempts = codes[i].attempts + 1]
<1>4. codes[i].attempts + 1 \in 0..MaxAttempts
  <2>1. codes[i].attempts \in 0..MaxAttempts
    BY <1>1, <1>3 DEF CodeRows
  <2> QED
    BY <1>3, <2>1 DEF Setting
<1>5. row \in CodeRows /\ row.phone = codes[i].phone /\ row.active = codes[i].active
  BY <1>1, <1>3, <1>4 DEF CodeRows
<1>6. codes' = [codes EXCEPT ![i] = row]
  BY <1>2, <1>3
<1> HIDE DEF row
<1> QED
  BY <1>2, <1>3, <1>5, <1>6, CodeWritten

\* A code is used up by whoever had it accepted.
LEMMA Consumes ==
    ASSUME Setting, IInv, NEW s \in Sessions, Accepting(req[s]), ConsumeCode(s), End(s)
    PROVE  /\ codes' \in [Ids -> CodeRows] /\ uses' \in [Ids -> Nat]
           /\ checking' \in [Ids -> Sessions \cup {NoSession}]
           /\ req' \in [Sessions -> Requests] /\ SentInOrder' /\ OneActive' /\ PhoneLimit'
           /\ Queued' /\ LimitKept' /\ Checked' /\ Asked' /\ UsedUp'
<1>1. /\ codes \in [Ids -> CodeRows] /\ uses \in [Ids -> Nat] /\ checking \in [Ids -> Sessions \cup {NoSession}]
      /\ req' = [req EXCEPT ![s] = Idle]
  BY Typed DEF IInv, End, Goto
<1>2. PICK i \in Ids : i = req[s].code /\ i \in Sent /\ checking[i] = s /\ codes[i].active
  BY DEF IInv, Checked, Sent
<1> DEFINE row == [codes[i] EXCEPT !.active = FALSE]
<1>3. row \in CodeRows /\ row.phone = codes[i].phone /\ ~row.active
  BY <1>1 DEF CodeRows
<1>4. /\ codes' = [codes EXCEPT ![i] = row] /\ uses' = [uses EXCEPT ![i] = uses[i] + 1]
      /\ checking' = [checking EXCEPT ![i] = NoSession] /\ UNCHANGED <<cooling, sending>>
  BY <1>1, <1>2 DEF ConsumeCode
<1> HIDE DEF row
<1>5. /\ codes' \in [Ids -> CodeRows] /\ codes'[i] = row /\ \A j \in Ids \ {i} : codes'[j] = codes[j]
  BY <1>1, <1>3, <1>4
<1>6. uses[i] = 0
  BY <1>2 DEF IInv, UsedUp
<1>7. /\ uses' \in [Ids -> Nat] /\ uses'[i] = 1 /\ \A j \in Ids \ {i} : uses'[j] = uses[j]
  BY <1>1, <1>4, <1>6
<1>8. /\ checking' \in [Ids -> Sessions \cup {NoSession}]
      /\ \A j \in Ids \ {i} : checking'[j] = checking[j]
  BY <1>1, <1>4
<1>9. \A j \in Ids : codes'[j].phone = codes[j].phone /\ (codes'[j].active => codes[j].active)
  BY <1>3, <1>5
<1>10. \A j \in Ids : \A t \in Sessions \ {s} :
          checking[j] = t => checking'[j] = t /\ (codes[j].active => codes'[j].active)
  BY <1>2, <1>5, <1>8
<1>11. /\ req' \in [Sessions -> Requests] /\ SentInOrder' /\ OneActive' /\ PhoneLimit'
       /\ Queued' /\ LimitKept' /\ Checked' /\ Asked'
  BY <1>1, <1>4, <1>9, <1>10, Records, HandlerMoves
<1>12. Sent' = Sent
  BY <1>9, CodesStay
<1>13. UsedUp'
  <2>1. \A j \in Ids : uses'[j] = 0 \/ (uses'[j] = 1 /\ j \in Sent /\ ~codes'[j].active)
    BY <1>2, <1>3, <1>5, <1>7 DEF IInv, UsedUp
  <2> QED
    BY <1>12, <2>1 DEF UsedUp, Ids
<1> QED
  BY <1>5, <1>7, <1>8, <1>11, <1>13

LEMMA SignsIn ==
    ASSUME Setting, IInv, NEW s \in Sessions, CommitSignIn(s)
    PROVE  IInv'
<1>1. req[s] \in Requests /\ req[s].at = "sign_in" /\ KnowsWhat(req[s])
  BY Typed DEF IInv, CommitSignIn, Asked
<1>2. Accepting(req[s]) /\ req[s].phone \in Phones
  BY <1>1 DEF Accepting, KnowsWhat
<1>3. /\ ConsumeCode(s) /\ End(s) /\ UNCHANGED accountVars /\ UNCHANGED <<cooling, sending>>
      /\ tokens' \in {tokens, tokens \cup {req[s].phone}}
  BY DEF CommitSignIn, ConsumeCode
<1>4. /\ codes' \in [Ids -> CodeRows] /\ uses' \in [Ids -> Nat]
      /\ checking' \in [Ids -> Sessions \cup {NoSession}]
      /\ req' \in [Sessions -> Requests] /\ SentInOrder' /\ OneActive' /\ PhoneLimit'
      /\ Queued' /\ LimitKept' /\ Checked' /\ Asked' /\ UsedUp'
  BY <1>2, <1>3, Consumes
<1>5. TypeOK'
  BY <1>2, <1>3, <1>4, Typed, Types DEF IInv, accountVars
<1>6. VerifiedPhonesProved'
  BY <1>3 DEF IInv, VerifiedPhonesProved, accountVars
<1> QED
  BY <1>4, <1>5, <1>6 DEF IInv

\* Who gives up a phone keeps the mark that it was verified.
LEMMA Released ==
    ASSUME IInv, NEW accs \in [Accounts -> Row], NEW others \in SUBSET Accounts
    PROVE  /\ Release(accs, others) \in [Accounts -> Row]
           /\ \A a \in Accounts : /\ Release(accs, others)[a].verified = accs[a].verified
                                  /\ a \notin others => Release(accs, others)[a] = accs[a]
<1>1. \A a \in Accounts : LET row == [accs[a] EXCEPT !.phone = NoPhone]
                          IN row \in Row /\ row.verified = accs[a].verified
  BY DEF Row
<1> DEFINE val(a) == IF a \in others THEN [accs[a] EXCEPT !.phone = NoPhone] ELSE accs[a]
<1>2. \A a \in Accounts : /\ val(a) \in Row /\ val(a).verified = accs[a].verified
                          /\ a \notin others => val(a) = accs[a]
  BY <1>1
<1>3. Release(accs, others) = [a \in Accounts |-> val(a)]
  BY DEF Release
<1> HIDE DEF val
<1> QED
  BY <1>2, <1>3

\* Who linked proved the phone; who gave it up had only claimed it, or is known to have changed.
LEMMA Links ==
    ASSUME Setting, IInv, NEW s \in Sessions, CommitLink(s)
    PROVE  IInv'
<1>1. req[s] \in Requests /\ req[s].at = "release" /\ req[s].user # NoAccount /\ KnowsWhat(req[s])
  BY Typed DEF IInv, CommitLink, Asked
<1>2. Accepting(req[s])
  BY <1>1 DEF Accepting
<1>3. PICK u \in Accounts, p \in Phones, others \in SUBSET Accounts, was \in Row :
         u = req[s].user /\ p = req[s].phone /\ others = req[s].holders /\ was = req[s].seen /\ u \notin others
  BY <1>1 DEF KnowsWhat, Requests
<1>4. account \in [Accounts -> Row] /\ proved \in [Accounts -> SUBSET Phones] /\ raced \subseteq Accounts
  BY Typed DEF IInv
<1> DEFINE base == Release(account, others)
           row == [[base[u] EXCEPT !.phone = IF was.phone = p THEN base[u].phone ELSE p] EXCEPT !.verified = TRUE]
<1>5. /\ base \in [Accounts -> Row] /\ base[u] = account[u]
      /\ \A a \in Accounts : /\ base[a].verified = account[a].verified
                             /\ a \notin others => base[a] = account[a]
  BY <1>3, <1>4, Released
<1>6. account' = [base EXCEPT ![u] = row]
  <2>1. account' = [base EXCEPT ![u].phone = IF was.phone = p THEN @ ELSE p, ![u].verified = TRUE]
    BY <1>3 DEF CommitLink, Write
  <2> HIDE DEF base
  <2> QED
    BY <1>5, <2>1
<1>7. /\ ConsumeCode(s) /\ End(s) /\ UNCHANGED <<cooling, sending, tokens>>
      /\ proved' = [proved EXCEPT ![u] = proved[u] \cup {p}] /\ raced' = raced \cup Changed(s)
  BY <1>3, <1>4 DEF CommitLink, ConsumeCode
<1> HIDE DEF base
<1>8. row \in Row /\ (was.phone # p => row.phone = p) /\ (was.phone = p => row.phone = base[u].phone)
  BY <1>5 DEF Row
<1> HIDE DEF row
<1>9. /\ codes' \in [Ids -> CodeRows] /\ uses' \in [Ids -> Nat]
      /\ checking' \in [Ids -> Sessions \cup {NoSession}]
      /\ req' \in [Sessions -> Requests] /\ SentInOrder' /\ OneActive' /\ PhoneLimit'
      /\ Queued' /\ LimitKept' /\ Checked' /\ Asked' /\ UsedUp'
  BY <1>2, <1>7, Consumes
<1>10. /\ account' \in [Accounts -> Row] /\ account'[u] = row
       /\ \A a \in Accounts \ {u} : account'[a] = base[a]
  BY <1>5, <1>6, <1>8
<1>11. /\ proved' \in [Accounts -> SUBSET Phones] /\ p \in proved'[u]
       /\ \A a \in Accounts \ {u} : proved'[a] = proved[a]
  BY <1>4, <1>7
<1>12. Changed(s) \subseteq Accounts
  BY <1>1, <1>3 DEF Changed
<1>13. TypeOK'
  BY <1>4, <1>7, <1>9, <1>10, <1>11, <1>12, Typed, Types DEF IInv
<1>14. VerifiedPhonesProved'
  <2>1. ASSUME NEW a \in Accounts \ raced', account'[a].verified PROVE account'[a].phone \in proved'[a]
    <3>1. a \in Accounts \ raced /\ a \notin Changed(s)
      BY <1>7, <2>1
    <3>2. CASE a = u
      <4>1. account[u] = was
        BY <1>1, <1>3, <3>1, <3>2 DEF Changed
      <4> QED
        BY <1>5, <1>8, <1>10, <1>11, <3>2, <4>1
    <3>3. CASE a # u
      <4>1. account[a].verified
        BY <1>5, <1>10, <2>1, <3>3
      <4>2. a \notin others
        BY <1>3, <3>1, <4>1 DEF Changed, ClaimedBy
      <4> QED
        BY <1>5, <1>10, <1>11, <3>1, <3>3, <4>1, <4>2 DEF IInv, VerifiedPhonesProved
    <3> QED
      BY <3>2, <3>3
  <2> QED
    BY <2>1 DEF VerifiedPhonesProved
<1> QED
  BY <1>9, <1>13, <1>14 DEF IInv

\* A handler ends, and the codes stay as they are.
LEMMA HandlerEnds ==
    ASSUME Setting, IInv, NEW s \in Sessions, End(s), UNCHANGED <<codeVars, tokens>>,
           account' \in [Accounts -> Row], proved' \in [Accounts -> SUBSET Phones], raced' \subseteq Accounts,
           VerifiedPhonesProved'
    PROVE  IInv'
<1>1. UNCHANGED <<codes, uses, cooling, sending, checking>>
  BY DEF codeVars
<1>2. /\ req' \in [Sessions -> Requests] /\ SentInOrder' /\ OneActive' /\ PhoneLimit'
      /\ Queued' /\ LimitKept' /\ Checked' /\ Asked'
  BY <1>1, Records, HandlerMoves DEF End, Goto
<1>3. TypeOK'
  BY <1>1, <1>2, Typed, Types DEF IInv
<1>4. UsedUp'
  BY <1>1 DEF IInv, UsedUp, Sent
<1> QED
  BY <1>2, <1>3, <1>4 DEF IInv

LEMMA Registers ==
    ASSUME Setting, IInv, NEW s \in Sessions, CommitRegister(s)
    PROVE  IInv'
<1>1. req[s] \in Requests /\ req[s].at = "release" /\ req[s].user = NoAccount /\ KnowsWhat(req[s])
  BY Typed DEF IInv, CommitRegister, Asked
<1>2. PICK p \in Phones, others \in SUBSET Accounts : p = req[s].phone /\ others = req[s].holders
  BY <1>1 DEF KnowsWhat, Requests
<1>3. account \in [Accounts -> Row] /\ proved \in [Accounts -> SUBSET Phones] /\ raced \subseteq Accounts
  BY Typed DEF IInv
<1> DEFINE base == Release(account, others)
           row == [exists |-> TRUE, phone |-> p, verified |-> TRUE]
<1>4. /\ base \in [Accounts -> Row]
      /\ \A a \in Accounts : /\ base[a].verified = account[a].verified
                             /\ a \notin others => base[a] = account[a]
  BY <1>3, Released
<1>5. PICK u \in Accounts : account' = [base EXCEPT ![u] = row] /\ proved' = [proved EXCEPT ![u] = {p}]
  BY <1>2 DEF CommitRegister, Write
<1>6. /\ End(s) /\ UNCHANGED <<codeVars, tokens>> /\ raced' = raced \cup Changed(s)
  BY DEF CommitRegister
<1>7. row \in Row /\ row.phone = p
  BY DEF Row
<1> HIDE DEF base, row
<1>8. /\ account' \in [Accounts -> Row] /\ account'[u] = row
      /\ \A a \in Accounts \ {u} : account'[a] = base[a]
  BY <1>4, <1>5, <1>7
<1>9. /\ proved' \in [Accounts -> SUBSET Phones] /\ p \in proved'[u]
      /\ \A a \in Accounts \ {u} : proved'[a] = proved[a]
  BY <1>3, <1>5
<1>10. Changed(s) \subseteq Accounts
  BY <1>1, <1>2 DEF Changed
<1>11. VerifiedPhonesProved'
  <2>1. ASSUME NEW a \in Accounts \ raced', account'[a].verified PROVE account'[a].phone \in proved'[a]
    <3>1. a \in Accounts \ raced /\ a \notin Changed(s)
      BY <1>6, <2>1
    <3>2. CASE a = u
      BY <1>7, <1>8, <1>9, <3>2
    <3>3. CASE a # u
      <4>1. account[a].verified
        BY <1>4, <1>8, <2>1, <3>3
      <4>2. a \notin others
        BY <1>2, <3>1, <4>1 DEF Changed, ClaimedBy
      <4> QED
        BY <1>4, <1>8, <1>9, <3>1, <3>3, <4>1, <4>2 DEF IInv, VerifiedPhonesProved
    <3> QED
      BY <3>2, <3>3
  <2> QED
    BY <2>1 DEF VerifiedPhonesProved
<1> QED
  BY <1>3, <1>6, <1>8, <1>9, <1>10, <1>11, HandlerEnds

\* A phone typed by an administrator is not verified, unless the account is known to have changed.
LEMMA Edits ==
    ASSUME Setting, IInv, NEW s \in Sessions, CommitEdit(s)
    PROVE  IInv'
<1>1. req[s] \in Requests /\ req[s].at = "edit" /\ KnowsWhat(req[s])
  BY Typed DEF IInv, CommitEdit, Asked
<1>2. PICK u \in Accounts, p \in Phones, was \in Row :
         u = req[s].user /\ p = req[s].phone /\ was = req[s].seen /\ req[s].holders = {}
  BY <1>1 DEF KnowsWhat, Requests
<1>3. account \in [Accounts -> Row] /\ proved \in [Accounts -> SUBSET Phones] /\ raced \subseteq Accounts
  BY Typed DEF IInv
<1> DEFINE row == [[account[u] EXCEPT !.phone = p] EXCEPT !.verified = account[u].verified /\ ~was.verified]
<1>4. account' = [account EXCEPT ![u] = row]
  <2>1. account' = [account EXCEPT ![u].phone = p, ![u].verified = @ /\ ~was.verified]
    BY <1>2 DEF CommitEdit, Write
  <2> QED
    BY <1>2, <1>3, <2>1 DEF Row
<1>5. /\ End(s) /\ UNCHANGED <<codeVars, tokens, proved>> /\ raced' = raced \cup Changed(s)
  BY DEF CommitEdit
<1>6. row \in Row
  BY <1>2, <1>3 DEF Row
<1>7. account[u] = was => ~row.verified
  BY <1>2, <1>3 DEF Row
<1> HIDE DEF row
<1>8. /\ account' \in [Accounts -> Row] /\ account'[u] = row
      /\ \A a \in Accounts \ {u} : account'[a] = account[a]
  BY <1>3, <1>4, <1>6
<1>9. Changed(s) \subseteq Accounts
  BY <1>2 DEF Changed
<1>10. VerifiedPhonesProved'
  <2>1. ASSUME NEW a \in Accounts \ raced', account'[a].verified PROVE account'[a].phone \in proved'[a]
    <3>1. a \in Accounts \ raced /\ a \notin Changed(s)
      BY <1>5, <2>1
    <3>2. a # u
      <4>1. ASSUME a = u PROVE FALSE
        <5>1. account[u] = was
          BY <1>2, <3>1, <4>1 DEF Changed, Setting
        <5> QED
          BY <1>7, <1>8, <2>1, <4>1, <5>1
      <4> QED
        BY <4>1
    <3> QED
      BY <1>5, <1>8, <2>1, <3>1, <3>2 DEF IInv, VerifiedPhonesProved
  <2> QED
    BY <2>1 DEF VerifiedPhonesProved
<1> QED
  BY <1>3, <1>5, <1>8, <1>9, <1>10, HandlerEnds

LEMMA Abandons ==
    ASSUME Setting, IInv, NEW s \in Sessions, Abandon(s)
    PROVE  IInv'
<1>1. /\ checking' = [i \in Ids |-> IF checking[i] = s THEN NoSession ELSE checking[i]]
      /\ sending' = [p \in Phones |-> IF sending[p] = s THEN NoSession ELSE sending[p]]
      /\ req' = [req EXCEPT ![s] = Idle]
      /\ UNCHANGED <<codes, uses, cooling, account, proved, raced, tokens>>
  BY DEF Abandon, End, Goto, accountVars
<1>2. /\ sending \in [Phones -> Sessions \cup {NoSession}] /\ checking \in [Ids -> Sessions \cup {NoSession}]
  BY Typed DEF IInv
<1>3. /\ sending' \in [Phones -> Sessions \cup {NoSession}]
      /\ \A p \in Phones : \A t \in Sessions \ {s} : sending[p] = t => sending'[p] = t
  BY <1>1, <1>2
<1>4. /\ checking' \in [Ids -> Sessions \cup {NoSession}]
      /\ \A i \in Ids : \A t \in Sessions \ {s} : checking[i] = t => checking'[i] = t
  BY <1>1, <1>2
<1>5. /\ req' \in [Sessions -> Requests] /\ SentInOrder' /\ OneActive' /\ PhoneLimit'
      /\ Queued' /\ LimitKept' /\ Checked' /\ Asked'
  BY <1>1, <1>3, <1>4, Records, HandlerMoves
<1>6. TypeOK'
  BY <1>1, <1>3, <1>4, <1>5, Typed, Types DEF IInv
<1>7. UsedUp' /\ VerifiedPhonesProved'
  BY <1>1 DEF IInv, UsedUp, VerifiedPhonesProved, Sent
<1> QED
  BY <1>5, <1>6, <1>7 DEF IInv

LEMMA Steps == ASSUME Setting, IInv, Next PROVE IInv'
<1>1. CASE \E s \in Sessions :
        \/ CommitCode(s) \/ MessageSent(s) \/ MessageFailed(s) \/ CommitSignIn(s) \/ LinkCode(s)
        \/ ListHolders(s) \/ CommitLink(s) \/ CommitRegister(s) \/ CommitEdit(s) \/ Abandon(s)
        \/ \E p \in Phones :
            \/ LockPhone(s, p) \/ WrongCode(s, p) \/ AskSignIn(s, p) \/ AskRegister(s, p)
            \/ \E a \in Accounts : AskLink(s, a, p) \/ AskEdit(s, a, p)
  <2>1. PICK s \in Sessions :
        \/ CommitCode(s) \/ MessageSent(s) \/ MessageFailed(s) \/ CommitSignIn(s) \/ LinkCode(s)
        \/ ListHolders(s) \/ CommitLink(s) \/ CommitRegister(s) \/ CommitEdit(s) \/ Abandon(s)
        \/ \E p \in Phones :
            \/ LockPhone(s, p) \/ WrongCode(s, p) \/ AskSignIn(s, p) \/ AskRegister(s, p)
            \/ \E a \in Accounts : AskLink(s, a, p) \/ AskEdit(s, a, p)
    BY <1>1
  <2>2. CASE CommitCode(s)
    BY <2>2, Commits
  <2>3. CASE MessageFailed(s)
    BY <2>3, MessageFails
  <2>4. CASE CommitSignIn(s)
    BY <2>4, SignsIn
  <2>5. CASE LinkCode(s) \/ \E p \in Phones : AskSignIn(s, p)
    BY <2>5, CodeAccepted
  <2>6. CASE CommitLink(s)
    BY <2>6, Links
  <2>7. CASE CommitRegister(s)
    BY <2>7, Registers
  <2>8. CASE CommitEdit(s)
    BY <2>8, Edits
  <2>9. CASE Abandon(s)
    BY <2>9, Abandons
  <2>10. CASE \E p \in Phones : LockPhone(s, p)
    BY <2>10, Locks
  <2>11. CASE \E p \in Phones : WrongCode(s, p)
    BY <2>11, WrongCodes
  <2>12. CASE \/ MessageSent(s) \/ ListHolders(s)
              \/ \E p \in Phones : \/ AskRegister(s, p)
                                   \/ \E a \in Accounts : AskLink(s, a, p) \/ AskEdit(s, a, p)
    BY <2>12, Reads
  <2> QED
    BY <2>1, <2>2, <2>3, <2>4, <2>5, <2>6, <2>7, <2>8, <2>9, <2>10, <2>11, <2>12
<1>2. CASE \/ \E p \in Phones : CooledDown(p) \/ ExpireToken(p)
           \/ \E i \in Ids : ExpireCode(i)
  BY <1>2, Passes
<1> QED
  BY <1>1, <1>2 DEF Next

LEMMA Starts == ASSUME Setting, Init PROVE IInv
<1>1. /\ codes = [i \in Ids |-> [phone |-> NoPhone, active |-> FALSE, expired |-> FALSE, attempts |-> 0]]
      /\ uses = [i \in Ids |-> 0] /\ cooling = {} /\ tokens = {} /\ raced = {}
      /\ sending = [p \in Phones |-> NoSession] /\ checking = [i \in Ids |-> NoSession]
      /\ account \in [Accounts -> Row] /\ (\A a \in Accounts : ~account[a].verified)
      /\ proved = [a \in Accounts |-> {}] /\ req = [s \in Sessions |-> Idle]
  BY DEF Init
<1>2. TypeOK
  <2>1. 0 \in 0..MaxAttempts
    BY DEF Setting
  <2>2. codes \in [Ids -> CodeRows]
    BY <1>1, <2>1 DEF CodeRows
  <2>3. uses \in [Ids -> Nat] /\ proved \in [Accounts -> SUBSET Phones] /\ req \in [Sessions -> Requests]
    BY <1>1, Records
  <2> QED
    BY <1>1, <2>2, <2>3 DEF TypeOK, CodeRows, Requests
<1>3. Sent = {} /\ (\A p \in Phones : SentTo(p) = {} /\ Active(p) = {}) /\ Sending = {}
  <2>1. Sent = {}
    BY <1>1 DEF Sent
  <2>2. Sending = {}
    BY <1>1, Records DEF Sending
  <2> QED
    BY <2>1, <2>2 DEF SentTo, Active
<1>4. SentInOrder
  <2>1. 1..0 = {} /\ 0 \in 0..MaxCodes
    BY DEF Setting
  <2> QED
    BY <1>3, <2>1 DEF SentInOrder
<1>5. UsedUp /\ OneActive /\ Queued /\ VerifiedPhonesProved
  BY <1>1, <1>3 DEF UsedUp, OneActive, Queued, VerifiedPhonesProved
<1>6. LimitKept /\ PhoneLimit
  <2>1. Cardinality(Sent) = 0 /\ Cardinality(Sending) = 0 /\ \A p \in Phones : Cardinality(SentTo(p)) = 0
    BY <1>3, FS_EmptySet
  <2>2. Cardinality(Sessions) \in Nat
    BY FS_CardinalityType DEF Setting
  <2>3. 0 + 0 < MaxPerIp + Cardinality(Sessions) /\ 0 <= MaxPerPhone
    BY <2>2 DEF Setting
  <2> QED
    BY <2>1, <2>3 DEF LimitKept, PhoneLimit
<1>7. Checked /\ Asked
  BY <1>1, Records DEF Checked, Asked
<1> QED
  BY <1>2, <1>4, <1>5, <1>6, <1>7 DEF IInv

LEMMA Stands == ASSUME IInv, UNCHANGED vars PROVE IInv'
<1>1. UNCHANGED <<codes, uses, cooling, sending, checking, account, proved, tokens, req, raced>>
  BY DEF vars
<1>2. TypeOK'
  BY <1>1, Typed, Types DEF IInv
<1>3. /\ Sent' = Sent /\ (\A p : SentTo(p)' = SentTo(p) /\ Active(p)' \subseteq Active(p))
      /\ SentInOrder' /\ OneActive' /\ PhoneLimit'
  BY <1>1, CodesStay
<1>4. Queued'
  <2>1. ASSUME NEW t \in Sessions PROVE SentTo(req[t].phone)' = SentTo(req[t].phone)
    BY <1>1 DEF SentTo, Sent
  <2> QED
    BY <1>1, <2>1 DEF IInv, Queued, Sending
<1>5. UsedUp' /\ LimitKept' /\ Checked' /\ Asked' /\ VerifiedPhonesProved'
  BY <1>1, <1>3 DEF IInv, UsedUp, LimitKept, Sending, Checked, Accepting, Asked, KnowsWhat, Ids, VerifiedPhonesProved
<1> QED
  BY <1>2, <1>3, <1>4, <1>5 DEF IInv

LEMMA Proved ==
    ASSUME Setting, IInv
    PROVE  CodesOnce /\ SendsBounded /\ VerifiedPhonesProved
<1>1. CodesOnce
  <2>1. ASSUME NEW p \in Phones PROVE Cardinality(Active(p)) <= 1
    <3>1. CASE Active(p) = {}
      BY <3>1, FS_EmptySet
    <3>2. CASE Active(p) # {}
      <4>1. PICK i \in Active(p) : TRUE
        BY <3>2
      <4>2. Active(p) = {i}
        BY <4>1 DEF IInv, OneActive
      <4>3. Cardinality(Active(p)) = 1
        BY <4>2, FS_Singleton, Zenon
      <4> QED
        BY <4>3
    <3> QED
      BY <3>1, <3>2
  <2>2. \A i \in Ids : uses[i] <= 1
    BY DEF IInv, UsedUp
  <2> QED
    BY <2>1, <2>2 DEF CodesOnce
<1>2. SendsBounded
  <2>1. IsFiniteSet(Sending) /\ Cardinality(Sending) \in Nat
    BY FS_Subset, FS_CardinalityType DEF Setting, Sending
  <2>2. Cardinality(Sent) \in Nat /\ Cardinality(Sessions) \in Nat /\ MaxPerIp \in Nat
    BY SentCounted, FS_CardinalityType DEF IInv, Setting
  <2>3. Cardinality(Sent) < MaxPerIp + Cardinality(Sessions)
    BY <2>1, <2>2 DEF IInv, LimitKept
  <2> QED
    BY <2>3 DEF SendsBounded, IInv, PhoneLimit
<1> QED
  BY <1>1, <1>2 DEF IInv

\* PhoneOtpService and who calls it, for any phones, accounts, sessions and limits:
\* one code at a time for a phone, accepted once; sends to a phone as many as
\* allowed and those from an address too many by fewer than there are sessions;
\* and a phone marked verified was proved for its account, unless raced.
THEOREM PhonesAlways == ASSUME Setting PROVE Spec => [](CodesOnce /\ SendsBounded /\ VerifiedPhonesProved)
<1>1. Init => IInv
  BY Starts
<1>2. IInv /\ [Next]_vars => IInv'
  BY Steps, Stands
<1>3. IInv => CodesOnce /\ SendsBounded /\ VerifiedPhonesProved
  BY Proved
<1> QED
  BY <1>1, <1>2, <1>3, PTL DEF Spec

\* A set whose elements are all one.
LEMMA AtMostOne ==
    ASSUME NEW S, \A x, y \in S : x = y
    PROVE  Cardinality(S) <= 1
<1>1. CASE S = {}
  BY <1>1, FS_EmptySet
<1>2. CASE \E x : S = {x}
  BY <1>2, FS_Singleton
<1> QED
  BY <1>1, <1>2

-----------------------------------------------------------------------------
(* E-mail verification: whoever compares a code has it locked.             *)
CONSTANT Addresses
VARIABLES email, verified, wrong, proof, lock, hasty, moved
Email == INSTANCE EmailCodes WITH MaxAttempts <- 2, MaxCodes <- 2

EmailRows == [status: {"NONE", "ACTIVE", "CONSUMED"}, to: Addresses,
              attempts: 0..2, expired: BOOLEAN, recent: BOOLEAN]
EmailRequests == [at: Email!Sends \cup {"idle", "lock", "compare"}, to: Addresses, code: 0..2, attempts: 0..2]

LEMMA EmailTyped ==
    ASSUME Email!TypeOK
    PROVE  /\ email \in Addresses /\ proof \in Addresses
           /\ verified \in BOOLEAN /\ hasty \in BOOLEAN /\ moved \in BOOLEAN
           /\ codes \in [1..2 -> EmailRows] /\ wrong \in [1..2 -> 0..2]
           /\ lock \in [1..2 -> Sessions \cup {NoSession}] /\ req \in [Sessions -> EmailRequests]
           /\ Email!Ids = 1..2
  BY DEF Email!TypeOK, EmailRows, EmailRequests, Email!Ids

LEMMA EmailTypes ==
    ASSUME email' \in Addresses, proof' \in Addresses,
           verified' \in BOOLEAN, hasty' \in BOOLEAN, moved' \in BOOLEAN,
           codes' \in [1..2 -> EmailRows], wrong' \in [1..2 -> 0..2],
           lock' \in [1..2 -> Sessions \cup {NoSession}], req' \in [Sessions -> EmailRequests]
    PROVE  Email!TypeOK'
  BY DEF Email!TypeOK, EmailRows, EmailRequests, Email!Ids

LEMMA EmailRecords ==
    ASSUME NEW a \in Addresses
    PROVE  /\ Email!NoCode \in EmailRows /\ Email!NoCode.status = "NONE" /\ Email!NoCode.attempts = 0
           /\ Email!Idle \in EmailRequests /\ Email!Idle.at = "idle"
           /\ \A next \in Email!Sends \cup {"lock"} :
                /\ [Email!Idle EXCEPT !.at = next, !.to = a] \in EmailRequests
                /\ [Email!Idle EXCEPT !.at = next, !.to = a].at = next
<1>1. (CHOOSE b \in Addresses : TRUE) \in Addresses
  OBVIOUS
<1> DEFINE some == CHOOSE b \in Addresses : TRUE
<1>2. /\ Email!NoCode = [status |-> "NONE", to |-> some, attempts |-> 0, expired |-> FALSE, recent |-> FALSE]
      /\ Email!Idle = [at |-> "idle", to |-> some, code |-> 0, attempts |-> 0]
  BY DEF Email!NoCode, Email!Idle
<1>3. some \in Addresses
  BY <1>1
<1> HIDE DEF some
<1>4. Email!NoCode \in EmailRows /\ Email!NoCode.status = "NONE" /\ Email!NoCode.attempts = 0
  BY <1>2, <1>3 DEF EmailRows
<1>5. Email!Idle \in EmailRequests /\ Email!Idle.at = "idle"
  BY <1>2, <1>3 DEF EmailRequests
<1>6. ASSUME NEW next \in Email!Sends \cup {"lock"}
      PROVE  /\ [Email!Idle EXCEPT !.at = next, !.to = a] \in EmailRequests
             /\ [Email!Idle EXCEPT !.at = next, !.to = a].at = next
  BY <1>5 DEF EmailRequests, Email!Sends
<1> QED
  BY <1>4, <1>5, <1>6

\* The codes are what they were but for the addresses and the times: what is
\* said of them holds on.
LEMMA EmailHandlers ==
    ASSUME Email!IInv, NEW s \in Sessions, NEW r \in EmailRequests,
           req' = [req EXCEPT ![s] = r], r.at \notin {"compare", "mail", "create"},
           hasty' \in BOOLEAN, ~hasty' => ~hasty, moved' \in BOOLEAN, ~moved' => ~moved,
           UNCHANGED <<verified, codes, wrong, proof>>,
           lock' = lock \/ lock' = [i \in 1..2 |-> IF lock[i] = s THEN NoSession ELSE lock[i]]
    PROVE  /\ req' \in [Sessions -> EmailRequests] /\ lock' \in [1..2 -> Sessions \cup {NoSession}]
           /\ \A t \in Sessions : req'[t] = IF t = s THEN r ELSE req[t]
           /\ Email!Active' = Email!Active /\ Email!Rows' = Email!Rows
           /\ Email!RowsInOrder' /\ Email!UnusedRows' /\ Email!WrongCounted'
           /\ Email!Compared' /\ Email!Mailed' /\ Email!OneActive'
           /\ r.at \notin Email!Sends => Email!OneSend'
<1>1. /\ req \in [Sessions -> EmailRequests] /\ lock \in [1..2 -> Sessions \cup {NoSession}] /\ Email!Ids = 1..2
      /\ codes \in [1..2 -> EmailRows]
  BY EmailTyped DEF Email!IInv
<1>2. /\ req' \in [Sessions -> EmailRequests] /\ \A t \in Sessions : req'[t] = IF t = s THEN r ELSE req[t]
  BY <1>1
<1>3. lock' \in [1..2 -> Sessions \cup {NoSession}] /\ \A i \in 1..2 : \A t \in Sessions : t # s /\ lock[i] = t => lock'[i] = t
  BY <1>1
<1>4. Email!Active' = Email!Active /\ Email!Rows' = Email!Rows
  BY DEF Email!Active, Email!Rows, Email!Ids
<1>5. Email!RowsInOrder' /\ Email!UnusedRows' /\ Email!WrongCounted'
  BY <1>4 DEF Email!IInv, Email!RowsInOrder, Email!UnusedRows, Email!WrongCounted
<1>6. Email!Compared'
  BY <1>1, <1>2, <1>3, <1>4 DEF Email!IInv, Email!Compared, Email!Active
<1>7. Email!Mailed'
  BY <1>2 DEF Email!IInv, Email!Mailed
<1>8. Email!OneActive'
  BY <1>4 DEF Email!IInv, Email!OneActive
<1>9. r.at \notin Email!Sends => Email!OneSend'
  BY <1>2, <1>4 DEF Email!IInv, Email!OneSend, Email!Sending
<1> QED
  BY <1>2, <1>3, <1>4, <1>5, <1>6, <1>7, <1>8, <1>9

LEMMA EmailBegins ==
    ASSUME Email!IInv, NEW s \in Sessions, NEW next \in {"cooldown", "link", "lock"}, NEW a \in Addresses,
           ~verified, Email!Begin(s, next, a)
    PROVE  Email!IInv'
<1> DEFINE r == [Email!Idle EXCEPT !.at = next, !.to = a]
<1>1. /\ r \in EmailRequests /\ r.at = next
  BY EmailRecords DEF Email!Sends
<1>2. /\ req[s].at = "idle" /\ req' = [req EXCEPT ![s] = r]
      /\ hasty' = (hasty \/ (next \in Email!Sends /\ Email!Sending # {}))
      /\ moved' = (moved \/ (next = "link" /\ Email!Busy # {}) \/ \E b \in Email!Busy : req[b].at = "link")
      /\ UNCHANGED <<email, verified, codes, wrong, proof, lock>>
  BY DEF Email!Begin
<1> HIDE DEF r
<1>3. /\ hasty' \in BOOLEAN /\ (~hasty' => ~hasty /\ (next \in Email!Sends => Email!Sending = {}))
      /\ moved' \in BOOLEAN
      /\ ~moved' => /\ ~moved /\ (next = "link" => Email!Busy = {})
                    /\ \A b \in Email!Busy : req[b].at # "link"
  BY <1>2, EmailTyped, Zenon DEF Email!IInv
<1>4. /\ req' \in [Sessions -> EmailRequests] /\ \A t \in Sessions : req'[t] = IF t = s THEN r ELSE req[t]
      /\ Email!Active' = Email!Active
      /\ Email!RowsInOrder' /\ Email!UnusedRows' /\ Email!WrongCounted'
      /\ Email!Compared' /\ Email!Mailed' /\ Email!OneActive'
  BY <1>1, <1>2, <1>3, EmailHandlers
<1>5. Email!TypeOK'
  BY <1>2, <1>3, <1>4, EmailTyped, EmailTypes DEF Email!IInv
<1>6. Email!OneSend'
  <2>1. Email!Sending' = IF next \in Email!Sends THEN Email!Sending \cup {s} ELSE Email!Sending
    BY <1>1, <1>2, <1>4 DEF Email!Sending, Email!Sends
  <2>2. \A t \in Sessions : req'[t].at = "create" => req[t].at = "create"
    BY <1>1, <1>4
  <2> QED
    BY <1>3, <1>4, <2>1, <2>2 DEF Email!IInv, Email!OneSend
<1>7. Email!SentThere' /\ Email!VerifiedAddressProved'
  BY <1>2, <1>3, <1>4 DEF Email!IInv, Email!SentThere, Email!VerifiedAddressProved
<1>8. Email!AddressOfOne'
  <2>1. Email!Busy' = Email!Busy \cup {s}
    BY <1>1, <1>2, <1>4 DEF Email!Busy
  <2>2. \A t \in Sessions : req'[t].at = "link" => (t = s /\ next = "link") \/ (t \in Email!Busy /\ req[t].at = "link")
    BY <1>1, <1>4 DEF Email!Busy
  <2> QED
    BY <1>2, <1>3, <2>1, <2>2 DEF Email!AddressOfOne
<1> QED
  BY <1>4, <1>5, <1>6, <1>7, <1>8 DEF Email!IInv

LEMMA EmailSends ==
    ASSUME Email!IInv, NEW s \in Sessions, Email!SaveAddress(s) \/ Email!EnforceCooldown(s) \/ Email!Abandon(s)
    PROVE  Email!IInv'
<1>1. /\ req \in [Sessions -> EmailRequests] /\ req[s].to \in Addresses /\ email \in Addresses
      /\ moved \in BOOLEAN /\ hasty \in BOOLEAN /\ lock \in [1..2 -> Sessions \cup {NoSession}]
  BY EmailTyped DEF Email!IInv, EmailRequests
<1>2. PICK r \in EmailRequests :
        /\ req' = [req EXCEPT ![s] = r]
        /\ \/ Email!SaveAddress(s) /\ r.at = "cooldown"
           \/ Email!EnforceCooldown(s) /\ r.at = "invalidate"
           \/ Email!Abandon(s) /\ r.at = "idle"
  <2>1. ASSUME NEW next \in {"cooldown", "invalidate"}, Email!Goto(s, next)
        PROVE  [req[s] EXCEPT !.at = next] \in EmailRequests /\ req' = [req EXCEPT ![s] = [req[s] EXCEPT !.at = next]]
               /\ [req[s] EXCEPT !.at = next].at = next
    BY <1>1, <2>1 DEF Email!Goto, EmailRequests, Email!Sends
  <2>2. CASE Email!SaveAddress(s)
    BY <2>1, <2>2 DEF Email!SaveAddress
  <2>3. CASE Email!EnforceCooldown(s)
    BY <2>1, <2>3 DEF Email!EnforceCooldown
  <2>4. CASE Email!Abandon(s)
    BY <1>1, <2>4, EmailRecords DEF Email!Abandon, Email!End
  <2> QED
    BY <2>2, <2>3, <2>4
<1>3. /\ hasty' \in BOOLEAN /\ (~hasty' => ~hasty) /\ moved' \in BOOLEAN /\ (~moved' => ~moved)
  BY <1>1, <1>2, Zenon DEF Email!SaveAddress, Email!EnforceCooldown, Email!Abandon
<1>4. /\ UNCHANGED <<verified, codes, wrong, proof>>
      /\ lock' = lock \/ lock' = [i \in 1..2 |-> IF lock[i] = s THEN NoSession ELSE lock[i]]
      /\ email' \in Addresses /\ req[s].at # "idle"
  BY <1>1, <1>2 DEF Email!SaveAddress, Email!EnforceCooldown, Email!Abandon, Email!End, Email!Ids
<1>5. /\ req' \in [Sessions -> EmailRequests] /\ lock' \in [1..2 -> Sessions \cup {NoSession}]
      /\ \A t \in Sessions : req'[t] = IF t = s THEN r ELSE req[t]
      /\ Email!Active' = Email!Active
      /\ Email!RowsInOrder' /\ Email!UnusedRows' /\ Email!WrongCounted'
      /\ Email!Compared' /\ Email!Mailed' /\ Email!OneActive'
      /\ r.at \notin Email!Sends => Email!OneSend'
  BY <1>2, <1>3, <1>4, EmailHandlers
<1>6. Email!TypeOK'
  BY <1>3, <1>4, <1>5, EmailTyped, EmailTypes DEF Email!IInv
<1>7. Email!OneSend'
  <2>1. CASE Email!Abandon(s)
    <3>1. req' = [req EXCEPT ![s] = Email!Idle]
      BY <2>1 DEF Email!Abandon, Email!End
    <3>2. \A t \in Sessions : t # s => req'[t] = req[t]
      BY <1>1, <3>1
    <3>3. req'[s].at = "idle"
      BY <1>1, <3>1, EmailRecords
    <3> QED
      BY <1>3, <1>5, <3>2, <3>3 DEF Email!IInv, Email!OneSend, Email!Sending, Email!Sends
  <2>2. CASE req[s].at \in Email!Sends /\ r.at # "create" /\ r.at \in Email!Sends
    <3>1. Email!Sending' = Email!Sending
      BY <1>5, <2>2 DEF Email!Sending
    <3>2. \A t \in Sessions : req'[t].at = "create" => req[t].at = "create"
      BY <1>5, <2>2
    <3> QED
      BY <1>3, <1>5, <3>1, <3>2 DEF Email!IInv, Email!OneSend
  <2> QED
    BY <1>2, <2>1, <2>2 DEF Email!SaveAddress, Email!EnforceCooldown, Email!Sends
<1>8. ~moved' => email' = email \/ (Email!Active = {} /\ ~verified)
  <2>1. CASE Email!SaveAddress(s)
    <3>1. ~moved' => ~moved /\ (email = req[s].to \/ Email!Active = {}) /\ email' = req[s].to
      BY <1>1, <2>1, Zenon DEF Email!SaveAddress
    <3>2. ~moved => ~verified
      BY <2>1 DEF Email!IInv, Email!AddressOfOne, Email!SaveAddress
    <3> QED
      BY <3>1, <3>2
  <2> QED
    BY <1>2, <2>1 DEF Email!EnforceCooldown, Email!Abandon
<1>9. Email!SentThere' /\ Email!VerifiedAddressProved'
  BY <1>3, <1>4, <1>5, <1>8 DEF Email!IInv, Email!SentThere, Email!VerifiedAddressProved
<1>10. Email!AddressOfOne'
  <2>1. ~moved' => \A t \in Sessions : req'[t].at # "link"
    <3>1. ~moved => \A t \in Sessions : t # s => req[t].at # "link"
      <4>1. s \in Email!Busy
        BY <1>4 DEF Email!Busy
      <4> QED
        BY <4>1 DEF Email!IInv, Email!AddressOfOne
    <3> QED
      BY <1>2, <1>3, <1>5, <3>1
  <2> QED
    BY <2>1 DEF Email!AddressOfOne
<1> QED
  BY <1>5, <1>6, <1>7, <1>9, <1>10 DEF Email!IInv

LEMMA EmailInvalidates ==
    ASSUME NoSession \notin Sessions, Email!IInv, NEW s \in Sessions, Email!Invalidate(s)
    PROVE  Email!IInv'
<1>1. /\ req \in [Sessions -> EmailRequests] /\ codes \in [1..2 -> EmailRows] /\ Email!Ids = 1..2
  BY EmailTyped DEF Email!IInv
<1>2. /\ req[s].at = "invalidate" /\ Email!Active \cap Email!Locked = {}
      /\ codes' = [i \in 1..2 |-> IF i \in Email!Active THEN [codes[i] EXCEPT !.status = "CONSUMED"] ELSE codes[i]]
      /\ req' = [req EXCEPT ![s].at = "create"]
      /\ UNCHANGED <<email, verified, wrong, proof, lock, hasty, moved>>
  BY <1>1 DEF Email!Invalidate, Email!Invalidated, Email!Goto
<1> DEFINE r == [req[s] EXCEPT !.at = "create"]
<1>3. r \in EmailRequests /\ r.at = "create" /\ req' = [req EXCEPT ![s] = r]
  BY <1>1, <1>2 DEF EmailRequests, Email!Sends
<1> HIDE DEF r
<1>4. req' \in [Sessions -> EmailRequests] /\ \A t \in Sessions : req'[t] = IF t = s THEN r ELSE req[t]
  BY <1>1, <1>3
<1>5. ASSUME NEW i \in 1..2
      PROVE  /\ codes'[i] \in EmailRows /\ codes'[i].attempts = codes[i].attempts
             /\ codes'[i].status # "ACTIVE" /\ (codes'[i].status = "NONE" <=> codes[i].status = "NONE")
  <2>1. CASE i \in Email!Active
    <3>1. codes'[i] = [codes[i] EXCEPT !.status = "CONSUMED"] /\ codes[i] \in EmailRows /\ codes[i].status = "ACTIVE"
      BY <1>1, <1>2, <2>1 DEF Email!Active
    <3> QED
      BY <3>1 DEF EmailRows
  <2>2. CASE i \notin Email!Active
    <3>1. codes'[i] = codes[i] /\ codes[i] \in EmailRows /\ codes[i].status # "ACTIVE"
      BY <1>1, <1>2, <2>2 DEF Email!Active
    <3> QED
      BY <3>1
  <2> QED
    BY <2>1, <2>2
<1>6. Email!Active' = {} /\ Email!Rows' = Email!Rows
  BY <1>1, <1>5 DEF Email!Active, Email!Rows, Email!Ids
<1>7. Email!TypeOK'
  <2>1. codes' \in [1..2 -> EmailRows]
    BY <1>2, <1>5
  <2> QED
    BY <1>2, <1>4, <2>1, EmailTyped, EmailTypes DEF Email!IInv
<1>8. Email!RowsInOrder' /\ Email!UnusedRows' /\ Email!WrongCounted'
  BY <1>1, <1>2, <1>5, <1>6 DEF Email!IInv, Email!RowsInOrder, Email!UnusedRows, Email!WrongCounted, Email!Ids
<1>9. \A t \in Sessions : req'[t].at # "compare"
  <2>1. \A t \in Sessions : req[t].at # "compare"
    <3>1. ASSUME NEW t \in Sessions, req[t].at = "compare" PROVE FALSE
      <4>1. req[t].code \in Email!Active /\ lock[req[t].code] = t
        BY <3>1 DEF Email!IInv, Email!Compared
      <4>2. req[t].code \in Email!Locked
        BY <4>1 DEF Email!Active, Email!Locked
      <4> QED
        BY <1>2, <4>1, <4>2
    <3> QED
      BY <3>1
  <2> QED
    BY <1>3, <1>4, <2>1
<1>10. Email!Compared' /\ Email!OneActive' /\ Email!SentThere'
  BY <1>6, <1>9 DEF Email!Compared, Email!OneActive, Email!SentThere
<1>11. Email!Mailed'
  BY <1>3, <1>4 DEF Email!IInv, Email!Mailed, Email!Ids
<1>12. Email!OneSend'
  <2>1. Email!Sending' = Email!Sending
    BY <1>2, <1>3, <1>4 DEF Email!Sending, Email!Sends
  <2> QED
    BY <1>2, <1>6, <2>1 DEF Email!IInv, Email!OneSend
<1>13. Email!AddressOfOne' /\ Email!VerifiedAddressProved'
  <2>1. Email!Busy' = Email!Busy
    BY <1>2, <1>3, <1>4 DEF Email!Busy
  <2>2. \A t \in Sessions : req'[t].at = "link" => req[t].at = "link"
    BY <1>3, <1>4
  <2> QED
    BY <1>2, <2>1, <2>2 DEF Email!IInv, Email!AddressOfOne, Email!VerifiedAddressProved
<1> QED
  BY <1>7, <1>8, <1>10, <1>11, <1>12, <1>13 DEF Email!IInv

\* The next row is a new one.
LEMMA NextRow ==
    ASSUME Email!IInv, Email!Cardinality(Email!Rows) + 1 \in 1..2
    PROVE  /\ Email!Cardinality(Email!Rows) + 1 \notin Email!Rows
           /\ \A j \in 1..2 : j < Email!Cardinality(Email!Rows) + 1 => j \in Email!Rows
<1>1. Email!Cardinality(Email!Rows) = Cardinality(Email!Rows)
  BY DEF Email!Cardinality, Cardinality
<1>2. Email!Rows \subseteq 1..2 /\ (2 \in Email!Rows => 1 \in Email!Rows)
  <2>1. Email!Rows \subseteq 1..2
    BY DEF Email!Rows, Email!Ids
  <2>2. 1 \in Email!Ids /\ 2 \in Email!Ids /\ 1 < 2
    BY DEF Email!Ids
  <2> QED
    BY <2>1, <2>2 DEF Email!IInv, Email!RowsInOrder
<1>3. Email!Rows = {} \/ Email!Rows = {1} \/ Email!Rows = {1, 2}
  <2>1. \A i \in Email!Rows : i = 1 \/ i = 2
    BY <1>2
  <2>2. CASE 1 \notin Email!Rows
    <3>1. Email!Rows = {}
      BY <1>2, <2>1, <2>2
    <3> QED
      BY <3>1
  <2>3. CASE 1 \in Email!Rows /\ 2 \notin Email!Rows
    <3>1. Email!Rows = {1}
      BY <2>1, <2>3
    <3> QED
      BY <3>1
  <2>4. CASE 1 \in Email!Rows /\ 2 \in Email!Rows
    <3>1. Email!Rows = {1, 2}
      BY <2>1, <2>4
    <3> QED
      BY <3>1
  <2> QED
    BY <2>2, <2>3, <2>4
<1>4. CASE Email!Rows = {}
  BY <1>1, <1>4, FS_EmptySet
<1>5. CASE Email!Rows = {1}
  <2>1. Cardinality(Email!Rows) = 1
    BY <1>5, FS_Singleton
  <2> QED
    BY <1>1, <1>5, <2>1
<1>6. CASE Email!Rows = {1, 2}
  <2>1. IsFiniteSet({1}) /\ Cardinality({1}) = 1
    BY FS_Singleton
  <2>2. Cardinality({1} \cup {2}) = 2
    BY <2>1, FS_AddElement
  <2>3. {1} \cup {2} = {1, 2}
    OBVIOUS
  <2>4. Cardinality(Email!Rows) = 2
    BY <1>6, <2>2, <2>3
  <2> QED
    BY <1>1, <2>4
<1> QED
  BY <1>3, <1>4, <1>5, <1>6

LEMMA EmailCreates ==
    ASSUME Email!IInv, NEW s \in Sessions, Email!CreateCode(s)
    PROVE  Email!IInv'
<1>0. PICK i \in 1..2 : i = Email!Cardinality(Email!Rows) + 1
  BY EmailTyped DEF Email!CreateCode, Email!IInv
<1>1. /\ req \in [Sessions -> EmailRequests] /\ codes \in [1..2 -> EmailRows] /\ Email!Ids = 1..2
      /\ email \in Addresses
  BY EmailTyped DEF Email!IInv
<1> DEFINE row == [Email!NoCode EXCEPT !.status = "ACTIVE", !.recent = TRUE, !.to = email]
           r == [req[s] EXCEPT !.at = "mail", !.code = i]
<1>2. /\ req[s].at = "create" /\ codes' = [codes EXCEPT ![i] = row]
      /\ req' = [req EXCEPT ![s] = r]
      /\ UNCHANGED <<email, verified, wrong, proof, lock, hasty, moved>>
  BY <1>0, <1>1 DEF Email!CreateCode
<1>3. row \in EmailRows /\ row.status = "ACTIVE" /\ row.to = email /\ row.attempts = 0
  BY <1>1, EmailRecords DEF EmailRows
<1>4. r \in EmailRequests /\ r.at = "mail" /\ r.code = i
  <2>1. req[s] \in EmailRequests /\ i \in 0..2
    BY <1>1
  <2> QED
    BY <2>1 DEF EmailRequests, Email!Sends
<1> HIDE DEF row, r
<1>5. req' \in [Sessions -> EmailRequests] /\ \A t \in Sessions : req'[t] = IF t = s THEN r ELSE req[t]
  BY <1>1, <1>2, <1>4
<1>6. codes' \in [1..2 -> EmailRows] /\ \A j \in 1..2 : codes'[j] = IF j = i THEN row ELSE codes[j]
  BY <1>1, <1>2, <1>3
<1>7. i \notin Email!Rows /\ \A j \in 1..2 : j < i => j \in Email!Rows
  BY <1>0, NextRow
<1>8. /\ Email!Active' = Email!Active \cup {i} /\ Email!Rows' = Email!Rows \cup {i}
      /\ Email!Active \subseteq Email!Rows
  BY <1>1, <1>3, <1>6 DEF Email!Active, Email!Rows
<1>9. Email!TypeOK'
  BY <1>2, <1>5, <1>6, EmailTyped, EmailTypes DEF Email!IInv
<1>10. Email!RowsInOrder'
  BY <1>1, <1>7, <1>8 DEF Email!IInv, Email!RowsInOrder
<1>11. Email!UnusedRows' /\ Email!WrongCounted'
  <2>1. codes[i].attempts = 0 /\ wrong[i] = 0
    BY <1>1, <1>7 DEF Email!IInv, Email!UnusedRows, Email!WrongCounted
  <2> QED
    BY <1>1, <1>2, <1>3, <1>6, <1>8, <2>1 DEF Email!IInv, Email!UnusedRows, Email!WrongCounted
<1>12. Email!Compared'
  <2>1. ASSUME NEW t \in Sessions, req'[t].at = "compare"
        PROVE  /\ req'[t].code \in Email!Active' /\ lock'[req'[t].code] = t
               /\ req'[t].attempts = codes'[req'[t].code].attempts
    <3>1. t # s /\ req'[t] = req[t]
      BY <1>4, <1>5, <2>1
    <3>2. /\ req[t].code \in Email!Active /\ lock[req[t].code] = t
          /\ req[t].attempts = codes[req[t].code].attempts
      BY <2>1, <3>1 DEF Email!IInv, Email!Compared
    <3>3. req[t].code # i /\ req[t].code \in 1..2
      BY <1>7, <1>8, <3>2 DEF Email!Rows, Email!Ids
    <3> QED
      BY <1>2, <1>6, <1>8, <3>1, <3>2, <3>3
  <2> QED
    BY <2>1 DEF Email!Compared
<1>13. Email!Mailed'
  BY <1>1, <1>4, <1>5 DEF Email!IInv, Email!Mailed
<1>14. Email!OneSend' /\ Email!OneActive'
  <2>1. Email!Sending' = Email!Sending /\ s \in Email!Sending
    BY <1>2, <1>4, <1>5 DEF Email!Sending, Email!Sends
  <2>2. ~hasty => Email!Active = {}
    BY <1>2 DEF Email!IInv, Email!OneSend
  <2>3. ~hasty => \A t \in Sessions : req'[t].at # "create"
    <3>1. ~hasty => \A t \in Sessions : t # s => req[t].at # "create"
      BY <2>1 DEF Email!IInv, Email!OneSend, Email!Sending, Email!Sends
    <3> QED
      BY <1>4, <1>5, <3>1
  <2>4. Email!OneSend'
    BY <1>2, <2>1, <2>3 DEF Email!IInv, Email!OneSend
  <2>5. Email!OneActive'
    BY <1>2, <1>8, <2>2 DEF Email!OneActive
  <2> QED
    BY <2>4, <2>5
<1>15. Email!SentThere'
  <2>1. ~moved => \A j \in Email!Active' : codes'[j].to = email
    BY <1>1, <1>3, <1>6, <1>8 DEF Email!IInv, Email!SentThere, Email!Active
  <2> QED
    BY <1>2, <2>1 DEF Email!SentThere
<1>16. Email!AddressOfOne' /\ Email!VerifiedAddressProved'
  <2>1. Email!Busy' = Email!Busy
    BY <1>2, <1>4, <1>5 DEF Email!Busy
  <2>2. \A t \in Sessions : req'[t].at = "link" => req[t].at = "link"
    BY <1>4, <1>5
  <2> QED
    BY <1>2, <2>1, <2>2 DEF Email!IInv, Email!AddressOfOne, Email!VerifiedAddressProved
<1> QED
  BY <1>9, <1>10, <1>11, <1>12, <1>13, <1>14, <1>15, <1>16 DEF Email!IInv

\* A code's address or times are written, or nothing of it.
LEMMA EmailUpdates ==
    ASSUME Email!IInv, codes' \in [1..2 -> EmailRows],
           \A i \in 1..2 : codes'[i].status = codes[i].status /\ codes'[i].attempts = codes[i].attempts,
           \A i \in 1..2 : codes'[i].to = codes[i].to \/ codes'[i].to = email,
           UNCHANGED <<email, verified, wrong, proof, hasty, moved>>
    PROVE  /\ Email!Active' = Email!Active /\ Email!Rows' = Email!Rows
           /\ Email!RowsInOrder' /\ Email!UnusedRows' /\ Email!WrongCounted'
           /\ Email!OneActive' /\ Email!SentThere' /\ Email!VerifiedAddressProved'
<1>1. Email!Active' = Email!Active /\ Email!Rows' = Email!Rows /\ Email!Ids = 1..2
  BY DEF Email!Active, Email!Rows, Email!Ids
<1>2. Email!RowsInOrder' /\ Email!UnusedRows' /\ Email!WrongCounted'
  BY <1>1 DEF Email!IInv, Email!RowsInOrder, Email!UnusedRows, Email!WrongCounted
<1>3. Email!OneActive' /\ Email!VerifiedAddressProved'
  BY <1>1 DEF Email!IInv, Email!OneActive, Email!VerifiedAddressProved
<1>4. Email!SentThere'
  BY <1>1 DEF Email!IInv, Email!SentThere, Email!Active
<1> QED
  BY <1>1, <1>2, <1>3, <1>4

LEMMA EmailMails ==
    ASSUME Email!IInv, NEW s \in Sessions, Email!Mail(s)
    PROVE  Email!IInv'
<1>1. /\ req \in [Sessions -> EmailRequests] /\ codes \in [1..2 -> EmailRows] /\ Email!Ids = 1..2
      /\ email \in Addresses /\ lock \in [1..2 -> Sessions \cup {NoSession}]
  BY EmailTyped DEF Email!IInv
<1>2. PICK i \in 1..2 : i = req[s].code
  BY <1>1 DEF Email!Mail, Email!IInv, Email!Mailed
<1>3. /\ req[s].at = "mail" /\ codes' \in {codes, [codes EXCEPT ![i].to = email]}
      /\ req' = [req EXCEPT ![s] = Email!Idle]
      /\ lock' = [j \in 1..2 |-> IF lock[j] = s THEN NoSession ELSE lock[j]]
      /\ UNCHANGED <<email, verified, wrong, proof, hasty, moved>>
  BY <1>1, <1>2 DEF Email!Mail, Email!End
<1> DEFINE row == [codes[i] EXCEPT !.to = email]
<1>4. row \in EmailRows /\ row.to = email /\ row.status = codes[i].status /\ row.attempts = codes[i].attempts
  BY <1>1 DEF EmailRows
<1>5. codes' = codes \/ codes' = [codes EXCEPT ![i] = row]
  BY <1>3
<1> HIDE DEF row
<1>6. /\ codes' \in [1..2 -> EmailRows]
      /\ \A j \in 1..2 : codes'[j].status = codes[j].status /\ codes'[j].attempts = codes[j].attempts
      /\ \A j \in 1..2 : codes'[j].to = codes[j].to \/ codes'[j].to = email
  BY <1>1, <1>4, <1>5
<1>7. /\ Email!Active' = Email!Active
      /\ Email!RowsInOrder' /\ Email!UnusedRows' /\ Email!WrongCounted'
      /\ Email!OneActive' /\ Email!SentThere' /\ Email!VerifiedAddressProved'
  BY <1>3, <1>6, EmailUpdates
<1>8. /\ Email!Idle \in EmailRequests /\ Email!Idle.at = "idle"
  BY <1>1, EmailRecords
<1>9. req' \in [Sessions -> EmailRequests] /\ \A t \in Sessions : req'[t] = IF t = s THEN Email!Idle ELSE req[t]
  BY <1>1, <1>3, <1>8
<1>10. /\ lock' \in [1..2 -> Sessions \cup {NoSession}]
       /\ \A j \in 1..2 : \A t \in Sessions : t # s /\ lock[j] = t => lock'[j] = t
  BY <1>1, <1>3
<1>11. Email!TypeOK'
  BY <1>3, <1>6, <1>9, <1>10, EmailTyped, EmailTypes DEF Email!IInv
<1>12. Email!Compared'
  BY <1>1, <1>6, <1>7, <1>8, <1>9, <1>10 DEF Email!IInv, Email!Compared, Email!Active
<1>13. Email!Mailed'
  BY <1>8, <1>9 DEF Email!IInv, Email!Mailed
<1>14. Email!OneSend'
  <2>1. Email!Sending' \subseteq Email!Sending
    BY <1>8, <1>9 DEF Email!Sending, Email!Sends
  <2>2. \A t \in Sessions : req'[t].at = "create" => req[t].at = "create"
    BY <1>8, <1>9
  <2> QED
    BY <1>3, <1>7, <2>1, <2>2 DEF Email!IInv, Email!OneSend
<1>15. Email!AddressOfOne'
  <2>1. s \in Email!Busy
    BY <1>3 DEF Email!Busy
  <2>2. ~moved => \A t \in Sessions : req[t].at # "link"
    <3>1. \A t \in Sessions : req[t].at = "link" => t # s
      BY <1>3
    <3> QED
      BY <2>1, <3>1 DEF Email!IInv, Email!AddressOfOne
  <2>3. ~moved' => \A t \in Sessions : req'[t].at # "link"
    BY <1>3, <1>8, <1>9, <2>2
  <2> QED
    BY <2>3 DEF Email!AddressOfOne
<1> QED
  BY <1>7, <1>11, <1>12, <1>13, <1>14, <1>15 DEF Email!IInv

LEMMA EmailAges ==
    ASSUME Email!IInv, NEW i \in 1..2, Email!Age(i)
    PROVE  Email!IInv'
<1>1. codes \in [1..2 -> EmailRows] /\ Email!Ids = 1..2
  BY EmailTyped DEF Email!IInv
<1> DEFINE row == [codes[i] EXCEPT !.recent = FALSE, !.expired = ~codes[i].recent]
<1>2. codes' = [codes EXCEPT ![i] = row] /\ UNCHANGED <<email, verified, wrong, proof, lock, req, hasty, moved>>
  BY <1>1 DEF Email!Age
<1>3. row \in EmailRows /\ row.to = codes[i].to /\ row.status = codes[i].status /\ row.attempts = codes[i].attempts
  BY <1>1 DEF EmailRows
<1> HIDE DEF row
<1>4. /\ codes' \in [1..2 -> EmailRows]
      /\ \A j \in 1..2 : codes'[j].status = codes[j].status /\ codes'[j].attempts = codes[j].attempts
      /\ \A j \in 1..2 : codes'[j].to = codes[j].to \/ codes'[j].to = email
  BY <1>1, <1>2, <1>3
<1>5. /\ Email!Active' = Email!Active
      /\ Email!RowsInOrder' /\ Email!UnusedRows' /\ Email!WrongCounted'
      /\ Email!OneActive' /\ Email!SentThere' /\ Email!VerifiedAddressProved'
  BY <1>2, <1>4, EmailUpdates
<1>6. Email!TypeOK'
  BY <1>2, <1>4, EmailTyped, EmailTypes DEF Email!IInv
<1>7. Email!Compared'
  BY <1>1, <1>2, <1>4, <1>5 DEF Email!IInv, Email!Compared, Email!Active
<1>8. Email!Mailed' /\ Email!OneSend' /\ Email!AddressOfOne'
  BY <1>2, <1>5 DEF Email!IInv, Email!Mailed, Email!OneSend, Email!AddressOfOne, Email!Sending, Email!Busy
<1> QED
  BY <1>5, <1>6, <1>7, <1>8 DEF Email!IInv

LEMMA EmailLocks ==
    ASSUME NoSession \notin Sessions, Email!IInv, NEW s \in Sessions, Email!LockNewest(s)
    PROVE  Email!IInv'
<1>1. /\ req \in [Sessions -> EmailRequests] /\ codes \in [1..2 -> EmailRows] /\ Email!Ids = 1..2
      /\ lock \in [1..2 -> Sessions \cup {NoSession}]
  BY EmailTyped DEF Email!IInv
<1>2. PICK i \in 1..2 : i = Email!Newest /\ i \in Email!Active
  <2>1. Email!Active # {} /\ Email!Active \subseteq 1..2
    BY DEF Email!LockNewest, Email!Active, Email!Ids
  <2>2. \E i \in Email!Active : \A j \in Email!Active : j <= i
    <3>1. CASE 2 \in Email!Active
      BY <2>1, <3>1
    <3>2. CASE 2 \notin Email!Active
      <4>1. \A j \in Email!Active : j = 1
        BY <2>1, <3>2
      <4>2. 1 \in Email!Active
        BY <2>1, <4>1
      <4> QED
        BY <4>1, <4>2
    <3> QED
      BY <3>1, <3>2
  <2>3. Email!Newest \in Email!Active
    BY <2>2 DEF Email!Newest
  <2> QED
    BY <2>1, <2>3
<1> DEFINE r == [req[s] EXCEPT !.at = "compare", !.code = i, !.attempts = codes[i].attempts]
<1>3. /\ req[s].at = "lock" /\ lock[i] = NoSession /\ lock' = [lock EXCEPT ![i] = s]
      /\ req' = [req EXCEPT ![s] = r]
      /\ UNCHANGED <<email, verified, codes, wrong, proof, hasty, moved>>
  BY <1>2 DEF Email!LockNewest
<1>4. r \in EmailRequests /\ r.at = "compare" /\ r.code = i /\ r.attempts = codes[i].attempts
  <2>1. req[s] \in EmailRequests /\ i \in 0..2 /\ codes[i].attempts \in 0..2
    BY <1>1 DEF EmailRows
  <2> QED
    BY <2>1 DEF EmailRequests, Email!Sends
<1> HIDE DEF r
<1>5. req' \in [Sessions -> EmailRequests] /\ \A t \in Sessions : req'[t] = IF t = s THEN r ELSE req[t]
  BY <1>1, <1>3, <1>4
<1>6. /\ lock' \in [1..2 -> Sessions \cup {NoSession}]
      /\ lock'[i] = s /\ \A j \in 1..2 : \A t \in Sessions : lock[j] = t => lock'[j] = t
  BY <1>1, <1>3
<1>7. codes' \in [1..2 -> EmailRows]
  BY <1>1, <1>3
<1>8. /\ Email!Active' = Email!Active
      /\ Email!RowsInOrder' /\ Email!UnusedRows' /\ Email!WrongCounted'
      /\ Email!OneActive' /\ Email!SentThere' /\ Email!VerifiedAddressProved'
  BY <1>3, <1>7, EmailUpdates
<1>9. Email!TypeOK'
  BY <1>3, <1>5, <1>6, <1>7, EmailTyped, EmailTypes DEF Email!IInv
<1>10. Email!Compared'
  BY <1>1, <1>2, <1>3, <1>4, <1>5, <1>6, <1>8 DEF Email!IInv, Email!Compared, Email!Active
<1>11. Email!Mailed'
  BY <1>4, <1>5 DEF Email!IInv, Email!Mailed
<1>12. Email!OneSend'
  <2>1. Email!Sending' = Email!Sending
    BY <1>3, <1>4, <1>5 DEF Email!Sending, Email!Sends
  <2>2. \A t \in Sessions : req'[t].at = "create" => req[t].at = "create"
    BY <1>4, <1>5
  <2> QED
    BY <1>3, <1>8, <2>1, <2>2 DEF Email!IInv, Email!OneSend
<1>13. Email!AddressOfOne'
  <2>1. Email!Busy' = Email!Busy
    BY <1>3, <1>4, <1>5 DEF Email!Busy
  <2>2. \A t \in Sessions : req'[t].at = "link" => req[t].at = "link"
    BY <1>4, <1>5
  <2> QED
    BY <1>3, <2>1, <2>2 DEF Email!IInv, Email!AddressOfOne
<1> QED
  BY <1>8, <1>9, <1>10, <1>11, <1>12, <1>13 DEF Email!IInv

LEMMA EmailCompares ==
    ASSUME NoSession \notin Sessions, Email!IInv, NEW s \in Sessions, Email!WrongCode(s) \/ Email!RightCode(s)
    PROVE  Email!IInv'
<1>1. /\ req \in [Sessions -> EmailRequests] /\ codes \in [1..2 -> EmailRows] /\ Email!Ids = 1..2
      /\ lock \in [1..2 -> Sessions \cup {NoSession}] /\ wrong \in [1..2 -> 0..2] /\ email \in Addresses
      /\ proof \in Addresses
  BY EmailTyped DEF Email!IInv
<1>2. req[s].at = "compare" /\ Email!Guessable(s)
  BY DEF Email!WrongCode, Email!RightCode
<1>3. PICK i \in Email!Active : i = req[s].code /\ lock[i] = s /\ req[s].attempts = codes[i].attempts
  BY <1>2 DEF Email!IInv, Email!Compared
<1>4. i \in 1..2 /\ codes[i].attempts < 2 /\ codes[i].status = "ACTIVE" /\ codes[i].attempts \in 0..2
  BY <1>1, <1>2, <1>3 DEF Email!Guessable, Email!Active, EmailRows
<1>5. /\ req' = [req EXCEPT ![s] = Email!Idle]
      /\ lock' = [j \in 1..2 |-> IF lock[j] = s THEN NoSession ELSE lock[j]]
      /\ UNCHANGED <<email, hasty, moved>>
  BY <1>1 DEF Email!WrongCode, Email!RightCode, Email!End
<1>6. Email!Idle \in EmailRequests /\ Email!Idle.at = "idle"
  BY <1>1, EmailRecords
<1>7. req' \in [Sessions -> EmailRequests] /\ \A t \in Sessions : req'[t] = IF t = s THEN Email!Idle ELSE req[t]
  BY <1>1, <1>5, <1>6
<1>8. /\ lock' \in [1..2 -> Sessions \cup {NoSession}]
      /\ \A j \in 1..2 : \A t \in Sessions : t # s /\ lock[j] = t => lock'[j] = t
  BY <1>1, <1>5
<1>9. Email!Mailed'
  BY <1>6, <1>7 DEF Email!IInv, Email!Mailed
<1>10. /\ Email!Sending' \subseteq Email!Sending
       /\ \A t \in Sessions : req'[t].at = "create" => req[t].at = "create"
  BY <1>6, <1>7 DEF Email!Sending, Email!Sends
<1>11. ~moved => \A t \in Sessions : req[t].at # "link" /\ req'[t].at # "link"
  <2>1. s \in Email!Busy
    BY <1>2 DEF Email!Busy
  <2>2. \A t \in Sessions : req[t].at = "link" => t # s
    BY <1>2
  <2> QED
    BY <1>6, <1>7, <2>1, <2>2 DEF Email!IInv, Email!AddressOfOne
<1>12. Email!AddressOfOne'
  BY <1>5, <1>11 DEF Email!AddressOfOne
<1>13. CASE Email!WrongCode(s)
  <2> DEFINE row == [codes[i] EXCEPT !.attempts = codes[i].attempts + 1]
  <2>1. /\ codes' = [codes EXCEPT ![i] = row] /\ wrong' = [wrong EXCEPT ![i] = wrong[i] + 1]
        /\ UNCHANGED <<verified, proof>>
    BY <1>3, <1>13 DEF Email!WrongCode
  <2>2. /\ row \in EmailRows /\ row.status = "ACTIVE" /\ row.to = codes[i].to
        /\ row.attempts = codes[i].attempts + 1
    <3>1. codes[i] \in EmailRows /\ codes[i].attempts + 1 \in 0..2
      BY <1>1, <1>4
    <3> QED
      BY <1>4, <3>1 DEF EmailRows
  <2> HIDE DEF row
  <2>3. codes' \in [1..2 -> EmailRows] /\ \A j \in 1..2 : codes'[j] = IF j = i THEN row ELSE codes[j]
    BY <1>1, <1>4, <2>1, <2>2
  <2>4. wrong[i] = codes[i].attempts
    BY <1>1, <1>4 DEF Email!IInv, Email!WrongCounted
  <2>5. wrong' \in [1..2 -> 0..2] /\ \A j \in 1..2 : wrong'[j] = IF j = i THEN wrong[i] + 1 ELSE wrong[j]
    BY <1>1, <1>4, <2>1, <2>4
  <2>6. Email!Active' = Email!Active /\ Email!Rows' = Email!Rows
    BY <1>1, <1>4, <2>2, <2>3 DEF Email!Active, Email!Rows
  <2>7. Email!TypeOK'
    BY <1>5, <1>7, <1>8, <2>1, <2>3, <2>5, EmailTyped, EmailTypes DEF Email!IInv
  <2>8. Email!RowsInOrder' /\ Email!OneActive' /\ Email!VerifiedAddressProved'
    BY <1>5, <2>1, <2>6 DEF Email!IInv, Email!RowsInOrder, Email!OneActive, Email!VerifiedAddressProved
  <2>9. Email!UnusedRows' /\ Email!WrongCounted'
    <3>1. i \in Email!Rows
      BY <1>1, <1>4 DEF Email!Rows
    <3>2. Email!UnusedRows'
      BY <1>1, <2>3, <2>6, <3>1 DEF Email!IInv, Email!UnusedRows
    <3>3. Email!WrongCounted'
      BY <1>1, <2>2, <2>3, <2>4, <2>5 DEF Email!IInv, Email!WrongCounted
    <3> QED
      BY <3>2, <3>3
  <2>10. Email!Compared'
    <3>1. ASSUME NEW t \in Sessions, req'[t].at = "compare"
          PROVE  /\ req'[t].code \in Email!Active' /\ lock'[req'[t].code] = t
                 /\ req'[t].attempts = codes'[req'[t].code].attempts
      <4>1. t # s /\ req'[t] = req[t]
        BY <1>6, <1>7, <3>1
      <4>2. /\ req[t].code \in Email!Active /\ lock[req[t].code] = t
            /\ req[t].attempts = codes[req[t].code].attempts
        BY <3>1, <4>1 DEF Email!IInv, Email!Compared
      <4>3. req[t].code # i /\ req[t].code \in 1..2
        BY <1>1, <1>3, <4>1, <4>2 DEF Email!Active
      <4> QED
        BY <1>8, <2>3, <2>6, <4>1, <4>2, <4>3
    <3> QED
      BY <3>1 DEF Email!Compared
  <2>11. Email!OneSend'
    BY <1>5, <1>10, <2>6 DEF Email!IInv, Email!OneSend
  <2>12. Email!SentThere'
    <3>1. \A j \in 1..2 : codes'[j].to = codes[j].to
      BY <2>2, <2>3
    <3> QED
      BY <1>1, <1>5, <2>6, <3>1 DEF Email!IInv, Email!SentThere, Email!Active
  <2> QED
    BY <1>9, <1>12, <2>7, <2>8, <2>9, <2>10, <2>11, <2>12 DEF Email!IInv
<1>14. CASE Email!RightCode(s)
  <2>1. /\ Email!Locked \subseteq {i} /\ verified' = TRUE /\ proof' = codes[i].to
        /\ codes' = [j \in 1..2 |-> Email!NoCode] /\ wrong' = [j \in 1..2 |-> 0]
    BY <1>1, <1>3, <1>14 DEF Email!RightCode
  <2>2. Email!NoCode \in EmailRows /\ Email!NoCode.status = "NONE" /\ Email!NoCode.attempts = 0
    BY <1>1, EmailRecords
  <2>3. codes' \in [1..2 -> EmailRows] /\ wrong' \in [1..2 -> 0..2] /\ codes[i].to \in Addresses
    BY <1>1, <1>4, <2>1, <2>2 DEF EmailRows
  <2>4. Email!Active' = {} /\ Email!Rows' = {}
    BY <1>1, <2>1, <2>2 DEF Email!Active, Email!Rows
  <2>5. Email!TypeOK'
    BY <1>5, <1>7, <1>8, <2>1, <2>3, EmailTyped, EmailTypes DEF Email!IInv
  <2>6. Email!RowsInOrder' /\ Email!OneActive' /\ Email!SentThere'
    BY <2>4 DEF Email!RowsInOrder, Email!OneActive, Email!SentThere
  <2>7. Email!UnusedRows' /\ Email!WrongCounted'
    BY <1>1, <2>1, <2>2 DEF Email!UnusedRows, Email!WrongCounted
  <2>8. Email!Compared'
    <3>1. ASSUME NEW t \in Sessions, req'[t].at = "compare" PROVE FALSE
      <4>1. t # s /\ req'[t] = req[t]
        BY <1>6, <1>7, <3>1
      <4>2. req[t].code \in Email!Active /\ lock[req[t].code] = t
        BY <3>1, <4>1 DEF Email!IInv, Email!Compared
      <4>3. req[t].code \in Email!Locked
        BY <4>2 DEF Email!Active, Email!Locked
      <4> QED
        BY <1>3, <2>1, <4>1, <4>2, <4>3
    <3> QED
      BY <3>1 DEF Email!Compared
  <2>9. Email!OneSend'
    BY <1>5, <1>10, <2>4 DEF Email!IInv, Email!OneSend
  <2>10. Email!VerifiedAddressProved'
    BY <1>3, <1>5, <2>1 DEF Email!IInv, Email!SentThere, Email!VerifiedAddressProved
  <2> QED
    BY <1>9, <1>12, <2>5, <2>6, <2>7, <2>8, <2>9, <2>10 DEF Email!IInv
<1> QED
  BY <1>13, <1>14

LEMMA EmailSteps ==
    ASSUME NoSession \notin Sessions, Email!IInv, Email!Next
    PROVE  Email!IInv'
<1>1. ASSUME NEW s \in Sessions, Email!AskResend(s) PROVE Email!IInv'
  BY <1>1, EmailBegins, EmailTyped DEF Email!AskResend, Email!IInv
<1>2. ASSUME NEW s \in Sessions, NEW a \in Addresses, Email!AskLink(s, a) \/ Email!AskVerify(s, a) PROVE Email!IInv'
  BY <1>2, EmailBegins DEF Email!AskLink, Email!AskVerify
<1> QED
  BY <1>1, <1>2, EmailSends, EmailInvalidates, EmailCreates, EmailMails, EmailLocks, EmailCompares, EmailAges
     DEF Email!Next, Email!Ids

LEMMA EmailProved ==
    ASSUME Email!IInv
    PROVE  Email!GuessesBounded /\ Email!VerifiedAddressProved
<1>1. Email!Cardinality(Email!Active) = Cardinality(Email!Active)
  BY DEF Email!Cardinality, Cardinality
<1>2. ASSUME ~hasty PROVE Cardinality(Email!Active) <= 1
  <2>1. \A i, j \in Email!Active : i = j
    BY <1>2 DEF Email!IInv, Email!OneActive
  <2> QED
    BY <2>1, AtMostOne
<1> QED
  BY <1>1, <1>2 DEF Email!IInv, Email!GuessesBounded

LEMMA EmailStarts ==
    ASSUME Email!Init
    PROVE  Email!IInv
<1>1. /\ email \in Addresses /\ proof = email /\ verified = FALSE /\ hasty = FALSE /\ moved = FALSE
      /\ codes = [i \in 1..2 |-> Email!NoCode] /\ wrong = [i \in 1..2 |-> 0]
      /\ lock = [i \in 1..2 |-> NoSession] /\ req = [s \in Sessions |-> Email!Idle] /\ Email!Ids = 1..2
  BY DEF Email!Init, Email!Ids
<1>2. /\ Email!NoCode \in EmailRows /\ Email!NoCode.status = "NONE" /\ Email!NoCode.attempts = 0
      /\ Email!Idle \in EmailRequests /\ Email!Idle.at = "idle"
  BY <1>1, EmailRecords
<1>3. Email!TypeOK
  <2>1. codes \in [1..2 -> EmailRows] /\ req \in [Sessions -> EmailRequests] /\ wrong \in [1..2 -> 0..2]
        /\ lock \in [1..2 -> Sessions \cup {NoSession}]
    BY <1>1, <1>2
  <2> QED
    BY <1>1, <2>1 DEF Email!TypeOK, EmailRows, EmailRequests
<1>4. Email!Active = {} /\ Email!Rows = {} /\ Email!Sending = {}
  BY <1>1, <1>2 DEF Email!Active, Email!Rows, Email!Sending, Email!Sends
<1>5. Email!RowsInOrder /\ Email!UnusedRows /\ Email!WrongCounted
  BY <1>1, <1>2, <1>4 DEF Email!RowsInOrder, Email!UnusedRows, Email!WrongCounted
<1>6. Email!Compared /\ Email!Mailed /\ Email!OneSend /\ Email!OneActive
  BY <1>1, <1>2, <1>4 DEF Email!Compared, Email!Mailed, Email!OneSend, Email!OneActive
<1>7. Email!SentThere /\ Email!AddressOfOne /\ Email!VerifiedAddressProved
  BY <1>1, <1>2, <1>4 DEF Email!SentThere, Email!AddressOfOne, Email!VerifiedAddressProved
<1> QED
  BY <1>3, <1>5, <1>6, <1>7 DEF Email!IInv

LEMMA EmailStands ==
    ASSUME Email!IInv, UNCHANGED <<email, verified, codes, wrong, proof, lock, req, hasty, moved>>
    PROVE  Email!IInv'
  BY DEF Email!IInv, Email!TypeOK, Email!RowsInOrder, Email!UnusedRows, Email!WrongCounted, Email!Compared,
         Email!Mailed, Email!OneSend, Email!OneActive, Email!SentThere, Email!AddressOfOne,
         Email!VerifiedAddressProved, Email!Active, Email!Rows, Email!Busy, Email!Sending

-----------------------------------------------------------------------------
(* Google sign-in: the unique indexes on identities.                       *)
CONSTANTS Users, NoUser
VARIABLES user, identities, signed, edited
Google == INSTANCE GoogleSignIn WITH Subjects <- {"g", "h"}, Emails <- {"a", "b"},
              EmailOf <- [g \in {"g", "h"} |-> IF g = "g" THEN "a" ELSE "b"]

GoogleRows == [exists: BOOLEAN, deleted: BOOLEAN, active: BOOLEAN,
               email: {"a", "b"} \cup {Google!NoEmail}, verified: BOOLEAN]
GoogleRequests == [op: {"idle", "register", "start", "link", "edit"}, user: Users \cup {NoUser},
                   subject: {"g", "h"} \cup {""}, email: {"a", "b"} \cup {Google!NoEmail}]

LEMMA GoogleRecords ==
    /\ Google!Idle \in GoogleRequests /\ Google!Idle.op = "idle"
    /\ Google!NoRow \in GoogleRows
  BY DEF Google!Idle, Google!NoRow, GoogleRows, GoogleRequests, Google!NoEmail

LEMMA GoogleTyped ==
    ASSUME Google!TypeOK
    PROVE  /\ user \in [Users -> GoogleRows]
           /\ identities \subseteq [subject: {"g", "h"}, user: Users]
           /\ signed \in [{"g", "h"} -> SUBSET Users] /\ proved \in [Users -> SUBSET {"a", "b"}]
           /\ edited \subseteq Users /\ req \in [Sessions -> GoogleRequests]
  BY DEF Google!TypeOK, GoogleRows, GoogleRequests

LEMMA GoogleTypes ==
    ASSUME user' \in [Users -> GoogleRows],
           identities' \subseteq [subject: {"g", "h"}, user: Users],
           signed' \in [{"g", "h"} -> SUBSET Users], proved' \in [Users -> SUBSET {"a", "b"}],
           edited' \subseteq Users, req' \in [Sessions -> GoogleRequests]
    PROVE  Google!TypeOK'
  BY DEF Google!TypeOK, GoogleRows, GoogleRequests

\* A handler begins, or ends without having written.
LEMMA GoogleHandlers ==
    ASSUME Google!IInv, NEW s \in Sessions, NEW r \in GoogleRequests, req' = [req EXCEPT ![s] = r],
           UNCHANGED <<user, identities, signed, proved, edited>>,
           r.op \in {"register", "link"} => r.subject \in {"g", "h"},
           r.op \in {"link", "edit"} => r.user \in Users,
           r.op = "edit" => r.email \in {"a", "b"}, r.op # "start"
    PROVE  Google!IInv'
<1>1. Google!TypeOK'
  BY GoogleTyped, GoogleTypes DEF Google!IInv
<1>2. Google!HandlersKnow'
  BY GoogleTyped DEF Google!IInv, Google!HandlersKnow, Google!LinkedTo
<1>3. Google!IdentitiesApart' /\ Google!SignedToLinked' /\ Google!EmailsApart' /\ Google!VerifiedByGoogle'
  BY DEF Google!IInv, Google!IdentitiesApart, Google!SignedToLinked, Google!EmailsApart, Google!VerifiedByGoogle,
         Google!LinkedTo, Google!Live
<1> QED
  BY <1>1, <1>2, <1>3 DEF Google!IInv

\* An identity is added, and is still what the handlers know.
LEMMA IdentityAdded ==
    ASSUME Google!IInv, NEW g \in {"g", "h"}, NEW u \in Users, Google!MayLink(g, u),
           identities' = identities \cup {[subject |-> g, user |-> u]}
    PROVE  /\ identities' \subseteq [subject: {"g", "h"}, user: Users]
           /\ Google!IdentitiesApart'
           /\ u \in Google!LinkedTo(g)'
           /\ \A h : Google!LinkedTo(h) \subseteq Google!LinkedTo(h)'
<1> DEFINE new == [subject |-> g, user |-> u]
<1>1. new \in [subject: {"g", "h"}, user: Users] /\ new.subject = g /\ new.user = u
  OBVIOUS
<1>2. identities \subseteq [subject: {"g", "h"}, user: Users]
  BY GoogleTyped DEF Google!IInv
<1>3. \A i \in identities : i.subject # g /\ i.user # u
  BY DEF Google!MayLink, Google!LinkedTo, Google!Links
<1> HIDE DEF new
<1>4. identities' = identities \cup {new}
  BY DEF new
<1>5. Google!IdentitiesApart'
  BY <1>1, <1>3, <1>4 DEF Google!IInv, Google!IdentitiesApart
<1>6. u \in Google!LinkedTo(g)'
  BY <1>1, <1>4 DEF Google!LinkedTo
<1>7. \A h : Google!LinkedTo(h) \subseteq Google!LinkedTo(h)'
  BY <1>4 DEF Google!LinkedTo
<1> QED
  BY <1>1, <1>2, <1>4, <1>5, <1>6, <1>7

LEMMA GoogleSteps ==
    ASSUME Google!IInv, Google!Next
    PROVE  Google!IInv'
<1>1. ASSUME NEW g \in {"g", "h"}, Google!SignIn(g) PROVE Google!IInv'
  <2>1. PICK u \in Google!LinkedTo(g) : signed' = [signed EXCEPT ![g] = signed[g] \cup {u}]
    BY <1>1 DEF Google!SignIn
  <2>2. UNCHANGED <<user, identities, proved, edited, req>>
    BY <1>1 DEF Google!SignIn
  <2>3. u \in Users
    BY <2>1, GoogleTyped DEF Google!IInv, Google!LinkedTo
  <2>4. Google!TypeOK'
    BY <2>1, <2>2, <2>3, GoogleTyped, GoogleTypes DEF Google!IInv
  <2>5. Google!SignedToLinked'
    BY <2>1, <2>2, GoogleTyped DEF Google!IInv, Google!SignedToLinked, Google!LinkedTo
  <2>6. Google!IdentitiesApart' /\ Google!HandlersKnow' /\ Google!EmailsApart' /\ Google!VerifiedByGoogle'
    BY <2>2 DEF Google!IInv, Google!IdentitiesApart, Google!HandlersKnow, Google!EmailsApart,
                Google!VerifiedByGoogle, Google!LinkedTo, Google!Live
  <2> QED
    BY <2>4, <2>5, <2>6 DEF Google!IInv
<1>2. ASSUME NEW s \in Sessions, NEW g \in {"g", "h"}, Google!Register(s, g) PROVE Google!IInv'
  <2> DEFINE r == [Google!Idle EXCEPT !.op = "register", !.subject = g]
  <2>1. req' = [req EXCEPT ![s] = r] /\ UNCHANGED <<user, identities, signed, proved, edited>>
    BY <1>2 DEF Google!Register, Google!Begin
  <2>2. r \in GoogleRequests /\ r.op = "register" /\ r.subject = g
    BY GoogleRecords DEF GoogleRequests
  <2> HIDE DEF r
  <2> QED
    BY <2>1, <2>2, GoogleHandlers
<1>3. ASSUME NEW s \in Sessions, NEW u \in Users, NEW g \in {"g", "h"}, Google!Link(s, u, g) PROVE Google!IInv'
  <2> DEFINE r == [Google!Idle EXCEPT !.op = "link", !.subject = g, !.user = u]
  <2>1. req' = [req EXCEPT ![s] = r] /\ UNCHANGED <<user, identities, signed, proved, edited>>
    BY <1>3 DEF Google!Link, Google!Begin
  <2>2. r \in GoogleRequests /\ r.op = "link" /\ r.subject = g /\ r.user = u
    BY GoogleRecords DEF GoogleRequests
  <2> HIDE DEF r
  <2> QED
    BY <2>1, <2>2, GoogleHandlers
<1>4. ASSUME NEW s \in Sessions, NEW u \in Users, NEW e \in {"a", "b"}, Google!EditEmail(s, u, e) PROVE Google!IInv'
  <2> DEFINE r == [Google!Idle EXCEPT !.op = "edit", !.user = u, !.email = e]
  <2>1. req' = [req EXCEPT ![s] = r] /\ UNCHANGED <<user, identities, signed, proved, edited>>
    BY <1>4 DEF Google!EditEmail, Google!Begin
  <2>2. r \in GoogleRequests /\ r.op = "edit" /\ r.user = u /\ r.email = e
    BY GoogleRecords DEF GoogleRequests
  <2> HIDE DEF r
  <2> QED
    BY <2>1, <2>2, GoogleHandlers
<1>5. ASSUME NEW s \in Sessions, Google!Abandon(s) PROVE Google!IInv'
  <2>1. req' = [req EXCEPT ![s] = Google!Idle] /\ UNCHANGED <<user, identities, signed, proved, edited>>
    BY <1>5 DEF Google!Abandon, Google!End
  <2> QED
    BY <2>1, GoogleRecords, GoogleHandlers
<1>6. ASSUME NEW s \in Sessions, Google!CreateAccount(s) PROVE Google!IInv'
  <2>0. PICK g \in {"g", "h"} : g = req[s].subject
    BY <1>6 DEF Google!CreateAccount, Google!IInv, Google!HandlersKnow
  <2> DEFINE e == IF g = "g" THEN "a" ELSE "b"
  <2>1. g \in {"g", "h"} /\ e \in {"a", "b"}
    OBVIOUS
  <2>2. CASE Google!End(s) /\ UNCHANGED <<user, identities, proved, signed, edited>>
    BY <2>2, GoogleRecords, GoogleHandlers DEF Google!End
  <2>3. ASSUME NEW u \in Users, ~Google!Claimed(e), Google!MayLink(g, u),
               user' = [user EXCEPT ![u] = [exists |-> TRUE, deleted |-> FALSE, active |-> TRUE,
                                            email |-> e, verified |-> TRUE]],
               identities' = identities \cup {[subject |-> g, user |-> u]},
               proved' = [proved EXCEPT ![u] = {e}],
               req' = [req EXCEPT ![s] = [Google!Idle EXCEPT !.op = "start", !.subject = g, !.user = u]],
               UNCHANGED <<signed, edited>>
        PROVE  Google!IInv'
    <3> DEFINE row == [exists |-> TRUE, deleted |-> FALSE, active |-> TRUE, email |-> e, verified |-> TRUE]
               r == [Google!Idle EXCEPT !.op = "start", !.subject = g, !.user = u]
    <3>1. row \in GoogleRows /\ row.exists = TRUE /\ row.deleted = FALSE /\ row.email = e
      BY <2>1 DEF GoogleRows
    <3>2. r \in GoogleRequests /\ r.op = "start" /\ r.subject = g /\ r.user = u
      BY <2>1, GoogleRecords DEF GoogleRequests
    <3>3. user' = [user EXCEPT ![u] = row] /\ req' = [req EXCEPT ![s] = r]
      BY <2>3
    <3> HIDE DEF row, r, e
    <3>4. /\ identities' \subseteq [subject: {"g", "h"}, user: Users] /\ Google!IdentitiesApart'
          /\ u \in Google!LinkedTo(g)' /\ \A h : Google!LinkedTo(h) \subseteq Google!LinkedTo(h)'
      BY <2>1, <2>3, IdentityAdded
    <3>5. Google!TypeOK'
      <4>1. user' \in [Users -> GoogleRows] /\ req' \in [Sessions -> GoogleRequests]
        BY <3>1, <3>2, <3>3, GoogleTyped DEF Google!IInv
      <4>2. proved' \in [Users -> SUBSET {"a", "b"}]
        BY <2>1, <2>3, GoogleTyped DEF Google!IInv
      <4>3. signed' \in [{"g", "h"} -> SUBSET Users] /\ edited' \subseteq Users
        BY <2>3, GoogleTyped DEF Google!IInv
      <4> QED
        BY <3>4, <4>1, <4>2, <4>3, GoogleTypes
    <3>6. Google!SignedToLinked'
      BY <2>3, <3>4 DEF Google!IInv, Google!SignedToLinked
    <3>7. Google!HandlersKnow'
      BY <2>1, <2>3, <3>2, <3>3, <3>4, GoogleTyped DEF Google!IInv, Google!HandlersKnow
    <3>8. Google!EmailsApart'
      <4>1. \A v \in Users : v # u => user'[v] = user[v]
        BY <3>3, GoogleTyped DEF Google!IInv
      <4>2. user'[u] = row
        BY <3>3, GoogleTyped DEF Google!IInv
      <4>3. \A v \in Google!Live : user[v].email # e \/ e = Google!NoEmail
        BY <2>3 DEF Google!Claimed
      <4> QED
        BY <3>1, <4>1, <4>2, <4>3 DEF Google!IInv, Google!EmailsApart, Google!Live
    <3>9. Google!VerifiedByGoogle'
      <4>1. \A v \in Users : v # u => user'[v] = user[v] /\ proved'[v] = proved[v]
        BY <2>3, <3>3, GoogleTyped DEF Google!IInv
      <4>2. user'[u] = row /\ proved'[u] = {e} /\ edited' = edited
        BY <2>3, <3>3, GoogleTyped DEF Google!IInv
      <4> QED
        BY <3>1, <4>1, <4>2 DEF Google!IInv, Google!VerifiedByGoogle
    <3> QED
      BY <3>4, <3>5, <3>6, <3>7, <3>8, <3>9 DEF Google!IInv
  <2>4. e = [i \in {"g", "h"} |-> IF i = "g" THEN "a" ELSE "b"][g]
    BY <2>1
  <2> QED
    BY <1>6, <2>0, <2>2, <2>3, <2>4 DEF Google!CreateAccount
<1>7. ASSUME NEW s \in Sessions, Google!StartSession(s) PROVE Google!IInv'
  <2> DEFINE g == req[s].subject
             u == req[s].user
  <2>1. g \in {"g", "h"} /\ u \in Users /\ u \in Google!LinkedTo(g)
    BY <1>7 DEF Google!StartSession, Google!IInv, Google!HandlersKnow
  <2>2. /\ signed' = [signed EXCEPT ![g] = signed[g] \cup {u}] /\ req' = [req EXCEPT ![s] = Google!Idle]
        /\ UNCHANGED <<user, identities, proved, edited>>
    BY <1>7 DEF Google!StartSession, Google!End
  <2> HIDE DEF g, u
  <2>3. Google!TypeOK'
    BY <2>1, <2>2, GoogleRecords, GoogleTyped, GoogleTypes DEF Google!IInv
  <2>4. Google!SignedToLinked'
    BY <2>1, <2>2, GoogleTyped DEF Google!IInv, Google!SignedToLinked, Google!LinkedTo
  <2>5. Google!HandlersKnow'
    BY <2>2, GoogleRecords, GoogleTyped DEF Google!IInv, Google!HandlersKnow, Google!LinkedTo
  <2>6. Google!IdentitiesApart' /\ Google!EmailsApart' /\ Google!VerifiedByGoogle'
    BY <2>2 DEF Google!IInv, Google!IdentitiesApart, Google!EmailsApart, Google!VerifiedByGoogle, Google!Live
  <2> QED
    BY <2>3, <2>4, <2>5, <2>6 DEF Google!IInv
<1>8. ASSUME NEW s \in Sessions, Google!AddIdentity(s) PROVE Google!IInv'
  <2> DEFINE g == req[s].subject
             u == req[s].user
  <2>1. g \in {"g", "h"} /\ u \in Users
    BY <1>8 DEF Google!AddIdentity, Google!IInv, Google!HandlersKnow
  <2>2. req' = [req EXCEPT ![s] = Google!Idle] /\ UNCHANGED <<user, signed, proved, edited>>
    BY <1>8 DEF Google!AddIdentity, Google!End
  <2>3. CASE ~Google!MayLink(g, u)
    BY <1>8, <2>2, <2>3, GoogleRecords, GoogleHandlers DEF Google!AddIdentity
  <2>4. CASE Google!MayLink(g, u)
    <3>1. identities' = identities \cup {[subject |-> g, user |-> u]}
      BY <1>8, <2>4 DEF Google!AddIdentity
    <3> HIDE DEF g, u
    <3>2. /\ identities' \subseteq [subject: {"g", "h"}, user: Users] /\ Google!IdentitiesApart'
          /\ \A h : Google!LinkedTo(h) \subseteq Google!LinkedTo(h)'
      BY <2>1, <2>4, <3>1, IdentityAdded
    <3>3. Google!TypeOK'
      BY <2>2, <3>2, GoogleRecords, GoogleTyped, GoogleTypes DEF Google!IInv
    <3>4. Google!SignedToLinked'
      BY <2>2, <3>2 DEF Google!IInv, Google!SignedToLinked
    <3>5. Google!HandlersKnow'
      BY <2>2, <3>2, GoogleRecords, GoogleTyped DEF Google!IInv, Google!HandlersKnow
    <3>6. Google!EmailsApart' /\ Google!VerifiedByGoogle'
      BY <2>2 DEF Google!IInv, Google!EmailsApart, Google!VerifiedByGoogle, Google!Live
    <3> QED
      BY <3>2, <3>3, <3>4, <3>5, <3>6 DEF Google!IInv
  <2> QED
    BY <2>3, <2>4
<1>9. ASSUME NEW s \in Sessions, Google!SaveEmail(s) PROVE Google!IInv'
  <2> DEFINE u == req[s].user
             e == req[s].email
  <2>1. u \in Users /\ e \in {"a", "b"}
    BY <1>9 DEF Google!SaveEmail, Google!IInv, Google!HandlersKnow
  <2>2. req' = [req EXCEPT ![s] = Google!Idle] /\ UNCHANGED <<identities, signed, proved>>
    BY <1>9 DEF Google!SaveEmail, Google!End
  <2>3. CASE UNCHANGED <<user, edited>>
    BY <2>2, <2>3, GoogleRecords, GoogleHandlers
  <2>4. CASE /\ u \in Google!Live => \A v \in Google!Live \ {u} : user[v].email # e
             /\ user' = [user EXCEPT ![u].email = e] /\ edited' = edited \cup {u}
    <3> DEFINE row == [user[u] EXCEPT !.email = e]
    <3>1. /\ row \in GoogleRows /\ row.email = e
          /\ row.exists = user[u].exists /\ row.deleted = user[u].deleted
      BY <2>1, GoogleTyped DEF Google!IInv, GoogleRows
    <3>2. user' = [user EXCEPT ![u] = row]
      BY <2>4
    <3> HIDE DEF row, u, e
    <3>3. user'[u] = row /\ \A v \in Users : v # u => user'[v] = user[v]
      BY <2>1, <3>2, GoogleTyped DEF Google!IInv
    <3>4. Google!TypeOK'
      BY <2>1, <2>2, <2>4, <3>1, <3>2, GoogleRecords, GoogleTyped, GoogleTypes DEF Google!IInv
    <3>5. Google!SignedToLinked' /\ Google!IdentitiesApart'
      BY <2>2 DEF Google!IInv, Google!SignedToLinked, Google!IdentitiesApart, Google!LinkedTo
    <3>6. Google!HandlersKnow'
      BY <2>2, GoogleRecords, GoogleTyped DEF Google!IInv, Google!HandlersKnow, Google!LinkedTo
    <3>7. Google!Live' = Google!Live
      BY <3>1, <3>3 DEF Google!Live
    <3>8. Google!EmailsApart'
      BY <2>4, <3>1, <3>3, <3>7 DEF Google!IInv, Google!EmailsApart, Google!Live
    <3>9. Google!VerifiedByGoogle'
      BY <2>2, <2>4, <3>3 DEF Google!IInv, Google!VerifiedByGoogle
    <3> QED
      BY <3>4, <3>5, <3>6, <3>8, <3>9 DEF Google!IInv
  <2> QED
    BY <1>9, <2>3, <2>4 DEF Google!SaveEmail
<1>10. ASSUME NEW u \in Users, Google!Delete(u) \/ Google!Suspend(u) PROVE Google!IInv'
  <2> DEFINE row == user'[u]
  <2>1. UNCHANGED <<identities, signed, proved, edited, req>>
    BY <1>10 DEF Google!Delete, Google!Suspend
  <2>2. /\ row \in GoogleRows /\ row.email = user[u].email /\ row.verified = user[u].verified
        /\ row.exists = user[u].exists /\ (user[u].deleted => row.deleted)
    <3>1. CASE Google!Delete(u)
      BY <3>1, GoogleTyped DEF Google!Delete, Google!IInv, GoogleRows
    <3>2. CASE Google!Suspend(u)
      BY <3>2, GoogleTyped DEF Google!Suspend, Google!IInv, GoogleRows
    <3> QED
      BY <1>10, <3>1, <3>2
  <2>3. user' = [user EXCEPT ![u] = row]
    BY <1>10, GoogleTyped DEF Google!Delete, Google!Suspend, Google!IInv
  <2> HIDE DEF row
  <2>4. user'[u] = row /\ \A v \in Users : v # u => user'[v] = user[v]
    BY <2>3, GoogleTyped DEF Google!IInv
  <2>5. Google!TypeOK'
    BY <2>1, <2>2, <2>3, GoogleTyped, GoogleTypes DEF Google!IInv
  <2>6. Google!IdentitiesApart' /\ Google!SignedToLinked' /\ Google!HandlersKnow'
    BY <2>1 DEF Google!IInv, Google!IdentitiesApart, Google!SignedToLinked, Google!HandlersKnow, Google!LinkedTo
  <2>7. Google!EmailsApart'
    <3>1. Google!Live' \subseteq Google!Live
      BY <2>2, <2>4 DEF Google!Live
    <3>2. \A v \in Users : user'[v].email = user[v].email
      BY <2>2, <2>4
    <3> QED
      BY <3>1, <3>2 DEF Google!IInv, Google!EmailsApart, Google!Live
  <2>8. Google!VerifiedByGoogle'
    BY <2>1, <2>2, <2>4 DEF Google!IInv, Google!VerifiedByGoogle
  <2> QED
    BY <2>5, <2>6, <2>7, <2>8 DEF Google!IInv
<1> QED
  BY <1>1, <1>2, <1>3, <1>4, <1>5, <1>6, <1>7, <1>8, <1>9, <1>10 DEF Google!Next

LEMMA GoogleOpensOne ==
    ASSUME Google!IInv
    PROVE  Google!OneAccountEach /\ Google!VerifiedByGoogle
<1>1. \A S : Google!Cardinality(S) = Cardinality(S)
  BY DEF Google!Cardinality, Cardinality
<1>2. ASSUME NEW g \in {"g", "h"}
      PROVE  Google!Cardinality(signed[g]) <= 1 /\ signed[g] \subseteq Google!LinkedTo(g)
  <2>1. signed[g] \subseteq Google!LinkedTo(g)
    BY DEF Google!IInv, Google!SignedToLinked
  <2>2. \A x, y \in Google!LinkedTo(g) : x = y
    BY DEF Google!IInv, Google!IdentitiesApart, Google!LinkedTo
  <2> QED
    BY <1>1, <2>1, <2>2, AtMostOne
<1>3. ASSUME NEW u \in Users PROVE Google!Cardinality(Google!Links(u)) <= 1
  <2>1. \A x, y \in Google!Links(u) : x = y
    BY DEF Google!IInv, Google!IdentitiesApart, Google!Links
  <2> QED
    BY <1>1, <2>1, AtMostOne
<1> QED
  BY <1>2, <1>3 DEF Google!IInv, Google!OneAccountEach

LEMMA GoogleStarts ==
    ASSUME Google!Init
    PROVE  Google!IInv
<1>1. /\ identities = {} /\ edited = {} /\ signed = [g \in {"g", "h"} |-> {}]
      /\ proved = [u \in Users |-> {}] /\ req = [s \in Sessions |-> Google!Idle]
  BY DEF Google!Init
<1>2. user \in [Users -> GoogleRows] /\ \A u \in Users : user[u].verified = FALSE
  <2> DEFINE ByPhone == [Google!NoRow EXCEPT !.exists = TRUE, !.active = TRUE]
             ByEmail(a, e) == [exists |-> TRUE, deleted |-> FALSE, active |-> a, email |-> e, verified |-> FALSE]
             Rows == {Google!NoRow, ByPhone} \cup {ByEmail(a, e) : a \in BOOLEAN, e \in {"a", "b"}}
             Fits(r) == r \in GoogleRows /\ r.verified = FALSE
  <2>1. user \in [Users -> Rows]
    BY DEF Google!Init
  <2>2. Fits(Google!NoRow) /\ Fits(ByPhone)
    BY DEF GoogleRows, Google!NoRow
  <2>3. ASSUME NEW a \in BOOLEAN, NEW e \in {"a", "b"} PROVE Fits(ByEmail(a, e))
    BY DEF GoogleRows
  <2>4. \A r \in Rows : Fits(r)
    <3> HIDE DEF ByPhone, ByEmail, Fits
    <3> QED
      BY <2>2, <2>3
  <2>5. \A u \in Users : Fits(user[u])
    <3> HIDE DEF Rows, Fits
    <3> QED
      BY <2>1, <2>4
  <2> QED
    BY <2>1, <2>5
<1>3. Google!TypeOK
  BY <1>1, <1>2, GoogleRecords DEF Google!TypeOK, GoogleRows, GoogleRequests
<1>4. Google!IdentitiesApart /\ Google!SignedToLinked /\ Google!VerifiedByGoogle
  BY <1>1, <1>2 DEF Google!IdentitiesApart, Google!SignedToLinked, Google!VerifiedByGoogle
<1>5. Google!EmailsApart
  BY DEF Google!Init, Google!EmailsApart, Google!Live
<1>6. Google!HandlersKnow
  BY <1>1, GoogleRecords DEF Google!HandlersKnow
<1> QED
  BY <1>3, <1>4, <1>5, <1>6 DEF Google!IInv

LEMMA GoogleStands ==
    ASSUME Google!IInv, UNCHANGED <<user, identities, signed, proved, edited, req>>
    PROVE  Google!IInv'
  BY DEF Google!IInv, Google!TypeOK, Google!IdentitiesApart, Google!SignedToLinked, Google!EmailsApart,
         Google!HandlersKnow, Google!VerifiedByGoogle, Google!LinkedTo, Google!Live

-----------------------------------------------------------------------------
(* The account roles of a user, and the requests for their verification.   *)
CONSTANTS Candidates, Roles, Base, MaxRequests, MaxTime
VARIABLES now, held, requests, userLock, requestLock, roleLock, irregular,
          admin, created, holders, deleted, overlapped
Account == INSTANCE AccountRoles WITH Accounts <- Candidates

\* What is assumed of their constants.
RolesSetting ==
    /\ NoSession \notin Sessions /\ Base \notin Roles /\ NoUser \notin Candidates
    /\ MaxRequests \in Nat /\ MaxTime \in Nat

LEMMA RolesByCardinality ==
    ASSUME NEW S
    PROVE  Account!Cardinality(S) = Cardinality(S)
  BY DEF Account!Cardinality, Cardinality

LEMMA RoleTypes ==
    /\ Account!Idle.at = "idle" /\ Account!Idle.role = Base /\ Account!Idle.id = 0 /\ Account!Idle.time = 0 /\ Account!Idle.seen = {} /\ Account!Idle.new = {}
    /\ Account!NoAsk.status = "NONE" /\ Account!NoRow.on = FALSE /\ Account!NoRow.at = 0 /\ Account!NoRow.verified = FALSE
  BY DEF Account!Idle, Account!NoAsk, Account!NoRow

LEMMA RolesBegin ==
    ASSUME RolesSetting, Account!AccountInit
    PROVE  Account!ReviewIInv /\ Account!RegularIInv
<1>1. Account!AccountTypeOK
  <2>1. now \in 1..MaxTime + 1 /\ 0 \in 0..MaxTime /\ 0 \in 0..MaxRequests
    BY DEF RolesSetting, Account!AccountInit
  <2>2. Account!NoRow \in Account!RoleRows /\ [Account!NoRow EXCEPT !.on = TRUE] \in Account!RoleRows /\ Account!NoAsk \in Account!RequestRows /\ Account!Idle \in Account!Handlers
    BY <2>1 DEF Account!NoRow, Account!NoAsk, Account!Idle, Account!RoleRows, Account!RequestRows,
       Account!Handlers, Account!AllRoles
  <2> QED
    BY <2>1, <2>2 DEF Account!AccountInit, Account!AccountTypeOK
<1>2. Account!Made = {} /\ Account!Pending = {}
  BY RoleTypes DEF Account!AccountInit, Account!Made, Account!Pending
<1>3. Account!Made = 1..Account!Cardinality(Account!Made)
  <2>1. Account!Cardinality(Account!Made) = 0
    BY <1>2, FS_EmptySet, RolesByCardinality
  <2> QED
    BY <1>2, <2>1
<1>4. \A s \in Sessions : req[s].at = "idle" /\ userLock # s /\ \A i \in Account!Ids : requestLock[i] # s
  BY RoleTypes DEF RolesSetting, Account!AccountInit
<1>5. Account!UserLocked /\ Account!RequestsLocked /\ Account!RolesLocked
  BY <1>4 DEF Account!UserLocked, Account!RequestsLocked, Account!RolesLocked, Account!UserSteps,
     Account!ReviewSteps
<1>6. Account!RequestsNumbered
  BY <1>2, <1>3, <1>4 DEF Account!RequestsNumbered
<1>7. \A r \in Account!AllRoles : ~held[r].verified
  BY RoleTypes DEF Account!AccountInit, Account!NoRow
<1>8. Account!VerifiedByReview /\ Account!Held \subseteq {Base}
  BY <1>7, RoleTypes DEF Account!VerifiedByReview, Account!AllRoles, Account!AccountInit, Account!Held
<1>9. Account!TimesDiffer
  BY <1>2, <1>4 DEF Account!TimesDiffer, Account!Began, Account!UserSteps
<1>10. Account!OneSelected /\ Account!RolesRequested
  BY <1>8 DEF RolesSetting, Account!OneSelected, Account!RolesRequested
<1>11. Account!Selecting /\ Account!Staging /\ Account!PendingLast
  BY <1>2, <1>4 DEF Account!Selecting, Account!Staging, Account!PendingLast
<1> QED
  BY <1>1, <1>5, <1>6, <1>8, <1>9, <1>10, <1>11 DEF Account!ReviewIInv, Account!RegularIInv

LEMMA RoleValues ==
    ASSUME RolesSetting
    PROVE  /\ 0 \in 0..MaxTime /\ 0 \in 0..MaxRequests
           /\ Account!NoRow \in Account!RoleRows /\ Account!NoAsk \in Account!RequestRows /\ Account!Idle \in Account!Handlers
<1>1. 0 \in 0..MaxTime /\ 0 \in 0..MaxRequests
  BY DEF RolesSetting
<1> QED
  BY <1>1 DEF Account!NoRow, Account!NoAsk, Account!Idle, Account!RoleRows, Account!RequestRows,
     Account!Handlers, Account!AllRoles

LEMMA LeastNatural ==
    ASSUME NEW S \in SUBSET Nat, S # {}
    PROVE  \E n \in S : \A m \in S : n <= m
<1>1. PICK n \in S : \A m \in S : ~ (<<m, n>> \in OpToRel(<, Nat))
  BY NatLessThanWellFounded, WFMin
<1>2. \A m \in S : ~ (m < n)
  BY <1>1 DEF OpToRel
<1> QED
  BY <1>2

LEMMA CurrentRole ==
    ASSUME RolesSetting, Account!AccountTypeOK
    PROVE  Account!Current \in Account!AllRoles /\ (Account!Current # Base => Account!Current \in Account!Held \cap Roles)
<1>1. CASE Account!Held \cap Roles = {}
  BY <1>1 DEF Account!Current, Account!AllRoles
<1>2. CASE Account!Held \cap Roles # {}
  <2> DEFINE left(r) == MaxTime - held[r].at
             S == {left(r) : r \in Account!Held \cap Roles}
  <2>1. \A r \in Account!Held \cap Roles : held[r].at \in 0..MaxTime
    BY DEF Account!Held, Account!AccountTypeOK, Account!RoleRows
  <2>2. S \in SUBSET Nat /\ S # {}
    BY <1>2, <2>1 DEF RolesSetting
  <2>3. PICK n \in S : \A m \in S : n <= m
    BY <2>2, LeastNatural
  <2>4. PICK r \in Account!Held \cap Roles : n = left(r)
    BY <2>3
  <2>5. \A q \in Account!Held \cap Roles : held[q].at <= held[r].at
    <3> TAKE q \in Account!Held \cap Roles
    <3>1. left(q) \in S
      OBVIOUS
    <3>2. left(r) <= left(q)
      BY <2>3, <2>4, <3>1
    <3> QED
      BY <2>1, <3>2 DEF RolesSetting
  <2>6. Account!Current \in Account!Held \cap Roles
    BY <1>2, <2>5 DEF Account!Current
  <2> QED
    BY <2>6 DEF Account!AllRoles
<1> QED
  BY <1>1, <1>2

LEMMA HandlersRead ==
    ASSUME Account!AccountTypeOK, NEW s \in Sessions, Account!ReadRoles(s)
    PROVE  req' \in [Sessions -> Account!Handlers]
<1>1. Account!Held \in SUBSET Account!AllRoles /\ req[s] \in Account!Handlers
  BY DEF Account!Held, Account!AccountTypeOK
<1> DEFINE h == [[req[s] EXCEPT !.seen = Account!Held] EXCEPT !.at = IF req[s].at = "reject" THEN "rejecting" ELSE "approved"]
<1>2. h \in Account!Handlers
  BY <1>1 DEF Account!Handlers
<1>3. req' = [req EXCEPT ![s] = h]
  BY DEF Account!ReadRoles
<1> QED
  BY <1>2, <1>3 DEF Account!AccountTypeOK

LEMMA SameMade ==
    ASSUME Account!RequestsNumbered, Account!Made' = Account!Made, \A i \in Account!Made : requests'[i].role = requests[i].role,
           \A s \in Sessions : req'[s].at = "stage" => req'[s].role \in Roles
    PROVE  Account!RequestsNumbered'
  BY DEF Account!RequestsNumbered

LEMMA StagedRows ==
    ASSUME RolesSetting, Account!AccountTypeOK, Account!RequestsNumbered, NEW table \in [Account!Ids -> Account!RequestRows], NEW r \in Roles,
           NEW time \in 0..MaxTime, Account!Cardinality(Account!Made) < MaxRequests, requests' = Account!Staged(table, r, time),
           \A i \in Account!Ids : /\ (table[i].status = "NONE" <=> i \notin Account!Made)
                         /\ table[i].role = requests[i].role
                         /\ table[i].at = requests[i].at
    PROVE  /\ \E n \in Account!Ids : /\ n \notin Account!Made /\ Account!Made' = Account!Made \cup {n}
                            /\ requests' = [table EXCEPT ![n] = [status |-> "PENDING", role |-> r, at |-> time]]
           /\ Account!Made' = 1..Account!Cardinality(Account!Made') /\ \A i \in Account!Made' : requests'[i].role \in Roles
           /\ requests' \in [Account!Ids -> Account!RequestRows]
<1> DEFINE n == Account!Cardinality(Account!Made) + 1
<1>1. Account!Made \in SUBSET Account!Ids /\ IsFiniteSet(Account!Ids)
  BY FS_Interval, RolesByCardinality DEF RolesSetting, Account!Made, Account!Ids
<1>2. IsFiniteSet(Account!Made) /\ Account!Cardinality(Account!Made) \in Nat
  BY <1>1, FS_Subset, FS_CardinalityType, RolesByCardinality
<1>3. n \in Account!Ids /\ Account!Made = 1..n - 1
  BY <1>2 DEF RolesSetting, Account!Ids, Account!RequestsNumbered
<1>4. n \notin Account!Made /\ Account!Made \cup {n} = 1..n
  BY <1>2, <1>3
<1>5. requests' = [table EXCEPT ![n] = [status |-> "PENDING", role |-> r, at |-> time]]
  BY DEF Account!Staged
<1>6. [status |-> "PENDING", role |-> r, at |-> time] \in Account!RequestRows
  BY DEF Account!RequestRows, Account!AllRoles
<1> HIDE DEF n
<1>7. Account!Made' = Account!Made \cup {n}
  BY <1>3, <1>5 DEF Account!Made
<1>8. Account!Cardinality(1..n) = n
  <2>1. n \in Nat /\ n >= 1
    BY <1>2 DEF n
  <2>2. Account!Cardinality(1..n) = IF 1 > n THEN 0 ELSE n - 1 + 1
    BY <2>1, FS_Interval, RolesByCardinality
  <2> QED
    BY <2>1, <2>2
<1>9. Account!Made' = 1..Account!Cardinality(Account!Made')
  BY <1>4, <1>7, <1>8
<1>10. \A i \in Account!Made' : requests'[i].role \in Roles
  BY <1>3, <1>5, <1>7, <1>1 DEF Account!RequestsNumbered
<1> QED
  BY <1>3, <1>4, <1>5, <1>6, <1>7, <1>9, <1>10

LEMMA WrittenKeeps ==
    ASSUME RolesSetting, Account!AccountTypeOK, NEW s \in Sessions, NEW old, NEW new, NEW time, Account!Writable(s, old, new),
           NEW r \in Account!AllRoles, held[r].on, roleLock[r] \in Sessions \ {s}
    PROVE  Account!Written(old, new, time)[r] = held[r]
  BY DEF RolesSetting, Account!Writable, Account!Written

LEMMA WrittenTyped ==
    ASSUME RolesSetting, Account!AccountTypeOK, NEW old, NEW new, NEW time \in 0..MaxTime
    PROVE  /\ Account!Written(old, new, time) \in [Account!AllRoles -> Account!RoleRows]
           /\ \A r \in Account!AllRoles : Account!Written(old, new, time)[r].verified => Account!Written(old, new, time)[r] = held[r]
<1>1. [on |-> TRUE, at |-> time, verified |-> FALSE] \in Account!RoleRows /\ Account!NoRow \in Account!RoleRows /\ Account!NoRow.verified = FALSE
  BY RoleValues, RoleTypes DEF Account!RoleRows
<1> QED
  BY <1>1 DEF Account!Written, Account!AccountTypeOK

LEMMA StillVerified ==
    ASSUME Account!VerifiedByReview,
           \A i \in Account!Made : /\ i \in Account!Made' /\ requests'[i].role = requests[i].role /\ requests'[i].at = requests[i].at
                          /\ (requests[i].status = "APPROVED" => requests'[i].status = "APPROVED"),
           \A r \in Roles : held'[r].verified => held'[r] = held[r]
    PROVE  Account!VerifiedByReview'
<1> SUFFICES ASSUME NEW r \in Roles, held'[r].verified
             PROVE  \E i \in Account!Applicable(r)' : requests'[i].status = "APPROVED"
  BY DEF Account!VerifiedByReview
<1>1. held'[r] = held[r] /\ held[r].verified
  OBVIOUS
<1>2. PICK i \in Account!Applicable(r) : requests[i].status = "APPROVED"
  BY <1>1 DEF Account!VerifiedByReview
<1>3. i \in Account!Made /\ requests[i].role = r /\ requests[i].at >= held[r].at
  BY <1>2 DEF Account!Applicable
<1>4. i \in Account!Made' /\ requests'[i].role = r /\ requests'[i].at >= held'[r].at /\ requests'[i].status = "APPROVED"
  BY <1>1, <1>2, <1>3
<1> QED
  BY <1>4 DEF Account!Applicable

LEMMA AskSelectReviewed ==
    ASSUME RolesSetting, Account!ReviewIInv, NEW s \in Sessions, NEW r \in Account!AllRoles, Account!AskSelect(s, r)
    PROVE  Account!ReviewIInv'
<1> USE DEF Account!ReviewIInv
<1>5. Account!RequestsNumbered'
  <2>1. Account!Made' = Account!Made /\ \A i \in Account!Made : requests'[i].role = requests[i].role
    BY DEF Account!AskSelect, Account!Begin, Account!Made, Account!Decided, Account!AccountTypeOK
  <2>2. \A t \in Sessions : req'[t].at = "stage" => req'[t].role \in Roles
    BY RoleTypes DEF Account!AskSelect, Account!Begin, Account!AccountTypeOK, Account!RequestsNumbered,
       Account!Current, Account!Handlers
  <2> QED
    BY <2>1, <2>2, SameMade
<1>1. Account!AccountTypeOK'
  <2> DEFINE h == [[Account!Idle EXCEPT !.at = "select", !.role = r] EXCEPT !.time = now]
  <2>1. h \in Account!Handlers /\ req[s] \in Account!Handlers
    <3>1. Account!Held \in SUBSET Account!AllRoles /\ req[s] \in Account!Handlers
      BY DEF Account!Held, Account!AccountTypeOK
    <3>2. now \in 0..MaxTime
      BY DEF RolesSetting, Account!AskSelect, Account!Begin, Account!AccountTypeOK
    <3>3. [Account!Idle EXCEPT !.at = "select", !.role = r] \in Account!Handlers /\ [Account!Idle EXCEPT !.at = "submit"] \in Account!Handlers
      BY RoleValues DEF Account!Handlers, Account!AllRoles
    <3> QED
      BY <3>1, <3>2, <3>3 DEF Account!Handlers
  <2>2. req' = [req EXCEPT ![s] = h]
    BY DEF Account!AskSelect, Account!Begin
  <2>3. req' \in [Sessions -> Account!Handlers]
    BY <2>1, <2>2 DEF Account!AccountTypeOK
  <2>4. now' \in 1..MaxTime + 1
    BY DEF RolesSetting, Account!AskSelect, Account!Begin, Account!AccountTypeOK
  <2> QED
    BY <2>3, <2>4 DEF Account!AskSelect, Account!Begin, Account!AccountTypeOK
<1>2. Account!UserLocked'
  BY RoleTypes DEF RolesSetting, Account!AskSelect, Account!Begin, Account!AccountTypeOK, Account!UserLocked,
     Account!UserSteps, Account!Handlers
<1>3. Account!RequestsLocked'
  BY RoleTypes DEF RolesSetting, Account!AskSelect, Account!Begin, Account!AccountTypeOK,
     Account!RequestsLocked, Account!UserLocked, Account!UserSteps, Account!Pending, Account!ReviewSteps,
        Account!Handlers, Account!RequestRows, Account!Decided
<1>4. Account!RolesLocked'
  BY RoleTypes DEF RolesSetting, Account!AskSelect, Account!Begin, Account!AccountTypeOK, Account!RolesLocked,
     Account!RequestsLocked, Account!NotStale, Account!ReviewSteps, Account!Handlers, Account!RequestRows,
        Account!RoleRows
<1>6. Account!VerifiedByReview'
  BY DEF Account!AskSelect, Account!Begin, Account!VerifiedByReview, Account!Applicable, Account!Made
<1> QED
  BY <1>1, <1>2, <1>3, <1>4, <1>5, <1>6

LEMMA LockUserReviewed ==
    ASSUME RolesSetting, Account!ReviewIInv, NEW s \in Sessions, Account!LockUser(s)
    PROVE  Account!ReviewIInv'
<1> USE DEF Account!ReviewIInv
<1>5. Account!RequestsNumbered'
  <2>1. Account!Made' = Account!Made /\ \A i \in Account!Made : requests'[i].role = requests[i].role
    BY DEF Account!LockUser, Account!Made, Account!Decided, Account!AccountTypeOK
  <2>2. \A t \in Sessions : req'[t].at = "stage" => req'[t].role \in Roles
    BY RoleTypes DEF Account!LockUser, Account!AccountTypeOK, Account!RequestsNumbered, Account!Current,
       Account!Handlers
  <2> QED
    BY <2>1, <2>2, SameMade
<1>1. Account!AccountTypeOK'
  <2> DEFINE h == [req[s] EXCEPT !.at = "cancel", !.seen = Account!Held]
  <2>1. h \in Account!Handlers /\ req[s] \in Account!Handlers
    <3>1. Account!Held \in SUBSET Account!AllRoles /\ req[s] \in Account!Handlers
      BY DEF Account!Held, Account!AccountTypeOK
    <3> QED
      BY <3>1, CurrentRole DEF Account!Handlers
  <2>2. req' = [req EXCEPT ![s] = h]
    BY DEF Account!LockUser
  <2>3. req' \in [Sessions -> Account!Handlers]
    BY <2>1, <2>2 DEF Account!AccountTypeOK
  <2>4. now' \in 1..MaxTime + 1
    BY DEF RolesSetting, Account!LockUser, Account!AccountTypeOK
  <2> QED
    BY <2>3, <2>4 DEF Account!LockUser, Account!AccountTypeOK
<1>2. Account!UserLocked'
  BY RoleTypes DEF RolesSetting, Account!LockUser, Account!AccountTypeOK, Account!UserLocked,
     Account!UserSteps, Account!Handlers
<1>3. Account!RequestsLocked'
  BY RoleTypes DEF RolesSetting, Account!LockUser, Account!AccountTypeOK, Account!RequestsLocked,
     Account!UserLocked, Account!UserSteps, Account!Pending, Account!ReviewSteps, Account!Handlers,
        Account!RequestRows, Account!Decided
<1>4. Account!RolesLocked'
  BY RoleTypes DEF RolesSetting, Account!LockUser, Account!AccountTypeOK, Account!RolesLocked,
     Account!RequestsLocked, Account!NotStale, Account!ReviewSteps, Account!Handlers, Account!RequestRows,
        Account!RoleRows
<1>6. Account!VerifiedByReview'
  BY DEF Account!LockUser, Account!VerifiedByReview, Account!Applicable, Account!Made
<1> QED
  BY <1>1, <1>2, <1>3, <1>4, <1>5, <1>6

LEMMA CancelPendingReviewed ==
    ASSUME RolesSetting, Account!ReviewIInv, NEW s \in Sessions, Account!CancelPending(s)
    PROVE  Account!ReviewIInv'
<1> USE DEF Account!ReviewIInv
<1>5. Account!RequestsNumbered'
  <2>1. Account!Made' = Account!Made /\ \A i \in Account!Made : requests'[i].role = requests[i].role
    BY DEF Account!CancelPending, Account!Goto, Account!Made, Account!Decided, Account!AccountTypeOK
  <2>2. \A t \in Sessions : req'[t].at = "stage" => req'[t].role \in Roles
    BY RoleTypes DEF Account!CancelPending, Account!Goto, Account!AccountTypeOK, Account!RequestsNumbered,
       Account!Current, Account!Handlers
  <2> QED
    BY <2>1, <2>2, SameMade
<1>1. Account!AccountTypeOK'
  <2> DEFINE h == [req[s] EXCEPT !.at = "replace"]
  <2>1. h \in Account!Handlers /\ req[s] \in Account!Handlers
    <3>1. Account!Held \in SUBSET Account!AllRoles /\ req[s] \in Account!Handlers
      BY DEF Account!Held, Account!AccountTypeOK
    <3> QED
      BY <3>1, CurrentRole DEF Account!Handlers
  <2>2. req' = [req EXCEPT ![s] = h]
    BY DEF Account!CancelPending, Account!Goto
  <2>3. req' \in [Sessions -> Account!Handlers]
    BY <2>1, <2>2 DEF Account!AccountTypeOK
  <2>4. now' \in 1..MaxTime + 1
    BY DEF RolesSetting, Account!CancelPending, Account!Goto, Account!AccountTypeOK
  <2> QED
    BY <2>3, <2>4 DEF Account!CancelPending, Account!Goto, Account!AccountTypeOK
<1>2. Account!UserLocked'
  BY RoleTypes DEF RolesSetting, Account!CancelPending, Account!Goto, Account!AccountTypeOK,
     Account!UserLocked, Account!UserSteps, Account!Handlers
<1>3. Account!RequestsLocked'
  BY RoleTypes DEF RolesSetting, Account!CancelPending, Account!Goto, Account!AccountTypeOK,
     Account!RequestsLocked, Account!UserLocked, Account!UserSteps, Account!Pending, Account!ReviewSteps,
        Account!Handlers, Account!RequestRows, Account!Decided
<1>4. Account!RolesLocked'
  BY RoleTypes DEF RolesSetting, Account!CancelPending, Account!Goto, Account!AccountTypeOK,
     Account!RolesLocked, Account!RequestsLocked, Account!NotStale, Account!ReviewSteps, Account!Handlers,
        Account!RequestRows, Account!RoleRows
<1>6. Account!VerifiedByReview'
  BY DEF Account!CancelPending, Account!Goto, Account!VerifiedByReview, Account!Applicable, Account!Made
<1> QED
  BY <1>1, <1>2, <1>3, <1>4, <1>5, <1>6

LEMMA CommitSelectReviewed ==
    ASSUME RolesSetting, Account!ReviewIInv, NEW s \in Sessions, Account!CommitSelect(s)
    PROVE  Account!ReviewIInv'
<1> USE DEF Account!ReviewIInv
<1>5. Account!RequestsNumbered' /\ requests' \in [Account!Ids -> Account!RequestRows]
  <2> DEFINE table == Account!Cancelled(s)
  <2>1. table \in [Account!Ids -> Account!RequestRows]
    BY DEF Account!Cancelled, Account!AccountTypeOK, Account!RequestRows
  <2>2. \A i \in Account!Ids : /\ (table[i].status = "NONE" <=> i \notin Account!Made)
                       /\ table[i].role = requests[i].role
                       /\ table[i].at = requests[i].at
                       /\ (requests[i].status = "APPROVED" => table[i].status = "APPROVED")
    BY DEF Account!Cancelled, Account!AccountTypeOK, Account!RequestRows, Account!Made, Account!RequestsLocked,
       Account!Pending
  <2>3. \A t \in Sessions : req'[t].at = "stage" => req'[t].role \in Roles
    BY RoleTypes DEF Account!CommitSelect, Account!End, Account!AccountTypeOK, Account!RequestsNumbered
  <2>4. CASE req[s].role = Base
    <3>1. requests' = table
      BY <2>4 DEF Account!CommitSelect
    <3>2. Account!Made' = Account!Made
      BY <3>1, <2>2 DEF Account!Made
    <3> QED
      BY <2>1, <2>2, <2>3, <3>1, <3>2, SameMade DEF Account!Made
  <2>5. CASE req[s].role # Base
    <3>1. req[s].role \in Roles /\ req[s].time \in 0..MaxTime
      BY <2>5 DEF Account!AccountTypeOK, Account!Handlers, Account!AllRoles
    <3>2. requests' = Account!Staged(table, req[s].role, req[s].time) /\ Account!Cardinality(Account!Made) < MaxRequests
      BY <2>5 DEF Account!CommitSelect
    <3> QED
      BY <2>1, <2>2, <2>3, <3>1, <3>2, StagedRows DEF Account!RequestsNumbered
  <2> QED
    BY <2>4, <2>5
<1>1. Account!AccountTypeOK'
  <2>1. req' \in [Sessions -> Account!Handlers]
    BY RoleValues DEF Account!CommitSelect, Account!End, Account!AccountTypeOK
  <2>2. req[s].time \in 0..MaxTime /\ req[s].role \in Account!AllRoles
    BY DEF Account!AccountTypeOK, Account!Handlers
  <2>3. held' \in [Account!AllRoles -> Account!RoleRows]
    BY <2>2, WrittenTyped, RoleValues DEF Account!CommitSelect, Account!AccountTypeOK
  <2>4. requests' \in [Account!Ids -> Account!RequestRows]
    BY <1>5
  <2>5. now' = now /\ irregular' \in BOOLEAN
    BY DEF Account!CommitSelect, Account!AccountTypeOK
  <2> QED
    BY <2>1, <2>3, <2>4, <2>5 DEF Account!CommitSelect, Account!End, Account!AccountTypeOK
<1>7. \A i \in Account!Ids : /\ (requests[i].status # "NONE" => requests'[i].role = requests[i].role /\ requests'[i].at = requests[i].at)
                     /\ (requests'[i].status = Account!Cancelled(s)[i].status \/ (requests[i].status = "NONE" /\ requests'[i].status = "PENDING"))
  <2> DEFINE table == Account!Cancelled(s)
  <2>1. table \in [Account!Ids -> Account!RequestRows]
    BY DEF Account!Cancelled, Account!AccountTypeOK, Account!RequestRows
  <2>2. \A i \in Account!Ids : /\ (table[i].status = "NONE" <=> i \notin Account!Made)
                       /\ table[i].role = requests[i].role
                       /\ table[i].at = requests[i].at
    BY DEF Account!Cancelled, Account!AccountTypeOK, Account!RequestRows, Account!Made, Account!RequestsLocked,
       Account!Pending
  <2>4. CASE requests' = table
    BY <2>2, <2>4
  <2>5. CASE requests' # table
    <3>1. req[s].role \in Roles /\ req[s].time \in 0..MaxTime
      BY <2>5 DEF Account!AccountTypeOK, Account!Handlers, Account!AllRoles, Account!CommitSelect,
         Account!CommitSubmit, Account!RequestsNumbered
    <3>2. requests' = Account!Staged(table, req[s].role, req[s].time) /\ Account!Cardinality(Account!Made) < MaxRequests
      BY <2>5 DEF Account!CommitSelect, Account!CommitSubmit
    <3> DEFINE role == req[s].role
               time == req[s].time
    <3>3. \E n \in Account!Ids : /\ n \notin Account!Made /\ Account!Made' = Account!Made \cup {n}
                        /\ requests' = [table EXCEPT ![n] = [status |-> "PENDING", role |-> role, at |-> time]]
      <4>1. role \in Roles /\ time \in 0..MaxTime /\ requests' = Account!Staged(table, role, time)
        BY <3>1, <3>2
      <4> HIDE DEF table, role, time
      <4> QED
        BY <2>1, <2>2, <3>2, <4>1, StagedRows
    <3> QED
      BY <2>1, <2>2, <3>3 DEF Account!Made
  <2> QED
    BY <2>4, <2>5
<1>2. Account!UserLocked'
  BY RoleTypes DEF RolesSetting, Account!CommitSelect, Account!End, Account!AccountTypeOK, Account!UserLocked,
     Account!UserSteps, Account!Handlers
<1>3. Account!RequestsLocked'
  BY <1>7, RoleTypes DEF RolesSetting, Account!CommitSelect, Account!End, Account!AccountTypeOK,
     Account!RequestsLocked, Account!UserLocked, Account!UserSteps, Account!Pending, Account!ReviewSteps,
        Account!Handlers, Account!Cancelled
<1>4. Account!RolesLocked'
  <2> SUFFICES ASSUME NEW t \in Sessions, req'[t].at \in {"approving", "approved"}
               PROVE  roleLock'[req'[t].role] = t /\ Account!NotStale(req[t].id, req[t].role)' /\ req'[t] = req[t]
    BY DEF Account!RolesLocked, Account!NotStale
  <2>1. t # s /\ req'[t] = req[t] /\ roleLock[req[t].role] = t /\ Account!NotStale(req[t].id, req[t].role)
    BY RoleTypes DEF Account!CommitSelect, Account!End, Account!AccountTypeOK, Account!RolesLocked
  <2>2. req[t].id \in Account!Ids /\ requests[req[t].id].status = "PENDING" /\ req[t].role \in Account!AllRoles
    BY <2>1 DEF Account!RequestsLocked, Account!ReviewSteps, Account!Pending, Account!AccountTypeOK,
       Account!Handlers
  <2>3. requests'[req[t].id].at = requests[req[t].id].at
    BY <1>7, <2>2 DEF Account!CommitSelect, Account!AccountTypeOK, Account!Decided, Account!RequestRows
  <2>4. held'[req[t].role].on = held[req[t].role].on /\ held'[req[t].role].at = held[req[t].role].at
    <3>1. Account!Written(req[s].seen, {Base, req[s].role}, req[s].time)[req[t].role] = held[req[t].role]
      BY <2>1, <2>2, WrittenKeeps DEF Account!CommitSelect, Account!NotStale
    <3>2. Account!Written(req[s].seen, {Base, req[s].role}, req[s].time) \in [Account!AllRoles -> Account!RoleRows]
      BY WrittenTyped, RoleValues DEF Account!AccountTypeOK, Account!Handlers
    <3> QED
      BY <2>2, <3>1, <3>2 DEF Account!CommitSelect, Account!RoleRows
  <2>5. roleLock'[req'[t].role] = t
    BY <2>1, <2>2 DEF Account!CommitSelect, Account!End
  <2> QED
    BY <2>1, <2>3, <2>4, <2>5 DEF Account!NotStale
<1>6. Account!VerifiedByReview'
  <2>1. \A i \in Account!Made : /\ i \in Account!Made' /\ requests'[i].role = requests[i].role /\ requests'[i].at = requests[i].at
                       /\ (requests[i].status = "APPROVED" => requests'[i].status = "APPROVED")
    BY <1>7 DEF RolesSetting, Account!CommitSelect, Account!Decided, Account!AccountTypeOK,
       Account!RequestRows, Account!Made, Account!Pending, Account!RequestsLocked, Account!ReviewSteps,
          Account!Cancelled
  <2>2. \A q \in Roles : held'[q].verified => held'[q] = held[q]
    BY WrittenTyped, RoleValues DEF Account!CommitSelect, Account!AccountTypeOK, Account!Handlers,
       Account!AllRoles
  <2> QED
    BY <2>1, <2>2, StillVerified
<1> QED
  BY <1>1, <1>2, <1>3, <1>4, <1>5, <1>6

LEMMA AskSubmitReviewed ==
    ASSUME RolesSetting, Account!ReviewIInv, NEW s \in Sessions, Account!AskSubmit(s)
    PROVE  Account!ReviewIInv'
<1> USE DEF Account!ReviewIInv
<1>5. Account!RequestsNumbered'
  <2>1. Account!Made' = Account!Made /\ \A i \in Account!Made : requests'[i].role = requests[i].role
    BY DEF Account!AskSubmit, Account!Begin, Account!Made, Account!Decided, Account!AccountTypeOK
  <2>2. \A t \in Sessions : req'[t].at = "stage" => req'[t].role \in Roles
    BY RoleTypes DEF Account!AskSubmit, Account!Begin, Account!AccountTypeOK, Account!RequestsNumbered,
       Account!Current, Account!Handlers
  <2> QED
    BY <2>1, <2>2, SameMade
<1>1. Account!AccountTypeOK'
  <2> DEFINE h == [[Account!Idle EXCEPT !.at = "submit"] EXCEPT !.time = now]
  <2>1. h \in Account!Handlers /\ req[s] \in Account!Handlers
    <3>1. Account!Held \in SUBSET Account!AllRoles /\ req[s] \in Account!Handlers
      BY DEF Account!Held, Account!AccountTypeOK
    <3>2. now \in 0..MaxTime
      BY DEF RolesSetting, Account!AskSubmit, Account!Begin, Account!AccountTypeOK
    <3>3. [Account!Idle EXCEPT !.at = "select", !.role = Base] \in Account!Handlers /\ [Account!Idle EXCEPT !.at = "submit"] \in Account!Handlers
      BY RoleValues DEF Account!Handlers, Account!AllRoles
    <3> QED
      BY <3>1, <3>2, <3>3 DEF Account!Handlers
  <2>2. req' = [req EXCEPT ![s] = h]
    BY DEF Account!AskSubmit, Account!Begin
  <2>3. req' \in [Sessions -> Account!Handlers]
    BY <2>1, <2>2 DEF Account!AccountTypeOK
  <2>4. now' \in 1..MaxTime + 1
    BY DEF RolesSetting, Account!AskSubmit, Account!Begin, Account!AccountTypeOK
  <2> QED
    BY <2>3, <2>4 DEF Account!AskSubmit, Account!Begin, Account!AccountTypeOK
<1>2. Account!UserLocked'
  BY RoleTypes DEF RolesSetting, Account!AskSubmit, Account!Begin, Account!AccountTypeOK, Account!UserLocked,
     Account!UserSteps, Account!Handlers
<1>3. Account!RequestsLocked'
  BY RoleTypes DEF RolesSetting, Account!AskSubmit, Account!Begin, Account!AccountTypeOK,
     Account!RequestsLocked, Account!UserLocked, Account!UserSteps, Account!Pending, Account!ReviewSteps,
        Account!Handlers, Account!RequestRows, Account!Decided
<1>4. Account!RolesLocked'
  BY RoleTypes DEF RolesSetting, Account!AskSubmit, Account!Begin, Account!AccountTypeOK, Account!RolesLocked,
     Account!RequestsLocked, Account!NotStale, Account!ReviewSteps, Account!Handlers, Account!RequestRows,
        Account!RoleRows
<1>6. Account!VerifiedByReview'
  BY DEF Account!AskSubmit, Account!Begin, Account!VerifiedByReview, Account!Applicable, Account!Made
<1> QED
  BY <1>1, <1>2, <1>3, <1>4, <1>5, <1>6

LEMMA CheckStateReviewed ==
    ASSUME RolesSetting, Account!ReviewIInv, NEW s \in Sessions, Account!CheckState(s)
    PROVE  Account!ReviewIInv'
<1> USE DEF Account!ReviewIInv
<1>5. Account!RequestsNumbered'
  <2>1. Account!Made' = Account!Made /\ \A i \in Account!Made : requests'[i].role = requests[i].role
    BY DEF Account!CheckState, Account!Made, Account!Decided, Account!AccountTypeOK
  <2>2. \A t \in Sessions : req'[t].at = "stage" => req'[t].role \in Roles
    BY RoleTypes DEF Account!CheckState, Account!AccountTypeOK, Account!RequestsNumbered, Account!Current,
       Account!Handlers
  <2> QED
    BY <2>1, <2>2, SameMade
<1>1. Account!AccountTypeOK'
  <2> DEFINE h == [req[s] EXCEPT !.at = "stage", !.role = Account!Current]
  <2>1. h \in Account!Handlers /\ req[s] \in Account!Handlers
    <3>1. Account!Held \in SUBSET Account!AllRoles /\ req[s] \in Account!Handlers
      BY DEF Account!Held, Account!AccountTypeOK
    <3> QED
      BY <3>1, CurrentRole DEF Account!Handlers
  <2>2. req' = [req EXCEPT ![s] = h]
    BY DEF Account!CheckState
  <2>3. req' \in [Sessions -> Account!Handlers]
    BY <2>1, <2>2 DEF Account!AccountTypeOK
  <2>4. now' \in 1..MaxTime + 1
    BY DEF RolesSetting, Account!CheckState, Account!AccountTypeOK
  <2> QED
    BY <2>3, <2>4 DEF Account!CheckState, Account!AccountTypeOK
<1>2. Account!UserLocked'
  BY RoleTypes DEF RolesSetting, Account!CheckState, Account!AccountTypeOK, Account!UserLocked,
     Account!UserSteps, Account!Handlers
<1>3. Account!RequestsLocked'
  BY RoleTypes DEF RolesSetting, Account!CheckState, Account!AccountTypeOK, Account!RequestsLocked,
     Account!UserLocked, Account!UserSteps, Account!Pending, Account!ReviewSteps, Account!Handlers,
        Account!RequestRows, Account!Decided
<1>4. Account!RolesLocked'
  BY RoleTypes DEF RolesSetting, Account!CheckState, Account!AccountTypeOK, Account!RolesLocked,
     Account!RequestsLocked, Account!NotStale, Account!ReviewSteps, Account!Handlers, Account!RequestRows,
        Account!RoleRows
<1>6. Account!VerifiedByReview'
  BY DEF Account!CheckState, Account!VerifiedByReview, Account!Applicable, Account!Made
<1> QED
  BY <1>1, <1>2, <1>3, <1>4, <1>5, <1>6

LEMMA CommitSubmitReviewed ==
    ASSUME RolesSetting, Account!ReviewIInv, NEW s \in Sessions, Account!CommitSubmit(s)
    PROVE  Account!ReviewIInv'
<1> USE DEF Account!ReviewIInv
<1>5. Account!RequestsNumbered' /\ requests' \in [Account!Ids -> Account!RequestRows]
  <2>1. requests \in [Account!Ids -> Account!RequestRows]
    BY DEF Account!AccountTypeOK
  <2>2. req[s].role \in Roles /\ req[s].time \in 0..MaxTime
    BY DEF Account!AccountTypeOK, Account!Handlers, Account!RequestsNumbered, Account!CommitSubmit
  <2>3. \A t \in Sessions : req'[t].at = "stage" => req'[t].role \in Roles
    BY RoleTypes DEF Account!CommitSubmit, Account!End, Account!AccountTypeOK, Account!RequestsNumbered
  <2>4. requests' = Account!Staged(requests, req[s].role, req[s].time) /\ Account!Cardinality(Account!Made) < MaxRequests
    BY DEF Account!CommitSubmit
  <2> QED
    BY <2>1, <2>2, <2>3, <2>4, StagedRows DEF Account!RequestsNumbered, Account!Made
<1>1. Account!AccountTypeOK'
  <2>1. req' \in [Sessions -> Account!Handlers]
    BY RoleValues DEF Account!CommitSubmit, Account!End, Account!AccountTypeOK
  <2>2. req[s].time \in 0..MaxTime /\ req[s].role \in Account!AllRoles
    BY DEF Account!AccountTypeOK, Account!Handlers
  <2>3. held' \in [Account!AllRoles -> Account!RoleRows]
    BY <2>2, WrittenTyped, RoleValues DEF Account!CommitSubmit, Account!AccountTypeOK
  <2>4. requests' \in [Account!Ids -> Account!RequestRows]
    BY <1>5
  <2>5. now' = now /\ irregular' \in BOOLEAN
    BY DEF Account!CommitSubmit, Account!AccountTypeOK
  <2> QED
    BY <2>1, <2>3, <2>4, <2>5 DEF Account!CommitSubmit, Account!End, Account!AccountTypeOK
<1>7. \A i \in Account!Ids : /\ (requests[i].status # "NONE" => requests'[i].role = requests[i].role /\ requests'[i].at = requests[i].at)
                     /\ (requests'[i].status = requests[i].status \/ (requests[i].status = "NONE" /\ requests'[i].status = "PENDING"))
  <2> DEFINE table == requests
  <2>1. table \in [Account!Ids -> Account!RequestRows]
    BY DEF Account!Cancelled, Account!AccountTypeOK, Account!RequestRows
  <2>2. \A i \in Account!Ids : /\ (table[i].status = "NONE" <=> i \notin Account!Made)
                       /\ table[i].role = requests[i].role
                       /\ table[i].at = requests[i].at
    BY DEF Account!Cancelled, Account!AccountTypeOK, Account!RequestRows, Account!Made, Account!RequestsLocked,
       Account!Pending
  <2>4. CASE requests' = table
    BY <2>2, <2>4
  <2>5. CASE requests' # table
    <3>1. req[s].role \in Roles /\ req[s].time \in 0..MaxTime
      BY <2>5 DEF Account!AccountTypeOK, Account!Handlers, Account!AllRoles, Account!CommitSelect,
         Account!CommitSubmit, Account!RequestsNumbered
    <3>2. requests' = Account!Staged(table, req[s].role, req[s].time) /\ Account!Cardinality(Account!Made) < MaxRequests
      BY <2>5 DEF Account!CommitSelect, Account!CommitSubmit
    <3> DEFINE role == req[s].role
               time == req[s].time
    <3>3. \E n \in Account!Ids : /\ n \notin Account!Made /\ Account!Made' = Account!Made \cup {n}
                        /\ requests' = [table EXCEPT ![n] = [status |-> "PENDING", role |-> role, at |-> time]]
      <4>1. role \in Roles /\ time \in 0..MaxTime /\ requests' = Account!Staged(table, role, time)
        BY <3>1, <3>2
      <4> HIDE DEF table, role, time
      <4> QED
        BY <2>1, <2>2, <3>2, <4>1, StagedRows
    <3> QED
      BY <2>1, <2>2, <3>3 DEF Account!Made
  <2> QED
    BY <2>4, <2>5
<1>2. Account!UserLocked'
  BY RoleTypes DEF RolesSetting, Account!CommitSubmit, Account!End, Account!AccountTypeOK, Account!UserLocked,
     Account!UserSteps, Account!Handlers
<1>3. Account!RequestsLocked'
  BY <1>7, RoleTypes DEF RolesSetting, Account!CommitSubmit, Account!End, Account!AccountTypeOK,
     Account!RequestsLocked, Account!UserLocked, Account!UserSteps, Account!Pending, Account!ReviewSteps,
        Account!Handlers, Account!Cancelled
<1>4. Account!RolesLocked'
  <2> SUFFICES ASSUME NEW t \in Sessions, req'[t].at \in {"approving", "approved"}
               PROVE  roleLock'[req'[t].role] = t /\ Account!NotStale(req[t].id, req[t].role)' /\ req'[t] = req[t]
    BY DEF Account!RolesLocked, Account!NotStale
  <2>1. t # s /\ req'[t] = req[t] /\ roleLock[req[t].role] = t /\ Account!NotStale(req[t].id, req[t].role)
    BY RoleTypes DEF Account!CommitSubmit, Account!End, Account!AccountTypeOK, Account!RolesLocked
  <2>2. req[t].id \in Account!Ids /\ requests[req[t].id].status = "PENDING" /\ req[t].role \in Account!AllRoles
    BY <2>1 DEF Account!RequestsLocked, Account!ReviewSteps, Account!Pending, Account!AccountTypeOK,
       Account!Handlers
  <2>3. requests'[req[t].id].at = requests[req[t].id].at
    BY <1>7, <2>2 DEF Account!CommitSubmit, Account!AccountTypeOK, Account!Decided, Account!RequestRows
  <2>4. held'[req[t].role].on = held[req[t].role].on /\ held'[req[t].role].at = held[req[t].role].at
    BY DEF Account!CommitSubmit
  <2>5. roleLock'[req'[t].role] = t
    BY <2>1, <2>2 DEF Account!CommitSubmit, Account!End
  <2> QED
    BY <2>1, <2>3, <2>4, <2>5 DEF Account!NotStale
<1>6. Account!VerifiedByReview'
  <2>1. \A i \in Account!Made : /\ i \in Account!Made' /\ requests'[i].role = requests[i].role /\ requests'[i].at = requests[i].at
                       /\ (requests[i].status = "APPROVED" => requests'[i].status = "APPROVED")
    BY <1>7 DEF RolesSetting, Account!CommitSubmit, Account!Decided, Account!AccountTypeOK,
       Account!RequestRows, Account!Made, Account!Pending, Account!RequestsLocked, Account!ReviewSteps,
          Account!Cancelled
  <2>2. \A q \in Roles : held'[q].verified => held'[q] = held[q]
    BY WrittenTyped, RoleValues DEF Account!CommitSubmit, Account!AccountTypeOK, Account!Handlers,
       Account!AllRoles
  <2> QED
    BY <2>1, <2>2, StillVerified
<1> QED
  BY <1>1, <1>2, <1>3, <1>4, <1>5, <1>6

LEMMA LockRequestReviewed ==
    ASSUME RolesSetting, Account!ReviewIInv, NEW s \in Sessions, NEW k \in Account!Ids, NEW statement \in {"approve", "reject"}, Account!LockRequest(s, k, statement)
    PROVE  Account!ReviewIInv'
<1> USE DEF Account!ReviewIInv
<1>5. Account!RequestsNumbered'
  <2>1. Account!Made' = Account!Made /\ \A i \in Account!Made : requests'[i].role = requests[i].role
    BY DEF Account!LockRequest, Account!Made, Account!Decided, Account!AccountTypeOK
  <2>2. \A t \in Sessions : req'[t].at = "stage" => req'[t].role \in Roles
    BY RoleTypes DEF Account!LockRequest, Account!AccountTypeOK, Account!RequestsNumbered, Account!Current,
       Account!Handlers
  <2> QED
    BY <2>1, <2>2, SameMade
<1>1. Account!AccountTypeOK'
  <2> DEFINE h == [Account!Idle EXCEPT !.at = statement, !.id = k, !.role = requests[k].role]
  <2>1. h \in Account!Handlers /\ req[s] \in Account!Handlers
    <3>1. Account!Held \in SUBSET Account!AllRoles /\ req[s] \in Account!Handlers
      BY DEF Account!Held, Account!AccountTypeOK
    <3>2. requests[k].role \in Account!AllRoles /\ k \in 0..MaxRequests
      BY DEF RolesSetting, Account!AccountTypeOK, Account!RequestRows, Account!Ids
    <3> QED
      BY <3>1, <3>2, RoleValues DEF Account!Handlers
  <2>2. req' = [req EXCEPT ![s] = h]
    BY DEF Account!LockRequest
  <2>3. req' \in [Sessions -> Account!Handlers]
    BY <2>1, <2>2 DEF Account!AccountTypeOK
  <2>4. now' \in 1..MaxTime + 1
    BY DEF RolesSetting, Account!LockRequest, Account!AccountTypeOK
  <2> QED
    BY <2>3, <2>4 DEF Account!LockRequest, Account!AccountTypeOK
<1>2. Account!UserLocked'
  BY RoleTypes DEF RolesSetting, Account!LockRequest, Account!AccountTypeOK, Account!UserLocked,
     Account!UserSteps, Account!Handlers
<1>3. Account!RequestsLocked'
  BY RoleTypes DEF RolesSetting, Account!LockRequest, Account!AccountTypeOK, Account!RequestsLocked,
     Account!UserLocked, Account!UserSteps, Account!Pending, Account!ReviewSteps, Account!Handlers,
        Account!RequestRows, Account!Decided
<1>4. Account!RolesLocked'
  BY RoleTypes DEF RolesSetting, Account!LockRequest, Account!AccountTypeOK, Account!RolesLocked,
     Account!RequestsLocked, Account!NotStale, Account!ReviewSteps, Account!Handlers, Account!RequestRows,
        Account!RoleRows
<1>6. Account!VerifiedByReview'
  BY DEF Account!LockRequest, Account!VerifiedByReview, Account!Applicable, Account!Made
<1> QED
  BY <1>1, <1>2, <1>3, <1>4, <1>5, <1>6

LEMMA LockAssignmentReviewed ==
    ASSUME RolesSetting, Account!ReviewIInv, NEW s \in Sessions, Account!LockAssignment(s)
    PROVE  Account!ReviewIInv'
<1> USE DEF Account!ReviewIInv
<1>5. Account!RequestsNumbered'
  <2>1. Account!Made' = Account!Made /\ \A i \in Account!Made : requests'[i].role = requests[i].role
    BY DEF Account!LockAssignment, Account!Goto, Account!Made, Account!Decided, Account!AccountTypeOK
  <2>2. \A t \in Sessions : req'[t].at = "stage" => req'[t].role \in Roles
    BY RoleTypes DEF Account!LockAssignment, Account!Goto, Account!AccountTypeOK, Account!RequestsNumbered,
       Account!Current, Account!Handlers
  <2> QED
    BY <2>1, <2>2, SameMade
<1>1. Account!AccountTypeOK'
  <2> DEFINE h == [req[s] EXCEPT !.at = "approving"]
  <2>1. h \in Account!Handlers /\ req[s] \in Account!Handlers
    <3>1. Account!Held \in SUBSET Account!AllRoles /\ req[s] \in Account!Handlers
      BY DEF Account!Held, Account!AccountTypeOK
    <3> QED
      BY <3>1, CurrentRole DEF Account!Handlers
  <2>2. req' = [req EXCEPT ![s] = h]
    BY DEF Account!LockAssignment, Account!Goto
  <2>3. req' \in [Sessions -> Account!Handlers]
    BY <2>1, <2>2 DEF Account!AccountTypeOK
  <2>4. now' \in 1..MaxTime + 1
    BY DEF RolesSetting, Account!LockAssignment, Account!Goto, Account!AccountTypeOK
  <2> QED
    BY <2>3, <2>4 DEF Account!LockAssignment, Account!Goto, Account!AccountTypeOK
<1>2. Account!UserLocked'
  BY RoleTypes DEF RolesSetting, Account!LockAssignment, Account!Goto, Account!AccountTypeOK,
     Account!UserLocked, Account!UserSteps, Account!Handlers
<1>3. Account!RequestsLocked'
  BY RoleTypes DEF RolesSetting, Account!LockAssignment, Account!Goto, Account!AccountTypeOK,
     Account!RequestsLocked, Account!UserLocked, Account!UserSteps, Account!Pending, Account!ReviewSteps,
        Account!Handlers, Account!RequestRows, Account!Decided
<1>4. Account!RolesLocked'
  BY RoleTypes DEF RolesSetting, Account!LockAssignment, Account!Goto, Account!AccountTypeOK,
     Account!RolesLocked, Account!RequestsLocked, Account!NotStale, Account!ReviewSteps, Account!Handlers,
        Account!RequestRows, Account!RoleRows
<1>6. Account!VerifiedByReview'
  BY DEF Account!LockAssignment, Account!Goto, Account!VerifiedByReview, Account!Applicable, Account!Made
<1> QED
  BY <1>1, <1>2, <1>3, <1>4, <1>5, <1>6

LEMMA ReadRolesReviewed ==
    ASSUME RolesSetting, Account!ReviewIInv, NEW s \in Sessions, Account!ReadRoles(s)
    PROVE  Account!ReviewIInv'
<1> USE DEF Account!ReviewIInv
<1>5. Account!RequestsNumbered'
  <2>1. Account!Made' = Account!Made /\ \A i \in Account!Made : requests'[i].role = requests[i].role
    BY DEF Account!ReadRoles, Account!Made, Account!Decided, Account!AccountTypeOK
  <2>2. \A t \in Sessions : req'[t].at = "stage" => req'[t].role \in Roles
    BY RoleTypes DEF Account!ReadRoles, Account!AccountTypeOK, Account!RequestsNumbered, Account!Current,
       Account!Handlers
  <2> QED
    BY <2>1, <2>2, SameMade
<1>1. Account!AccountTypeOK'
  BY HandlersRead DEF Account!ReadRoles, Account!AccountTypeOK
<1>2. Account!UserLocked'
  BY RoleTypes DEF RolesSetting, Account!ReadRoles, Account!AccountTypeOK, Account!UserLocked,
     Account!UserSteps, Account!Handlers
<1>3. Account!RequestsLocked'
  BY RoleTypes DEF RolesSetting, Account!ReadRoles, Account!AccountTypeOK, Account!RequestsLocked,
     Account!UserLocked, Account!UserSteps, Account!Pending, Account!ReviewSteps, Account!Handlers,
        Account!RequestRows, Account!Decided
<1>4. Account!RolesLocked'
  BY RoleTypes DEF RolesSetting, Account!ReadRoles, Account!AccountTypeOK, Account!RolesLocked,
     Account!RequestsLocked, Account!NotStale, Account!ReviewSteps, Account!Handlers, Account!RequestRows,
        Account!RoleRows
<1>6. Account!VerifiedByReview'
  BY DEF Account!ReadRoles, Account!VerifiedByReview, Account!Applicable, Account!Made
<1> QED
  BY <1>1, <1>2, <1>3, <1>4, <1>5, <1>6

LEMMA CommitApproveReviewed ==
    ASSUME RolesSetting, Account!ReviewIInv, NEW s \in Sessions, Account!CommitApprove(s)
    PROVE  Account!ReviewIInv'
<1> USE DEF Account!ReviewIInv
<1>5. Account!RequestsNumbered'
  <2>1. Account!Made' = Account!Made /\ \A i \in Account!Made : requests'[i].role = requests[i].role
    BY DEF Account!CommitApprove, Account!Made, Account!Decided, Account!AccountTypeOK, Account!RequestsLocked,
       Account!ReviewSteps, Account!Pending
  <2>2. \A t \in Sessions : req'[t].at = "stage" => req'[t].role \in Roles
    BY RoleTypes DEF Account!CommitApprove, Account!End, Account!AccountTypeOK, Account!RequestsNumbered,
       Account!Current, Account!Handlers
  <2> QED
    BY <2>1, <2>2, SameMade
<1>1. Account!AccountTypeOK'
  <2>1. req' \in [Sessions -> Account!Handlers]
    BY RoleValues DEF Account!CommitApprove, Account!End, Account!AccountTypeOK
  <2>2. req[s].time \in 0..MaxTime /\ req[s].role \in Account!AllRoles
    BY DEF Account!AccountTypeOK, Account!Handlers
  <2>3. held' \in [Account!AllRoles -> Account!RoleRows]
    <3>1. Account!Written(req[s].seen, req[s].seen \ {Base}, 0) \in [Account!AllRoles -> Account!RoleRows]
      BY WrittenTyped, RoleValues
    <3> QED
      BY <3>1 DEF Account!CommitApprove, Account!RoleRows
  <2>4. requests' \in [Account!Ids -> Account!RequestRows]
    BY DEF Account!CommitApprove, Account!AccountTypeOK, Account!Decided, Account!RequestRows
  <2>5. now' = now /\ irregular' \in BOOLEAN
    BY DEF Account!CommitApprove, Account!AccountTypeOK
  <2> QED
    BY <2>1, <2>3, <2>4, <2>5 DEF Account!CommitApprove, Account!End, Account!AccountTypeOK
<1>2. Account!UserLocked'
  BY RoleTypes DEF RolesSetting, Account!CommitApprove, Account!End, Account!AccountTypeOK, Account!UserLocked,
     Account!UserSteps, Account!Handlers
<1>3. Account!RequestsLocked'
  BY RoleTypes DEF RolesSetting, Account!CommitApprove, Account!End, Account!AccountTypeOK,
     Account!RequestsLocked, Account!UserLocked, Account!UserSteps, Account!Pending, Account!ReviewSteps,
        Account!Handlers, Account!RequestRows, Account!Decided
<1>4. Account!RolesLocked'
  <2> SUFFICES ASSUME NEW t \in Sessions, req'[t].at \in {"approving", "approved"}
               PROVE  roleLock'[req'[t].role] = t /\ Account!NotStale(req[t].id, req[t].role)' /\ req'[t] = req[t]
    BY DEF Account!RolesLocked, Account!NotStale
  <2>1. t # s /\ req'[t] = req[t] /\ roleLock[req[t].role] = t /\ Account!NotStale(req[t].id, req[t].role)
    BY RoleTypes DEF Account!CommitApprove, Account!End, Account!AccountTypeOK, Account!RolesLocked
  <2>2. req[t].id \in Account!Ids /\ requests[req[t].id].status = "PENDING" /\ req[t].role \in Account!AllRoles
    BY <2>1 DEF Account!RequestsLocked, Account!ReviewSteps, Account!Pending, Account!AccountTypeOK,
       Account!Handlers
  <2>3. requests'[req[t].id].at = requests[req[t].id].at
    BY <2>2 DEF Account!CommitApprove, Account!AccountTypeOK, Account!Decided, Account!RequestRows
  <2>4. held'[req[t].role].on = held[req[t].role].on /\ held'[req[t].role].at = held[req[t].role].at
    <3>1. Account!Written(req[s].seen, req[s].seen \ {Base}, 0)[req[t].role] = held[req[t].role]
      BY <2>1, <2>2, WrittenKeeps DEF Account!CommitApprove, Account!NotStale
    <3>2. Account!Written(req[s].seen, req[s].seen \ {Base}, 0) \in [Account!AllRoles -> Account!RoleRows]
      BY WrittenTyped, RoleValues DEF Account!AccountTypeOK, Account!Handlers
    <3> QED
      BY <2>2, <3>1, <3>2 DEF Account!CommitApprove, Account!RoleRows
  <2>5. roleLock'[req'[t].role] = t
    BY <2>1, <2>2 DEF Account!CommitApprove, Account!End
  <2> QED
    BY <2>1, <2>3, <2>4, <2>5 DEF Account!NotStale
<1>6. Account!VerifiedByReview'
  <2> DEFINE p == req[s].role
             k == req[s].id
  <2>1. /\ k \in Account!Ids /\ requestLock[k] = s /\ p = requests[k].role /\ k \in Account!Pending /\ p \in Account!AllRoles
        /\ roleLock[p] = s /\ Account!NotStale(k, p)
    BY DEF Account!CommitApprove, Account!RequestsLocked, Account!RolesLocked, Account!ReviewSteps,
       Account!Pending, Account!AccountTypeOK, Account!Handlers
  <2>2. p \in Roles /\ p # Base
    BY <2>1 DEF RolesSetting, Account!RequestsNumbered, Account!Made, Account!Pending
  <2>3. Account!Made' = Account!Made /\ requests'[k].status = "APPROVED"
        /\ \A i \in Account!Ids : /\ requests'[i].role = requests[i].role /\ requests'[i].at = requests[i].at
                         /\ (requests[i].status = "APPROVED" => requests'[i].status = "APPROVED")
    BY <2>1 DEF Account!CommitApprove, Account!Decided, Account!AccountTypeOK, Account!RequestRows,
       Account!Made, Account!Pending
  <2>4. Account!Written(req[s].seen, req[s].seen \ {Base}, 0) \in [Account!AllRoles -> Account!RoleRows]
        /\ \A q \in Account!AllRoles : Account!Written(req[s].seen, req[s].seen \ {Base}, 0)[q].verified =>
              Account!Written(req[s].seen, req[s].seen \ {Base}, 0)[q] = held[q]
    BY WrittenTyped, RoleValues
  <2>5. \A q \in Roles \ {p} : held'[q].verified => held'[q] = held[q]
    BY <2>1, <2>4 DEF Account!CommitApprove, Account!AllRoles
  <2>6. Account!Written(req[s].seen, req[s].seen \ {Base}, 0)[p] = held[p]
    BY <2>1, <2>2 DEF Account!Written
  <2>7. held'[p].at = held[p].at
    <3> DEFINE w == Account!Written(req[s].seen, req[s].seen \ {Base}, 0)
    <3>1. w \in [Account!AllRoles -> Account!RoleRows] /\ w[p] = held[p] /\ held' = [w EXCEPT ![p].verified = TRUE]
      BY <2>4, <2>6 DEF Account!CommitApprove
    <3>2. p \in Account!AllRoles
      BY <2>1
    <3> HIDE DEF w, p
    <3> QED
      BY <3>1, <3>2 DEF Account!RoleRows
  <2>8. k \in Account!Made /\ requests'[k].role = p /\ requests'[k].at >= held'[p].at
    BY <2>1, <2>3, <2>7 DEF Account!NotStale, Account!Made, Account!Pending, Account!AccountTypeOK,
       Account!RequestRows, Account!RoleRows
  <2>9. ASSUME NEW q \in Roles, held'[q].verified
        PROVE  \E i \in Account!Applicable(q)' : requests'[i].status = "APPROVED"
    <3>1. CASE q = p
      BY <2>3, <2>8, <3>1 DEF Account!Applicable
    <3>2. CASE q # p
      <4>1. PICK i \in Account!Applicable(q) : requests[i].status = "APPROVED"
        BY <2>5, <2>9, <3>2 DEF Account!VerifiedByReview
      <4>2. i \in Account!Made /\ i \in Account!Ids
        BY <4>1 DEF Account!Applicable, Account!Made
      <4> QED
        <5>1. requests[i].role = q /\ requests[i].at >= held[q].at /\ held'[q] = held[q]
          BY <2>5, <2>9, <3>2, <4>1 DEF Account!Applicable
        <5>2. i \in Account!Made' /\ requests'[i].role = q /\ requests'[i].at >= held'[q].at /\ requests'[i].status = "APPROVED"
          BY <2>3, <4>1, <4>2, <5>1
        <5> QED
          BY <5>2 DEF Account!Applicable
    <3> QED
      BY <3>1, <3>2
  <2> QED
    BY <2>9 DEF Account!VerifiedByReview
<1> QED
  BY <1>1, <1>2, <1>3, <1>4, <1>5, <1>6

LEMMA CommitRejectReviewed ==
    ASSUME RolesSetting, Account!ReviewIInv, NEW s \in Sessions, Account!CommitReject(s)
    PROVE  Account!ReviewIInv'
<1> USE DEF Account!ReviewIInv
<1>5. Account!RequestsNumbered'
  <2>1. Account!Made' = Account!Made /\ \A i \in Account!Made : requests'[i].role = requests[i].role
    BY DEF Account!CommitReject, Account!Made, Account!Decided, Account!AccountTypeOK, Account!RequestsLocked,
       Account!ReviewSteps, Account!Pending
  <2>2. \A t \in Sessions : req'[t].at = "stage" => req'[t].role \in Roles
    BY RoleTypes DEF Account!CommitReject, Account!End, Account!AccountTypeOK, Account!RequestsNumbered,
       Account!Current, Account!Handlers
  <2> QED
    BY <2>1, <2>2, SameMade
<1>1. Account!AccountTypeOK'
  <2>1. req' \in [Sessions -> Account!Handlers]
    BY RoleValues DEF Account!CommitReject, Account!End, Account!AccountTypeOK
  <2>2. req[s].time \in 0..MaxTime /\ req[s].role \in Account!AllRoles
    BY DEF Account!AccountTypeOK, Account!Handlers
  <2>3. held' \in [Account!AllRoles -> Account!RoleRows]
    BY <2>2, WrittenTyped, RoleValues DEF Account!CommitReject, Account!AccountTypeOK
  <2>4. requests' \in [Account!Ids -> Account!RequestRows]
    BY DEF Account!CommitReject, Account!AccountTypeOK, Account!Decided, Account!RequestRows
  <2>5. now' = now /\ irregular' \in BOOLEAN
    BY DEF Account!CommitReject, Account!AccountTypeOK
  <2> QED
    BY <2>1, <2>3, <2>4, <2>5 DEF Account!CommitReject, Account!End, Account!AccountTypeOK
<1>2. Account!UserLocked'
  BY RoleTypes DEF RolesSetting, Account!CommitReject, Account!End, Account!AccountTypeOK, Account!UserLocked,
     Account!UserSteps, Account!Handlers
<1>3. Account!RequestsLocked'
  BY RoleTypes DEF RolesSetting, Account!CommitReject, Account!End, Account!AccountTypeOK,
     Account!RequestsLocked, Account!UserLocked, Account!UserSteps, Account!Pending, Account!ReviewSteps,
        Account!Handlers, Account!RequestRows, Account!Decided
<1>4. Account!RolesLocked'
  <2> SUFFICES ASSUME NEW t \in Sessions, req'[t].at \in {"approving", "approved"}
               PROVE  roleLock'[req'[t].role] = t /\ Account!NotStale(req[t].id, req[t].role)' /\ req'[t] = req[t]
    BY DEF Account!RolesLocked, Account!NotStale
  <2>1. t # s /\ req'[t] = req[t] /\ roleLock[req[t].role] = t /\ Account!NotStale(req[t].id, req[t].role)
    BY RoleTypes DEF Account!CommitReject, Account!End, Account!AccountTypeOK, Account!RolesLocked
  <2>2. req[t].id \in Account!Ids /\ requests[req[t].id].status = "PENDING" /\ req[t].role \in Account!AllRoles
    BY <2>1 DEF Account!RequestsLocked, Account!ReviewSteps, Account!Pending, Account!AccountTypeOK,
       Account!Handlers
  <2>3. requests'[req[t].id].at = requests[req[t].id].at
    BY <2>2 DEF Account!CommitReject, Account!AccountTypeOK, Account!Decided, Account!RequestRows
  <2>4. held'[req[t].role].on = held[req[t].role].on /\ held'[req[t].role].at = held[req[t].role].at
    <3>1. Account!Written(req[s].seen, req[s].seen \ {req[s].role}, 0)[req[t].role] = held[req[t].role]
      BY <2>1, <2>2, WrittenKeeps DEF Account!CommitReject, Account!NotStale
    <3>2. Account!Written(req[s].seen, req[s].seen \ {req[s].role}, 0) \in [Account!AllRoles -> Account!RoleRows]
      BY WrittenTyped, RoleValues DEF Account!AccountTypeOK, Account!Handlers
    <3> QED
      BY <2>2, <3>1, <3>2 DEF Account!CommitReject, Account!RoleRows
  <2>5. roleLock'[req'[t].role] = t
    BY <2>1, <2>2 DEF Account!CommitReject, Account!End
  <2> QED
    BY <2>1, <2>3, <2>4, <2>5 DEF Account!NotStale
<1>6. Account!VerifiedByReview'
  <2>1. \A i \in Account!Made : /\ i \in Account!Made' /\ requests'[i].role = requests[i].role /\ requests'[i].at = requests[i].at
                       /\ (requests[i].status = "APPROVED" => requests'[i].status = "APPROVED")
    BY DEF RolesSetting, Account!CommitReject, Account!Decided, Account!AccountTypeOK, Account!RequestRows,
       Account!Made, Account!Pending, Account!RequestsLocked, Account!ReviewSteps, Account!Cancelled
  <2>2. \A q \in Roles : held'[q].verified => held'[q] = held[q]
    BY WrittenTyped, RoleValues DEF Account!CommitReject, Account!AccountTypeOK, Account!Handlers,
       Account!AllRoles
  <2> QED
    BY <2>1, <2>2, StillVerified
<1> QED
  BY <1>1, <1>2, <1>3, <1>4, <1>5, <1>6

LEMMA AskAssignReviewed ==
    ASSUME RolesSetting, Account!ReviewIInv, NEW s \in Sessions, NEW roles \in SUBSET Account!AllRoles, Account!AskAssign(s, roles)
    PROVE  Account!ReviewIInv'
<1> USE DEF Account!ReviewIInv
<1>5. Account!RequestsNumbered'
  <2>1. Account!Made' = Account!Made /\ \A i \in Account!Made : requests'[i].role = requests[i].role
    BY DEF Account!AskAssign, Account!Begin, Account!Made, Account!Decided, Account!AccountTypeOK
  <2>2. \A t \in Sessions : req'[t].at = "stage" => req'[t].role \in Roles
    BY RoleTypes DEF Account!AskAssign, Account!Begin, Account!AccountTypeOK, Account!RequestsNumbered,
       Account!Current, Account!Handlers
  <2> QED
    BY <2>1, <2>2, SameMade
<1>1. Account!AccountTypeOK'
  <2> DEFINE h == [[Account!Idle EXCEPT !.at = "assign", !.seen = Account!Held, !.new = roles] EXCEPT !.time = now]
  <2>1. h \in Account!Handlers /\ req[s] \in Account!Handlers
    <3>1. now \in 0..MaxTime /\ Account!Held \in SUBSET Account!AllRoles
      BY DEF RolesSetting, Account!AskAssign, Account!Begin, Account!AccountTypeOK, Account!Held
    <3>2. Account!Idle \in Account!Handlers
      BY RoleValues
    <3> QED
      BY <3>1, <3>2 DEF Account!Handlers, Account!AccountTypeOK
  <2>2. req' = [req EXCEPT ![s] = h]
    BY DEF Account!AskAssign, Account!Begin
  <2>3. req' \in [Sessions -> Account!Handlers]
    BY <2>1, <2>2 DEF Account!AccountTypeOK
  <2>4. now' \in 1..MaxTime + 1
    BY DEF RolesSetting, Account!AskAssign, Account!Begin, Account!AccountTypeOK
  <2> QED
    BY <2>3, <2>4 DEF Account!AskAssign, Account!Begin, Account!AccountTypeOK
<1>2. Account!UserLocked'
  BY RoleTypes DEF RolesSetting, Account!AskAssign, Account!Begin, Account!AccountTypeOK, Account!UserLocked,
     Account!UserSteps, Account!Handlers
<1>3. Account!RequestsLocked'
  BY RoleTypes DEF RolesSetting, Account!AskAssign, Account!Begin, Account!AccountTypeOK,
     Account!RequestsLocked, Account!UserLocked, Account!UserSteps, Account!Pending, Account!ReviewSteps,
        Account!Handlers, Account!RequestRows, Account!Decided
<1>4. Account!RolesLocked'
  BY RoleTypes DEF RolesSetting, Account!AskAssign, Account!Begin, Account!AccountTypeOK, Account!RolesLocked,
     Account!RequestsLocked, Account!NotStale, Account!ReviewSteps, Account!Handlers, Account!RequestRows,
        Account!RoleRows
<1>6. Account!VerifiedByReview'
  BY DEF Account!AskAssign, Account!Begin, Account!VerifiedByReview, Account!Applicable, Account!Made
<1> QED
  BY <1>1, <1>2, <1>3, <1>4, <1>5, <1>6

LEMMA CommitAssignReviewed ==
    ASSUME RolesSetting, Account!ReviewIInv, NEW s \in Sessions, Account!CommitAssign(s)
    PROVE  Account!ReviewIInv'
<1> USE DEF Account!ReviewIInv
<1>5. Account!RequestsNumbered'
  <2>1. Account!Made' = Account!Made /\ \A i \in Account!Made : requests'[i].role = requests[i].role
    BY DEF Account!CommitAssign, Account!Made, Account!Decided, Account!AccountTypeOK
  <2>2. \A t \in Sessions : req'[t].at = "stage" => req'[t].role \in Roles
    BY RoleTypes DEF Account!CommitAssign, Account!End, Account!AccountTypeOK, Account!RequestsNumbered,
       Account!Current, Account!Handlers
  <2> QED
    BY <2>1, <2>2, SameMade
<1>1. Account!AccountTypeOK'
  <2>1. req' \in [Sessions -> Account!Handlers]
    BY RoleValues DEF Account!CommitAssign, Account!End, Account!AccountTypeOK
  <2>2. req[s].time \in 0..MaxTime /\ req[s].role \in Account!AllRoles
    BY DEF Account!AccountTypeOK, Account!Handlers
  <2>3. held' \in [Account!AllRoles -> Account!RoleRows]
    BY <2>2, WrittenTyped, RoleValues DEF Account!CommitAssign, Account!AccountTypeOK
  <2>4. requests' \in [Account!Ids -> Account!RequestRows]
    BY DEF Account!CommitAssign, Account!AccountTypeOK, Account!Decided, Account!RequestRows
  <2>5. now' = now /\ irregular' \in BOOLEAN
    BY DEF Account!CommitAssign, Account!AccountTypeOK
  <2> QED
    BY <2>1, <2>3, <2>4, <2>5 DEF Account!CommitAssign, Account!End, Account!AccountTypeOK
<1>2. Account!UserLocked'
  BY RoleTypes DEF RolesSetting, Account!CommitAssign, Account!End, Account!AccountTypeOK, Account!UserLocked,
     Account!UserSteps, Account!Handlers
<1>3. Account!RequestsLocked'
  BY RoleTypes DEF RolesSetting, Account!CommitAssign, Account!End, Account!AccountTypeOK,
     Account!RequestsLocked, Account!UserLocked, Account!UserSteps, Account!Pending, Account!ReviewSteps,
        Account!Handlers, Account!RequestRows, Account!Decided
<1>4. Account!RolesLocked'
  <2> SUFFICES ASSUME NEW t \in Sessions, req'[t].at \in {"approving", "approved"}
               PROVE  roleLock'[req'[t].role] = t /\ Account!NotStale(req[t].id, req[t].role)' /\ req'[t] = req[t]
    BY DEF Account!RolesLocked, Account!NotStale
  <2>1. t # s /\ req'[t] = req[t] /\ roleLock[req[t].role] = t /\ Account!NotStale(req[t].id, req[t].role)
    BY RoleTypes DEF Account!CommitAssign, Account!End, Account!AccountTypeOK, Account!RolesLocked
  <2>2. req[t].id \in Account!Ids /\ requests[req[t].id].status = "PENDING" /\ req[t].role \in Account!AllRoles
    BY <2>1 DEF Account!RequestsLocked, Account!ReviewSteps, Account!Pending, Account!AccountTypeOK,
       Account!Handlers
  <2>3. requests'[req[t].id].at = requests[req[t].id].at
    BY <2>2 DEF Account!CommitAssign, Account!AccountTypeOK, Account!Decided, Account!RequestRows
  <2>4. held'[req[t].role].on = held[req[t].role].on /\ held'[req[t].role].at = held[req[t].role].at
    <3>1. Account!Written(req[s].seen, req[s].new, req[s].time)[req[t].role] = held[req[t].role]
      BY <2>1, <2>2, WrittenKeeps DEF Account!CommitAssign, Account!NotStale
    <3>2. Account!Written(req[s].seen, req[s].new, req[s].time) \in [Account!AllRoles -> Account!RoleRows]
      BY WrittenTyped, RoleValues DEF Account!AccountTypeOK, Account!Handlers
    <3> QED
      BY <2>2, <3>1, <3>2 DEF Account!CommitAssign, Account!RoleRows
  <2>5. roleLock'[req'[t].role] = t
    BY <2>1, <2>2 DEF Account!CommitAssign, Account!End
  <2> QED
    BY <2>1, <2>3, <2>4, <2>5 DEF Account!NotStale
<1>6. Account!VerifiedByReview'
  <2>1. \A i \in Account!Made : /\ i \in Account!Made' /\ requests'[i].role = requests[i].role /\ requests'[i].at = requests[i].at
                       /\ (requests[i].status = "APPROVED" => requests'[i].status = "APPROVED")
    BY DEF RolesSetting, Account!CommitAssign, Account!Decided, Account!AccountTypeOK, Account!RequestRows,
       Account!Made, Account!Pending, Account!RequestsLocked, Account!ReviewSteps, Account!Cancelled
  <2>2. \A q \in Roles : held'[q].verified => held'[q] = held[q]
    BY WrittenTyped, RoleValues DEF Account!CommitAssign, Account!AccountTypeOK, Account!Handlers,
       Account!AllRoles
  <2> QED
    BY <2>1, <2>2, StillVerified
<1> QED
  BY <1>1, <1>2, <1>3, <1>4, <1>5, <1>6

LEMMA AbandonReviewed ==
    ASSUME RolesSetting, Account!ReviewIInv, NEW s \in Sessions, Account!Abandon(s)
    PROVE  Account!ReviewIInv'
<1> USE DEF Account!ReviewIInv
<1>5. Account!RequestsNumbered'
  <2>1. Account!Made' = Account!Made /\ \A i \in Account!Made : requests'[i].role = requests[i].role
    BY DEF Account!Abandon, Account!Made, Account!Decided, Account!AccountTypeOK
  <2>2. \A t \in Sessions : req'[t].at = "stage" => req'[t].role \in Roles
    BY RoleTypes DEF Account!Abandon, Account!End, Account!AccountTypeOK, Account!RequestsNumbered,
       Account!Current, Account!Handlers
  <2> QED
    BY <2>1, <2>2, SameMade
<1>1. Account!AccountTypeOK'
  <2>1. req' \in [Sessions -> Account!Handlers]
    BY RoleValues DEF Account!Abandon, Account!End, Account!AccountTypeOK
  <2>2. req[s].time \in 0..MaxTime /\ req[s].role \in Account!AllRoles
    BY DEF Account!AccountTypeOK, Account!Handlers
  <2>3. held' \in [Account!AllRoles -> Account!RoleRows]
    BY <2>2, WrittenTyped, RoleValues DEF Account!Abandon, Account!AccountTypeOK
  <2>4. requests' \in [Account!Ids -> Account!RequestRows]
    BY DEF Account!Abandon, Account!AccountTypeOK, Account!Decided, Account!RequestRows
  <2>5. now' = now /\ irregular' \in BOOLEAN
    BY DEF Account!Abandon, Account!AccountTypeOK
  <2> QED
    BY <2>1, <2>3, <2>4, <2>5 DEF Account!Abandon, Account!End, Account!AccountTypeOK
<1>2. Account!UserLocked'
  BY RoleTypes DEF RolesSetting, Account!Abandon, Account!End, Account!AccountTypeOK, Account!UserLocked,
     Account!UserSteps, Account!Handlers
<1>3. Account!RequestsLocked'
  BY RoleTypes DEF RolesSetting, Account!Abandon, Account!End, Account!AccountTypeOK, Account!RequestsLocked,
     Account!UserLocked, Account!UserSteps, Account!Pending, Account!ReviewSteps, Account!Handlers,
        Account!RequestRows, Account!Decided
<1>4. Account!RolesLocked'
  BY RoleTypes DEF RolesSetting, Account!Abandon, Account!End, Account!AccountTypeOK, Account!RolesLocked,
     Account!RequestsLocked, Account!NotStale, Account!ReviewSteps, Account!Handlers, Account!RequestRows,
        Account!RoleRows
<1>6. Account!VerifiedByReview'
  BY DEF Account!Abandon, Account!VerifiedByReview, Account!Applicable, Account!Made
<1> QED
  BY <1>1, <1>2, <1>3, <1>4, <1>5, <1>6

LEMMA ReviewedLast ==
    ASSUME RolesSetting, Account!ReviewIInv, Account!PendingLast, Account!TimesDiffer, NEW s \in Sessions, req[s].at \in Account!ReviewSteps
    PROVE  Account!Pending = {req[s].id}
<1>1. req[s].id \in Account!Pending /\ Account!Pending \subseteq Account!Made
  BY DEF Account!ReviewIInv, Account!RequestsLocked, Account!Pending, Account!Made
<1>2. \A i, j \in Account!Pending : requests[i].at \in Nat /\ requests[j].at \in Nat /\ (i # j => requests[j].at < requests[i].at)
  BY <1>1 DEF RolesSetting, Account!PendingLast, Account!ReviewIInv, Account!AccountTypeOK,
     Account!RequestRows, Account!Pending
<1>3. \A i, j \in Account!Pending : i = j
  BY <1>2
<1> QED
  BY <1>1, <1>3

LEMMA AskSelectRegular ==
    ASSUME RolesSetting, Account!ReviewIInv, Account!RegularIInv, NEW s \in Sessions, NEW r \in Account!AllRoles, Account!AskSelect(s, r)
    PROVE  Account!RegularIInv'
<1> USE DEF Account!ReviewIInv, Account!RegularIInv
<1>1. held' = held /\ requests' = requests /\ irregular' = irregular
  BY DEF Account!AskSelect, Account!Begin
<1>2. Account!Held' = Account!Held /\ Account!Made' = Account!Made /\ Account!Pending' = Account!Pending
  BY <1>1 DEF Account!Held, Account!Made, Account!Pending
<1>3. Account!OneSelected => Account!OneSelected'
  BY <1>2 DEF Account!OneSelected
<1>4. Account!RolesRequested => Account!RolesRequested'
  BY <1>1, <1>2 DEF Account!RolesRequested
<1>5. Account!PendingLast => Account!PendingLast'
  BY <1>1, <1>2 DEF Account!PendingLast, Account!NotStale
<1>6. Account!TimesDiffer'
  <2>1. /\ now' = now + 1 /\ now \in Nat /\ req'[s].time = now
        /\ \A t \in Sessions \ {s} : req'[t] = req[t]
    BY DEF RolesSetting, Account!AskSelect, Account!Begin, Account!AccountTypeOK, Account!Handlers, Account!Idle
  <2>2. \A i \in Account!Made : requests[i].at \in Nat /\ requests[i].at < now
    BY DEF RolesSetting, Account!TimesDiffer, Account!AccountTypeOK, Account!RequestRows, Account!Made
  <2>3. \A t \in Sessions : req[t].time \in Nat /\ (Account!Began(t) => req[t].time < now)
    BY DEF RolesSetting, Account!TimesDiffer, Account!AccountTypeOK, Account!Handlers
  <2>4. \A t \in Sessions : Account!Began(t)' => t = s \/ (req'[t] = req[t] /\ Account!Began(t))
    BY <2>1 DEF Account!Began
  <2>5. \A t \in Sessions : Account!Began(t)' => req'[t].time < now' /\ \A i \in Account!Made : requests[i].at # req'[t].time
    BY <2>1, <2>2, <2>3, <2>4 DEF Account!TimesDiffer
  <2>6. \A t, u \in Sessions : Account!Began(t)' /\ Account!Began(u)' /\ t # u => req'[t].time # req'[u].time
    BY <2>1, <2>3, <2>4 DEF Account!TimesDiffer
  <2> QED
    BY <1>1, <1>2, <2>1, <2>2, <2>5, <2>6 DEF Account!TimesDiffer
<1>7. ~irregular => Account!Selecting'
  <2>1. \A t \in Sessions : req'[t].at \in {"cancel", "replace"} =>
            req[t].at \in {"cancel", "replace"} /\ req'[t].seen = req[t].seen /\ req'[t].role = req[t].role
    BY RoleTypes DEF Account!AskSelect, Account!Begin, Account!AccountTypeOK, Account!Handlers
  <2> QED
    BY <1>2, <2>1 DEF Account!Selecting
<1>8. ~irregular => Account!Staging'
  <2>1. \A t \in Sessions : req'[t].at = "stage" => req[t].at = "stage" /\ req'[t].role = req[t].role
    BY RoleTypes DEF Account!AskSelect, Account!Begin, Account!AccountTypeOK, Account!Handlers
  <2> QED
    BY <1>1, <1>2, <2>1 DEF Account!Staging
<1> QED
  BY <1>1, <1>3, <1>4, <1>5, <1>6, <1>7, <1>8

LEMMA LockUserRegular ==
    ASSUME Account!ReviewIInv, Account!RegularIInv, NEW s \in Sessions, Account!LockUser(s)
    PROVE  Account!RegularIInv'
<1> USE DEF Account!ReviewIInv, Account!RegularIInv
<1>1. held' = held /\ requests' = requests /\ irregular' = irregular
  BY DEF Account!LockUser
<1>2. Account!Held' = Account!Held /\ Account!Made' = Account!Made /\ Account!Pending' = Account!Pending
  BY <1>1 DEF Account!Held, Account!Made, Account!Pending
<1>3. Account!OneSelected => Account!OneSelected'
  BY <1>2 DEF Account!OneSelected
<1>4. Account!RolesRequested => Account!RolesRequested'
  BY <1>1, <1>2 DEF Account!RolesRequested
<1>5. Account!PendingLast => Account!PendingLast'
  BY <1>1, <1>2 DEF Account!PendingLast, Account!NotStale
<1>6. Account!TimesDiffer'
  <2>1. \A t \in Sessions : Account!Began(t)' => Account!Began(t) /\ req'[t].time = req[t].time
    BY RoleTypes DEF Account!LockUser, Account!AccountTypeOK, Account!Began, Account!UserSteps, Account!Handlers
  <2> QED
    BY <1>1, <1>2, <2>1 DEF Account!TimesDiffer, Account!LockUser
<1>7. ~irregular => Account!Selecting'
  <2>1. ASSUME ~irregular, NEW t \in Sessions, req'[t].at \in {"cancel", "replace"}
        PROVE  Account!Held \subseteq req'[t].seen /\ (req'[t].role # Base => req'[t].role \notin req'[t].seen)
    <3>1. CASE t # s
      BY <2>1, <3>1 DEF Account!Selecting, Account!LockUser, Account!AccountTypeOK
    <3>2. CASE t = s
      <4>1. req'[s].seen = Account!Held /\ req'[s].role = req[s].role /\ req[s].role \in Account!AllRoles
        BY DEF Account!LockUser, Account!AccountTypeOK, Account!Handlers
      <4>2. \A p, q \in Account!Held \cap Roles : p = q
        BY <2>1 DEF Account!OneSelected
      <4>3. Account!Held \cap Roles # {req[s].role} \ {Base}
        BY DEF Account!LockUser, Account!IsCurrent
      <4> QED
        BY <3>2, <4>1, <4>2, <4>3 DEF Account!AllRoles
    <3> QED
      BY <3>1, <3>2
  <2> QED
    BY <1>2, <2>1 DEF Account!Selecting
<1>8. ~irregular => Account!Staging'
  <2>1. \A t \in Sessions : req'[t].at = "stage" => req[t].at = "stage" /\ req'[t].role = req[t].role
    BY RoleTypes DEF Account!LockUser, Account!AccountTypeOK, Account!Handlers
  <2> QED
    BY <1>1, <1>2, <2>1 DEF Account!Staging
<1> QED
  BY <1>1, <1>3, <1>4, <1>5, <1>6, <1>7, <1>8

LEMMA CancelPendingRegular ==
    ASSUME Account!ReviewIInv, Account!RegularIInv, NEW s \in Sessions, Account!CancelPending(s)
    PROVE  Account!RegularIInv'
<1> USE DEF Account!ReviewIInv, Account!RegularIInv
<1>1. held' = held /\ requests' = requests /\ irregular' = irregular
  BY DEF Account!CancelPending, Account!Goto
<1>2. Account!Held' = Account!Held /\ Account!Made' = Account!Made /\ Account!Pending' = Account!Pending
  BY <1>1 DEF Account!Held, Account!Made, Account!Pending
<1>3. Account!OneSelected => Account!OneSelected'
  BY <1>2 DEF Account!OneSelected
<1>4. Account!RolesRequested => Account!RolesRequested'
  BY <1>1, <1>2 DEF Account!RolesRequested
<1>5. Account!PendingLast => Account!PendingLast'
  BY <1>1, <1>2 DEF Account!PendingLast, Account!NotStale
<1>6. Account!TimesDiffer'
  <2>1. \A t \in Sessions : Account!Began(t)' => Account!Began(t) /\ req'[t].time = req[t].time
    BY RoleTypes DEF Account!CancelPending, Account!Goto, Account!AccountTypeOK, Account!Began,
       Account!UserSteps, Account!Handlers
  <2> QED
    BY <1>1, <1>2, <2>1 DEF Account!TimesDiffer, Account!CancelPending, Account!Goto
<1>7. ~irregular => Account!Selecting'
  <2>1. \A t \in Sessions : req'[t].at \in {"cancel", "replace"} =>
            req[t].at \in {"cancel", "replace"} /\ req'[t].seen = req[t].seen /\ req'[t].role = req[t].role
    BY RoleTypes DEF Account!CancelPending, Account!Goto, Account!AccountTypeOK, Account!Handlers
  <2> QED
    BY <1>2, <2>1 DEF Account!Selecting
<1>8. ~irregular => Account!Staging'
  <2>1. \A t \in Sessions : req'[t].at = "stage" => req[t].at = "stage" /\ req'[t].role = req[t].role
    BY RoleTypes DEF Account!CancelPending, Account!Goto, Account!AccountTypeOK, Account!Handlers
  <2> QED
    BY <1>1, <1>2, <2>1 DEF Account!Staging
<1> QED
  BY <1>1, <1>3, <1>4, <1>5, <1>6, <1>7, <1>8

LEMMA CommitSelectRegular ==
    ASSUME RolesSetting, Account!ReviewIInv, Account!RegularIInv, NEW s \in Sessions, Account!CommitSelect(s)
    PROVE  Account!RegularIInv'
<1> USE DEF Account!ReviewIInv, Account!RegularIInv
<1> DEFINE p == req[s].role
           time == req[s].time
           table == Account!Cancelled(s)
           row == [status |-> "PENDING", role |-> p, at |-> time]
<1>1. /\ table \in [Account!Ids -> Account!RequestRows] /\ Account!Made \subseteq Account!Ids /\ p \in Account!AllRoles /\ time \in 0..MaxTime
      /\ \A i \in Account!Ids : /\ (table[i].status = "NONE" <=> i \notin Account!Made)
                       /\ table[i].role = requests[i].role
                       /\ table[i].at = requests[i].at
  <2>1. table \in [Account!Ids -> Account!RequestRows] /\ Account!Made \subseteq Account!Ids /\ p \in Account!AllRoles /\ time \in 0..MaxTime
    BY DEF Account!Cancelled, Account!AccountTypeOK, Account!RequestRows, Account!Handlers, Account!Made
  <2>2. \A i \in Account!Ids : /\ (table[i].status = "NONE" <=> i \notin Account!Made)
                       /\ table[i].role = requests[i].role
                       /\ table[i].at = requests[i].at
    BY DEF Account!Cancelled, Account!AccountTypeOK, Account!RequestRows, Account!Made, Account!RequestsLocked,
       Account!Pending
  <2> QED
    BY <2>1, <2>2
<1>2. Account!Began(s) /\ \A t \in Sessions : Account!Began(t)' => t # s /\ Account!Began(t) /\ req'[t] = req[t]
  BY RoleTypes DEF Account!CommitSelect, Account!End, Account!AccountTypeOK, Account!Began, Account!UserSteps
<1>3. \A t \in Sessions : req'[t].at \notin {"cancel", "replace", "stage"}
  BY RoleTypes DEF Account!CommitSelect, Account!End, Account!AccountTypeOK, Account!UserLocked,
     Account!UserSteps
<1>4. \A i \in Account!Ids : table[i].status # "PENDING"
  BY DEF Account!CommitSelect, Account!RequestsLocked, Account!Cancelled, Account!AccountTypeOK, Account!Pending
<1>5. CASE p = Base
  <2>1. requests' = table /\ Account!Made' = Account!Made /\ Account!Pending' = {}
    BY <1>1, <1>4, <1>5 DEF Account!CommitSelect, Account!Made, Account!Pending
  <2>2. Account!TimesDiffer'
    BY <1>1, <1>2, <2>1 DEF Account!TimesDiffer, Account!CommitSelect
  <2>3. ASSUME ~irregular'
        PROVE  Account!OneSelected' /\ Account!RolesRequested'
    <3>1. ~irregular /\ Account!Held \subseteq req[s].seen
      BY <2>3 DEF Account!CommitSelect, Account!Selecting
    <3>2. held' = Account!Written(req[s].seen, {Base, p}, time)
      BY DEF Account!CommitSelect
    <3>3. ASSUME NEW q \in Account!AllRoles, held'[q].on
          PROVE  q = Base
      <4>1. q \in {Base, p} \/ (q \notin req[s].seen /\ held[q].on)
        BY <3>2, <3>3, RoleTypes DEF Account!Written
      <4> QED
        BY <1>5, <3>1, <4>1 DEF Account!Held
    <3>4. Account!Held' \subseteq {Base}
      BY <3>3 DEF Account!Held
    <3> QED
      BY <3>4 DEF RolesSetting, Account!OneSelected, Account!RolesRequested
  <2> QED
    BY <1>3, <2>1, <2>2, <2>3 DEF Account!Selecting, Account!Staging, Account!PendingLast
<1>6. CASE p # Base
  <2>1. p \in Roles
    BY <1>1, <1>6 DEF Account!AllRoles
  <2>2. PICK n \in Account!Ids : /\ n \notin Account!Made /\ Account!Made' = Account!Made \cup {n}
                        /\ requests' = [table EXCEPT ![n] = row]
    <3>1. requests' = Account!Staged(table, p, time) /\ Account!Cardinality(Account!Made) < MaxRequests
      BY <1>6, TRUE DEF Account!CommitSelect
    <3> HIDE DEF table, p, time
    <3> QED
      BY <1>1, <2>1, <3>1, StagedRows
  <2>3. /\ requests'[n] = row /\ n \in Account!Made'
        /\ \A i \in Account!Made : requests'[i].at = requests[i].at
    BY <1>1, <2>2
  <2>4. Account!TimesDiffer'
    <3>1. \A i \in Account!Made' : requests'[i].at < now' /\ (i \in Account!Made \/ requests'[i].at = time)
      BY <1>1, <1>2, <2>2, <2>3 DEF Account!TimesDiffer, Account!CommitSelect
    <3> QED
      BY <1>1, <1>2, <2>2, <2>3, <3>1 DEF Account!TimesDiffer, Account!CommitSelect
  <2>5. ASSUME ~irregular'
        PROVE  Account!OneSelected' /\ Account!RolesRequested' /\ Account!PendingLast'
    <3>1. ~irregular /\ ~Account!Overtaken(s)
      BY <2>5 DEF Account!CommitSelect
    <3>2. \A j \in Account!Made : requests'[j].at < time
      <4>1. \A j \in Account!Made : requests[j].at # time /\ ~(requests[j].at > time)
        BY <1>2, <3>1 DEF Account!TimesDiffer, Account!Overtaken
      <4>2. \A j \in Account!Made : requests[j].at \in 0..MaxTime
        BY <1>1 DEF Account!RequestRows
      <4> HIDE DEF time
      <4> QED
        BY <1>1, <2>3, <4>1, <4>2 DEF RolesSetting
    <3>3. Account!Pending' = {n}
      BY <1>1, <1>4, <2>2 DEF Account!Pending
    <3>4. Account!Held \subseteq req[s].seen /\ p \notin req[s].seen
      BY <3>1, <1>6 DEF Account!CommitSelect, Account!Selecting
    <3>5. Account!Held' \cap Roles \subseteq {p} /\ held'[p] = [on |-> TRUE, at |-> time, verified |-> FALSE]
      <4>1. held' = Account!Written(req[s].seen, {Base, p}, time)
        BY DEF Account!CommitSelect
      <4>2. held'[p] = [on |-> TRUE, at |-> time, verified |-> FALSE]
        <5>1. p \in {Base, p} \ req[s].seen
          BY <3>4
        <5> QED
          BY <1>1, <4>1, <5>1, RoleTypes DEF Account!Written
      <4>3. ASSUME NEW q \in Account!Held' \cap Roles
            PROVE  q = p
        <5>1. q \in Account!AllRoles /\ held'[q].on
          BY DEF Account!Held
        <5>2. q \in {Base, p} \/ (q \notin req[s].seen /\ held[q].on)
          BY <4>1, <5>1, RoleTypes DEF Account!Written
        <5> QED
          BY <3>4, <5>1, <5>2 DEF RolesSetting, Account!Held
      <4> QED
        BY <4>2, <4>3
    <3>6. Account!OneSelected'
      BY <3>5 DEF Account!OneSelected
    <3>7. Account!RolesRequested'
      BY <1>1, <2>3, <3>5 DEF RolesSetting, Account!RolesRequested
    <3>8. Account!PendingLast'
      BY <1>1, <2>2, <2>3, <3>2, <3>3, <3>5 DEF RolesSetting, Account!PendingLast, Account!NotStale
    <3> QED
      BY <3>6, <3>7, <3>8
  <2> QED
    BY <1>3, <2>4, <2>5 DEF Account!Selecting, Account!Staging
<1> QED
  BY <1>5, <1>6

LEMMA AskSubmitRegular ==
    ASSUME RolesSetting, Account!ReviewIInv, Account!RegularIInv, NEW s \in Sessions, Account!AskSubmit(s)
    PROVE  Account!RegularIInv'
<1> USE DEF Account!ReviewIInv, Account!RegularIInv
<1>1. held' = held /\ requests' = requests /\ irregular' = irregular
  BY DEF Account!AskSubmit, Account!Begin
<1>2. Account!Held' = Account!Held /\ Account!Made' = Account!Made /\ Account!Pending' = Account!Pending
  BY <1>1 DEF Account!Held, Account!Made, Account!Pending
<1>3. Account!OneSelected => Account!OneSelected'
  BY <1>2 DEF Account!OneSelected
<1>4. Account!RolesRequested => Account!RolesRequested'
  BY <1>1, <1>2 DEF Account!RolesRequested
<1>5. Account!PendingLast => Account!PendingLast'
  BY <1>1, <1>2 DEF Account!PendingLast, Account!NotStale
<1>6. Account!TimesDiffer'
  <2>1. /\ now' = now + 1 /\ now \in Nat /\ req'[s].time = now
        /\ \A t \in Sessions \ {s} : req'[t] = req[t]
    BY DEF RolesSetting, Account!AskSubmit, Account!Begin, Account!AccountTypeOK, Account!Handlers, Account!Idle
  <2>2. \A i \in Account!Made : requests[i].at \in Nat /\ requests[i].at < now
    BY DEF RolesSetting, Account!TimesDiffer, Account!AccountTypeOK, Account!RequestRows, Account!Made
  <2>3. \A t \in Sessions : req[t].time \in Nat /\ (Account!Began(t) => req[t].time < now)
    BY DEF RolesSetting, Account!TimesDiffer, Account!AccountTypeOK, Account!Handlers
  <2>4. \A t \in Sessions : Account!Began(t)' => t = s \/ (req'[t] = req[t] /\ Account!Began(t))
    BY <2>1 DEF Account!Began
  <2>5. \A t \in Sessions : Account!Began(t)' => req'[t].time < now' /\ \A i \in Account!Made : requests[i].at # req'[t].time
    BY <2>1, <2>2, <2>3, <2>4 DEF Account!TimesDiffer
  <2>6. \A t, u \in Sessions : Account!Began(t)' /\ Account!Began(u)' /\ t # u => req'[t].time # req'[u].time
    BY <2>1, <2>3, <2>4 DEF Account!TimesDiffer
  <2> QED
    BY <1>1, <1>2, <2>1, <2>2, <2>5, <2>6 DEF Account!TimesDiffer
<1>7. ~irregular => Account!Selecting'
  <2>1. \A t \in Sessions : req'[t].at \in {"cancel", "replace"} =>
            req[t].at \in {"cancel", "replace"} /\ req'[t].seen = req[t].seen /\ req'[t].role = req[t].role
    BY RoleTypes DEF Account!AskSubmit, Account!Begin, Account!AccountTypeOK, Account!Handlers
  <2> QED
    BY <1>2, <2>1 DEF Account!Selecting
<1>8. ~irregular => Account!Staging'
  <2>1. \A t \in Sessions : req'[t].at = "stage" => req[t].at = "stage" /\ req'[t].role = req[t].role
    BY RoleTypes DEF Account!AskSubmit, Account!Begin, Account!AccountTypeOK, Account!Handlers
  <2> QED
    BY <1>1, <1>2, <2>1 DEF Account!Staging
<1> QED
  BY <1>1, <1>3, <1>4, <1>5, <1>6, <1>7, <1>8

LEMMA CheckStateRegular ==
    ASSUME RolesSetting, Account!ReviewIInv, Account!RegularIInv, NEW s \in Sessions, Account!CheckState(s)
    PROVE  Account!RegularIInv'
<1> USE DEF Account!ReviewIInv, Account!RegularIInv
<1>1. held' = held /\ requests' = requests /\ irregular' = irregular
  BY DEF Account!CheckState
<1>2. Account!Held' = Account!Held /\ Account!Made' = Account!Made /\ Account!Pending' = Account!Pending
  BY <1>1 DEF Account!Held, Account!Made, Account!Pending
<1>3. Account!OneSelected => Account!OneSelected'
  BY <1>2 DEF Account!OneSelected
<1>4. Account!RolesRequested => Account!RolesRequested'
  BY <1>1, <1>2 DEF Account!RolesRequested
<1>5. Account!PendingLast => Account!PendingLast'
  BY <1>1, <1>2 DEF Account!PendingLast, Account!NotStale
<1>6. Account!TimesDiffer'
  <2>1. \A t \in Sessions : Account!Began(t)' => Account!Began(t) /\ req'[t].time = req[t].time
    BY RoleTypes DEF Account!CheckState, Account!AccountTypeOK, Account!Began, Account!UserSteps,
       Account!Handlers
  <2> QED
    BY <1>1, <1>2, <2>1 DEF Account!TimesDiffer, Account!CheckState
<1>7. ~irregular => Account!Selecting'
  <2>1. \A t \in Sessions : req'[t].at \in {"cancel", "replace"} =>
            req[t].at \in {"cancel", "replace"} /\ req'[t].seen = req[t].seen /\ req'[t].role = req[t].role
    BY RoleTypes DEF Account!CheckState, Account!AccountTypeOK, Account!Handlers
  <2> QED
    BY <1>2, <2>1 DEF Account!Selecting
<1>8. ~irregular => Account!Staging'
  <2>1. ASSUME ~irregular
        PROVE  Account!Pending = {} /\ held[Account!Current].on /\ ~held[Account!Current].verified
    <3>1. Account!Current \in Account!Held \cap Roles
      BY CurrentRole DEF Account!CheckState
    <3>2. ASSUME NEW i \in Account!Pending
          PROVE  FALSE
      <4>1. i \in Account!Made /\ Account!NotStale(i, requests[i].role) /\ requests[i].role \in Roles
        BY <2>1 DEF Account!PendingLast, Account!RequestsNumbered, Account!Pending, Account!Made
      <4>2. requests[i].role = Account!Current
        BY <2>1, <3>1, <4>1 DEF Account!OneSelected, Account!NotStale, Account!Held, Account!AllRoles
      <4>3. requests[i].at \in Nat /\ held[Account!Current].at \in Nat
        BY <3>1, <4>1 DEF RolesSetting, Account!AccountTypeOK, Account!RequestRows, Account!RoleRows,
           Account!Held, Account!Made
      <4>4. i \in Account!Applicable(Account!Current)
        BY <4>1, <4>2, <4>3 DEF Account!Applicable, Account!NotStale
      <4>5. \A j \in Account!Applicable(Account!Current) : requests[j].at \in Nat /\ (j # i => requests[j].at < requests[i].at)
        BY <2>1 DEF RolesSetting, Account!PendingLast, Account!Applicable, Account!Made, Account!AccountTypeOK,
           Account!RequestRows
      <4>6. Account!Latest(Account!Applicable(Account!Current)) = i
        <5>1. \A j \in Account!Applicable(Account!Current) : requests[j].at <= requests[i].at
          BY <4>3, <4>5
        <5> DEFINE l == Account!Latest(Account!Applicable(Account!Current))
        <5>2. l \in Account!Applicable(Account!Current) /\ requests[i].at <= requests[l].at
          BY <4>4, <5>1 DEF Account!Latest
        <5> HIDE DEF l
        <5>3. l = i
          BY <4>3, <4>5, <5>2
        <5> QED
          BY <5>3 DEF l
      <4> QED
        BY <3>2, <4>4, <4>6 DEF Account!CheckState, Account!Resubmittable, Account!Pending
    <3> QED
      BY <3>1, <3>2 DEF Account!CheckState, Account!Resubmittable, Account!Held
  <2>2. \A t \in Sessions : req'[t].at = "stage" => (req[t].at = "stage" /\ req'[t].role = req[t].role) \/ req'[t].role = Account!Current
    BY DEF Account!CheckState, Account!AccountTypeOK, Account!Handlers
  <2> QED
    BY <1>1, <1>2, <2>1, <2>2 DEF Account!Staging
<1> QED
  BY <1>1, <1>3, <1>4, <1>5, <1>6, <1>7, <1>8

LEMMA CommitSubmitRegular ==
    ASSUME RolesSetting, Account!ReviewIInv, Account!RegularIInv, NEW s \in Sessions, Account!CommitSubmit(s)
    PROVE  Account!RegularIInv'
<1> USE DEF Account!ReviewIInv, Account!RegularIInv
<1> DEFINE p == req[s].role
           time == req[s].time
           table == requests
           row == [status |-> "PENDING", role |-> p, at |-> time]
<1>1. /\ table \in [Account!Ids -> Account!RequestRows] /\ Account!Made \subseteq Account!Ids /\ p \in Account!AllRoles /\ time \in 0..MaxTime
      /\ \A i \in Account!Ids : /\ (table[i].status = "NONE" <=> i \notin Account!Made)
                       /\ table[i].role = requests[i].role
                       /\ table[i].at = requests[i].at
  <2>1. table \in [Account!Ids -> Account!RequestRows] /\ Account!Made \subseteq Account!Ids /\ p \in Account!AllRoles /\ time \in 0..MaxTime
    BY DEF Account!Cancelled, Account!AccountTypeOK, Account!RequestRows, Account!Handlers, Account!Made
  <2>2. \A i \in Account!Ids : /\ (table[i].status = "NONE" <=> i \notin Account!Made)
                       /\ table[i].role = requests[i].role
                       /\ table[i].at = requests[i].at
    BY DEF Account!Cancelled, Account!AccountTypeOK, Account!RequestRows, Account!Made, Account!RequestsLocked,
       Account!Pending
  <2> QED
    BY <2>1, <2>2
<1>2. Account!Began(s) /\ \A t \in Sessions : Account!Began(t)' => t # s /\ Account!Began(t) /\ req'[t] = req[t]
  BY RoleTypes DEF Account!CommitSubmit, Account!End, Account!AccountTypeOK, Account!Began, Account!UserSteps
<1>3. \A t \in Sessions : req'[t].at \notin {"cancel", "replace", "stage"}
  BY RoleTypes DEF Account!CommitSubmit, Account!End, Account!AccountTypeOK, Account!UserLocked,
     Account!UserSteps
<1>6. Account!RegularIInv'
  <2>1. p \in Roles
    BY DEF Account!CommitSubmit, Account!RequestsNumbered
  <2>2. PICK n \in Account!Ids : /\ n \notin Account!Made /\ Account!Made' = Account!Made \cup {n}
                        /\ requests' = [table EXCEPT ![n] = row]
    <3>1. requests' = Account!Staged(table, p, time) /\ Account!Cardinality(Account!Made) < MaxRequests
      BY TRUE DEF Account!CommitSubmit
    <3> HIDE DEF table, p, time
    <3> QED
      BY <1>1, <2>1, <3>1, StagedRows
  <2>3. /\ requests'[n] = row /\ n \in Account!Made'
        /\ \A i \in Account!Made : requests'[i].at = requests[i].at
    BY <1>1, <2>2
  <2>4. Account!TimesDiffer'
    <3>1. \A i \in Account!Made' : requests'[i].at < now' /\ (i \in Account!Made \/ requests'[i].at = time)
      BY <1>1, <1>2, <2>2, <2>3 DEF Account!TimesDiffer, Account!CommitSubmit
    <3> QED
      BY <1>1, <1>2, <2>2, <2>3, <3>1 DEF Account!TimesDiffer, Account!CommitSubmit
  <2>5. ASSUME ~irregular'
        PROVE  Account!OneSelected' /\ Account!RolesRequested' /\ Account!PendingLast'
    <3>1. ~irregular /\ ~Account!Overtaken(s)
      BY <2>5 DEF Account!CommitSubmit
    <3>2. \A j \in Account!Made : requests'[j].at < time
      BY <1>1, <1>2, <2>3, <3>1 DEF RolesSetting, Account!TimesDiffer, Account!Overtaken, Account!RequestRows
    <3>3. Account!Pending' = {n} /\ held[p].on /\ ~held[p].verified
      BY <1>1, <2>2, <3>1 DEF Account!Pending, Account!Staging, Account!CommitSubmit
    <3>4. p \in Account!Held \cap Roles /\ held[p].at \in Nat
      BY <1>1, <2>1, <3>3 DEF RolesSetting, Account!Held, Account!AccountTypeOK, Account!RoleRows
    <3>5. PICK i \in Account!Made : requests[i].at >= held[p].at
      BY <3>1, <3>4 DEF Account!RolesRequested
    <3>6. held[p].at <= time
      BY <1>1, <2>3, <3>2, <3>4, <3>5 DEF RolesSetting, Account!RequestRows
    <3>7. Account!OneSelected' /\ Account!RolesRequested'
      BY <2>2, <2>3, <3>1 DEF Account!OneSelected, Account!RolesRequested, Account!Held, Account!CommitSubmit
    <3>8. Account!PendingLast'
      BY <1>1, <2>2, <2>3, <3>2, <3>3, <3>6 DEF Account!PendingLast, Account!NotStale, Account!CommitSubmit
    <3> QED
      BY <3>7, <3>8
  <2> QED
    BY <1>3, <2>4, <2>5 DEF Account!Selecting, Account!Staging
<1> QED
  BY <1>6

LEMMA LockRequestRegular ==
    ASSUME Account!ReviewIInv, Account!RegularIInv, NEW s \in Sessions, NEW k \in Account!Ids, NEW statement \in {"approve", "reject"}, Account!LockRequest(s, k, statement)
    PROVE  Account!RegularIInv'
<1> USE DEF Account!ReviewIInv, Account!RegularIInv
<1>1. held' = held /\ requests' = requests /\ irregular' = irregular
  BY DEF Account!LockRequest
<1>2. Account!Held' = Account!Held /\ Account!Made' = Account!Made /\ Account!Pending' = Account!Pending
  BY <1>1 DEF Account!Held, Account!Made, Account!Pending
<1>3. Account!OneSelected => Account!OneSelected'
  BY <1>2 DEF Account!OneSelected
<1>4. Account!RolesRequested => Account!RolesRequested'
  BY <1>1, <1>2 DEF Account!RolesRequested
<1>5. Account!PendingLast => Account!PendingLast'
  BY <1>1, <1>2 DEF Account!PendingLast, Account!NotStale
<1>6. Account!TimesDiffer'
  <2>1. \A t \in Sessions : Account!Began(t)' => Account!Began(t) /\ req'[t].time = req[t].time
    BY RoleTypes DEF Account!LockRequest, Account!AccountTypeOK, Account!Began, Account!UserSteps,
       Account!Handlers
  <2> QED
    BY <1>1, <1>2, <2>1 DEF Account!TimesDiffer, Account!LockRequest
<1>7. ~irregular => Account!Selecting'
  <2>1. \A t \in Sessions : req'[t].at \in {"cancel", "replace"} =>
            req[t].at \in {"cancel", "replace"} /\ req'[t].seen = req[t].seen /\ req'[t].role = req[t].role
    BY RoleTypes DEF Account!LockRequest, Account!AccountTypeOK, Account!Handlers
  <2> QED
    BY <1>2, <2>1 DEF Account!Selecting
<1>8. ~irregular => Account!Staging'
  <2>1. \A t \in Sessions : req'[t].at = "stage" => req[t].at = "stage" /\ req'[t].role = req[t].role
    BY RoleTypes DEF Account!LockRequest, Account!AccountTypeOK, Account!Handlers
  <2> QED
    BY <1>1, <1>2, <2>1 DEF Account!Staging
<1> QED
  BY <1>1, <1>3, <1>4, <1>5, <1>6, <1>7, <1>8

LEMMA LockAssignmentRegular ==
    ASSUME Account!ReviewIInv, Account!RegularIInv, NEW s \in Sessions, Account!LockAssignment(s)
    PROVE  Account!RegularIInv'
<1> USE DEF Account!ReviewIInv, Account!RegularIInv
<1>1. held' = held /\ requests' = requests /\ irregular' = irregular
  BY DEF Account!LockAssignment, Account!Goto
<1>2. Account!Held' = Account!Held /\ Account!Made' = Account!Made /\ Account!Pending' = Account!Pending
  BY <1>1 DEF Account!Held, Account!Made, Account!Pending
<1>3. Account!OneSelected => Account!OneSelected'
  BY <1>2 DEF Account!OneSelected
<1>4. Account!RolesRequested => Account!RolesRequested'
  BY <1>1, <1>2 DEF Account!RolesRequested
<1>5. Account!PendingLast => Account!PendingLast'
  BY <1>1, <1>2 DEF Account!PendingLast, Account!NotStale
<1>6. Account!TimesDiffer'
  <2>1. \A t \in Sessions : Account!Began(t)' => Account!Began(t) /\ req'[t].time = req[t].time
    BY RoleTypes DEF Account!LockAssignment, Account!Goto, Account!AccountTypeOK, Account!Began,
       Account!UserSteps, Account!Handlers
  <2> QED
    BY <1>1, <1>2, <2>1 DEF Account!TimesDiffer, Account!LockAssignment, Account!Goto
<1>7. ~irregular => Account!Selecting'
  <2>1. \A t \in Sessions : req'[t].at \in {"cancel", "replace"} =>
            req[t].at \in {"cancel", "replace"} /\ req'[t].seen = req[t].seen /\ req'[t].role = req[t].role
    BY RoleTypes DEF Account!LockAssignment, Account!Goto, Account!AccountTypeOK, Account!Handlers
  <2> QED
    BY <1>2, <2>1 DEF Account!Selecting
<1>8. ~irregular => Account!Staging'
  <2>1. \A t \in Sessions : req'[t].at = "stage" => req[t].at = "stage" /\ req'[t].role = req[t].role
    BY RoleTypes DEF Account!LockAssignment, Account!Goto, Account!AccountTypeOK, Account!Handlers
  <2> QED
    BY <1>1, <1>2, <2>1 DEF Account!Staging
<1> QED
  BY <1>1, <1>3, <1>4, <1>5, <1>6, <1>7, <1>8

LEMMA ReadRolesRegular ==
    ASSUME Account!ReviewIInv, Account!RegularIInv, NEW s \in Sessions, Account!ReadRoles(s)
    PROVE  Account!RegularIInv'
<1> USE DEF Account!ReviewIInv, Account!RegularIInv
<1>1. held' = held /\ requests' = requests /\ irregular' = irregular
  BY DEF Account!ReadRoles
<1>2. Account!Held' = Account!Held /\ Account!Made' = Account!Made /\ Account!Pending' = Account!Pending
  BY <1>1 DEF Account!Held, Account!Made, Account!Pending
<1>3. Account!OneSelected => Account!OneSelected'
  BY <1>2 DEF Account!OneSelected
<1>4. Account!RolesRequested => Account!RolesRequested'
  BY <1>1, <1>2 DEF Account!RolesRequested
<1>5. Account!PendingLast => Account!PendingLast'
  BY <1>1, <1>2 DEF Account!PendingLast, Account!NotStale
<1>6. Account!TimesDiffer'
  <2>1. \A t \in Sessions : Account!Began(t)' => Account!Began(t) /\ req'[t].time = req[t].time
    BY RoleTypes DEF Account!ReadRoles, Account!AccountTypeOK, Account!Began, Account!UserSteps,
       Account!Handlers
  <2> QED
    BY <1>1, <1>2, <2>1 DEF Account!TimesDiffer, Account!ReadRoles
<1>7. ~irregular => Account!Selecting'
  <2>1. \A t \in Sessions : req'[t].at \in {"cancel", "replace"} =>
            req[t].at \in {"cancel", "replace"} /\ req'[t].seen = req[t].seen /\ req'[t].role = req[t].role
    BY RoleTypes DEF Account!ReadRoles, Account!AccountTypeOK, Account!Handlers
  <2> QED
    BY <1>2, <2>1 DEF Account!Selecting
<1>8. ~irregular => Account!Staging'
  <2>1. \A t \in Sessions : req'[t].at = "stage" => req[t].at = "stage" /\ req'[t].role = req[t].role
    BY RoleTypes DEF Account!ReadRoles, Account!AccountTypeOK, Account!Handlers
  <2> QED
    BY <1>1, <1>2, <2>1 DEF Account!Staging
<1> QED
  BY <1>1, <1>3, <1>4, <1>5, <1>6, <1>7, <1>8

LEMMA CommitApproveRegular ==
    ASSUME RolesSetting, Account!ReviewIInv, Account!RegularIInv, NEW s \in Sessions, Account!CommitApprove(s)
    PROVE  Account!RegularIInv'
<1> USE DEF Account!ReviewIInv, Account!RegularIInv
<1>1. Account!Made' = Account!Made /\ \A i \in Account!Made : requests'[i].at = requests[i].at
  BY DEF Account!CommitApprove, Account!Made, Account!Decided, Account!AccountTypeOK, Account!RequestsLocked,
     Account!ReviewSteps, Account!Pending
<1>2. \A t \in Sessions : req'[t].at # "idle" => t # s /\ req'[t] = req[t]
  BY RoleTypes DEF Account!CommitApprove, Account!End, Account!AccountTypeOK
<1>3. Account!TimesDiffer'
  BY <1>1, <1>2 DEF Account!TimesDiffer, Account!Began, Account!UserSteps, Account!CommitApprove
<1>4. ASSUME ~irregular'
      PROVE  Account!OneSelected' /\ Account!Selecting' /\ Account!Staging' /\ Account!RolesRequested' /\ Account!PendingLast'
  <2>1. ~irregular /\ Account!Pending = {req[s].id} /\ req[s].id \in Account!Ids
    BY <1>4, ReviewedLast DEF Account!CommitApprove, Account!ReviewSteps, Account!RequestsLocked
  <2>2. Account!Pending' = {}
    BY <2>1 DEF Account!CommitApprove, Account!Decided, Account!Pending, Account!AccountTypeOK,
       Account!RequestRows
  <2>3. \A q \in Account!AllRoles : held'[q].on => held[q].on /\ held'[q].at = held[q].at
    <3> DEFINE w == Account!Written(req[s].seen, req[s].seen \ {Base}, 0)
    <3>1. w \in [Account!AllRoles -> Account!RoleRows] /\ held' = [w EXCEPT ![req[s].role].verified = TRUE]
      BY WrittenTyped, RoleValues DEF Account!CommitApprove
    <3>2. \A q \in Account!AllRoles : w[q].on => w[q] = held[q]
      <4>1. req[s].seen \ {Base} \subseteq req[s].seen
        OBVIOUS
      <4> QED
        BY <4>1, RoleTypes DEF Account!Written
    <3> HIDE DEF w
    <3> QED
      BY <3>1, <3>2 DEF Account!RoleRows
  <2>4. Account!Held' \subseteq Account!Held
    BY <2>3 DEF Account!Held
  <2>5. Account!OneSelected' /\ Account!RolesRequested'
    BY <1>1, <2>1, <2>3, <2>4 DEF Account!OneSelected, Account!RolesRequested, Account!Held
  <2>6. Account!Selecting' /\ Account!Staging'
    BY <1>2, <2>1, <2>4 DEF Account!Selecting, Account!Staging
  <2> QED
    BY <2>2, <2>5, <2>6 DEF Account!PendingLast
<1> QED
  BY <1>3, <1>4

LEMMA CommitRejectRegular ==
    ASSUME RolesSetting, Account!ReviewIInv, Account!RegularIInv, NEW s \in Sessions, Account!CommitReject(s)
    PROVE  Account!RegularIInv'
<1> USE DEF Account!ReviewIInv, Account!RegularIInv
<1>1. Account!Made' = Account!Made /\ \A i \in Account!Made : requests'[i].at = requests[i].at
  BY DEF Account!CommitReject, Account!Made, Account!Decided, Account!AccountTypeOK, Account!RequestsLocked,
     Account!ReviewSteps, Account!Pending
<1>2. \A t \in Sessions : req'[t].at # "idle" => t # s /\ req'[t] = req[t]
  BY RoleTypes DEF Account!CommitReject, Account!End, Account!AccountTypeOK
<1>3. Account!TimesDiffer'
  BY <1>1, <1>2 DEF Account!TimesDiffer, Account!Began, Account!UserSteps, Account!CommitReject
<1>4. ASSUME ~irregular'
      PROVE  Account!OneSelected' /\ Account!Selecting' /\ Account!Staging' /\ Account!RolesRequested' /\ Account!PendingLast'
  <2>1. ~irregular /\ Account!Pending = {req[s].id} /\ req[s].id \in Account!Ids
    BY <1>4, ReviewedLast DEF Account!CommitReject, Account!ReviewSteps, Account!RequestsLocked
  <2>2. Account!Pending' = {}
    BY <2>1 DEF Account!CommitReject, Account!Decided, Account!Pending, Account!AccountTypeOK,
       Account!RequestRows
  <2>3. \A q \in Account!AllRoles : held'[q].on => held[q].on /\ held'[q].at = held[q].at
    <3>1. held' = Account!Written(req[s].seen, req[s].seen \ {req[s].role}, 0) /\ req[s].seen \ {req[s].role} \subseteq req[s].seen
      BY DEF Account!CommitReject
    <3> QED
      BY <3>1, RoleTypes DEF Account!Written
  <2>4. Account!Held' \subseteq Account!Held
    BY <2>3 DEF Account!Held
  <2>5. Account!OneSelected' /\ Account!RolesRequested'
    BY <1>1, <2>1, <2>3, <2>4 DEF Account!OneSelected, Account!RolesRequested, Account!Held
  <2>6. Account!Selecting' /\ Account!Staging'
    BY <1>2, <2>1, <2>4 DEF Account!Selecting, Account!Staging
  <2> QED
    BY <2>2, <2>5, <2>6 DEF Account!PendingLast
<1> QED
  BY <1>3, <1>4

LEMMA AskAssignRegular ==
    ASSUME RolesSetting, Account!ReviewIInv, Account!RegularIInv, NEW s \in Sessions, NEW roles \in SUBSET Account!AllRoles, Account!AskAssign(s, roles)
    PROVE  Account!RegularIInv'
<1> USE DEF Account!ReviewIInv, Account!RegularIInv
<1>1. held' = held /\ requests' = requests /\ irregular' = irregular
  BY DEF Account!AskAssign, Account!Begin
<1>2. Account!Held' = Account!Held /\ Account!Made' = Account!Made /\ Account!Pending' = Account!Pending
  BY <1>1 DEF Account!Held, Account!Made, Account!Pending
<1>3. Account!OneSelected => Account!OneSelected'
  BY <1>2 DEF Account!OneSelected
<1>4. Account!RolesRequested => Account!RolesRequested'
  BY <1>1, <1>2 DEF Account!RolesRequested
<1>5. Account!PendingLast => Account!PendingLast'
  BY <1>1, <1>2 DEF Account!PendingLast, Account!NotStale
<1>6. Account!TimesDiffer'
  <2>1. /\ now' = now + 1 /\ now \in Nat /\ req'[s].time = now
        /\ \A t \in Sessions \ {s} : req'[t] = req[t]
    BY DEF RolesSetting, Account!AskAssign, Account!Begin, Account!AccountTypeOK, Account!Handlers, Account!Idle
  <2>2. \A i \in Account!Made : requests[i].at \in Nat /\ requests[i].at < now
    BY DEF RolesSetting, Account!TimesDiffer, Account!AccountTypeOK, Account!RequestRows, Account!Made
  <2>3. \A t \in Sessions : req[t].time \in Nat /\ (Account!Began(t) => req[t].time < now)
    BY DEF RolesSetting, Account!TimesDiffer, Account!AccountTypeOK, Account!Handlers
  <2>4. \A t \in Sessions : Account!Began(t)' => t = s \/ (req'[t] = req[t] /\ Account!Began(t))
    BY <2>1 DEF Account!Began
  <2>5. \A t \in Sessions : Account!Began(t)' => req'[t].time < now' /\ \A i \in Account!Made : requests[i].at # req'[t].time
    BY <2>1, <2>2, <2>3, <2>4 DEF Account!TimesDiffer
  <2>6. \A t, u \in Sessions : Account!Began(t)' /\ Account!Began(u)' /\ t # u => req'[t].time # req'[u].time
    BY <2>1, <2>3, <2>4 DEF Account!TimesDiffer
  <2> QED
    BY <1>1, <1>2, <2>1, <2>2, <2>5, <2>6 DEF Account!TimesDiffer
<1>7. ~irregular => Account!Selecting'
  <2>1. \A t \in Sessions : req'[t].at \in {"cancel", "replace"} =>
            req[t].at \in {"cancel", "replace"} /\ req'[t].seen = req[t].seen /\ req'[t].role = req[t].role
    BY RoleTypes DEF Account!AskAssign, Account!Begin, Account!AccountTypeOK, Account!Handlers
  <2> QED
    BY <1>2, <2>1 DEF Account!Selecting
<1>8. ~irregular => Account!Staging'
  <2>1. \A t \in Sessions : req'[t].at = "stage" => req[t].at = "stage" /\ req'[t].role = req[t].role
    BY RoleTypes DEF Account!AskAssign, Account!Begin, Account!AccountTypeOK, Account!Handlers
  <2> QED
    BY <1>1, <1>2, <2>1 DEF Account!Staging
<1> QED
  BY <1>1, <1>3, <1>4, <1>5, <1>6, <1>7, <1>8

LEMMA CommitAssignRegular ==
    ASSUME Account!ReviewIInv, Account!RegularIInv, NEW s \in Sessions, Account!CommitAssign(s)
    PROVE  Account!RegularIInv'
<1> USE DEF Account!ReviewIInv, Account!RegularIInv
<1>1. \A t \in Sessions : req'[t].at # "idle" => t # s /\ req'[t] = req[t]
  BY RoleTypes DEF Account!CommitAssign, Account!End, Account!AccountTypeOK
<1>2. Account!TimesDiffer'
  BY <1>1 DEF Account!TimesDiffer, Account!Began, Account!UserSteps, Account!CommitAssign, Account!Made
<1> QED
  BY <1>2 DEF Account!CommitAssign

LEMMA AbandonRegular ==
    ASSUME Account!ReviewIInv, Account!RegularIInv, NEW s \in Sessions, Account!Abandon(s)
    PROVE  Account!RegularIInv'
<1> USE DEF Account!ReviewIInv, Account!RegularIInv
<1>1. held' = held /\ requests' = requests /\ irregular' = irregular
  BY DEF Account!Abandon
<1>2. Account!Held' = Account!Held /\ Account!Made' = Account!Made /\ Account!Pending' = Account!Pending
  BY <1>1 DEF Account!Held, Account!Made, Account!Pending
<1>3. Account!OneSelected => Account!OneSelected'
  BY <1>2 DEF Account!OneSelected
<1>4. Account!RolesRequested => Account!RolesRequested'
  BY <1>1, <1>2 DEF Account!RolesRequested
<1>5. Account!PendingLast => Account!PendingLast'
  BY <1>1, <1>2 DEF Account!PendingLast, Account!NotStale
<1>6. Account!TimesDiffer'
  <2>1. \A t \in Sessions : Account!Began(t)' => Account!Began(t) /\ req'[t].time = req[t].time
    BY RoleTypes DEF Account!Abandon, Account!End, Account!AccountTypeOK, Account!Began, Account!UserSteps,
       Account!Handlers
  <2> QED
    BY <1>1, <1>2, <2>1 DEF Account!TimesDiffer, Account!Abandon
<1>7. ~irregular => Account!Selecting'
  <2>1. \A t \in Sessions : req'[t].at \in {"cancel", "replace"} =>
            req[t].at \in {"cancel", "replace"} /\ req'[t].seen = req[t].seen /\ req'[t].role = req[t].role
    BY RoleTypes DEF Account!Abandon, Account!End, Account!AccountTypeOK, Account!Handlers
  <2> QED
    BY <1>2, <2>1 DEF Account!Selecting
<1>8. ~irregular => Account!Staging'
  <2>1. \A t \in Sessions : req'[t].at = "stage" => req[t].at = "stage" /\ req'[t].role = req[t].role
    BY RoleTypes DEF Account!Abandon, Account!End, Account!AccountTypeOK, Account!Handlers
  <2> QED
    BY <1>1, <1>2, <2>1 DEF Account!Staging
<1> QED
  BY <1>1, <1>3, <1>4, <1>5, <1>6, <1>7, <1>8

LEMMA RolesStand ==
    ASSUME Account!ReviewIInv, Account!RegularIInv, UNCHANGED Account!accountVars
    PROVE  Account!ReviewIInv' /\ Account!RegularIInv'
<1>1. held' = held /\ requests' = requests /\ req' = req /\ Account!Made' = Account!Made /\ Account!Held' = Account!Held /\ Account!Pending' = Account!Pending
  BY DEF Account!accountVars, Account!Made, Account!Held, Account!Pending
<1>2. Account!AccountTypeOK' /\ Account!UserLocked' /\ Account!RolesLocked'
  BY <1>1 DEF Account!ReviewIInv, Account!accountVars, Account!AccountTypeOK, Account!UserLocked,
     Account!RolesLocked, Account!NotStale
<1>3. Account!RequestsLocked' /\ Account!RequestsNumbered'
  BY <1>1 DEF Account!ReviewIInv, Account!accountVars, Account!RequestsLocked, Account!RequestsNumbered
<1>4. Account!VerifiedByReview'
  BY <1>1 DEF Account!ReviewIInv, Account!VerifiedByReview, Account!Applicable
<1>5. Account!TimesDiffer'
  BY <1>1 DEF Account!RegularIInv, Account!TimesDiffer, Account!Began, Account!accountVars
<1>6. ~irregular' => Account!OneSelected' /\ Account!Selecting' /\ Account!Staging' /\ Account!RolesRequested' /\ Account!PendingLast'
  BY <1>1 DEF Account!RegularIInv, Account!accountVars, Account!OneSelected, Account!Selecting,
     Account!Staging, Account!RolesRequested, Account!PendingLast, Account!NotStale
<1> QED
  BY <1>2, <1>3, <1>4, <1>5, <1>6 DEF Account!ReviewIInv, Account!RegularIInv

LEMMA RolesStep ==
    ASSUME RolesSetting, Account!ReviewIInv, Account!RegularIInv, Account!AccountNext
    PROVE  Account!ReviewIInv' /\ Account!RegularIInv'
<1> PICK s \in Sessions : Account!UserNext(s) \/ Account!ReviewNext(s) \/ Account!AssignNext(s) \/ Account!Abandon(s)
  BY DEF Account!AccountNext
<1>1. CASE Account!UserNext(s)
  BY <1>1, AskSelectReviewed, AskSelectRegular, LockUserReviewed, LockUserRegular, CancelPendingReviewed,
     CancelPendingRegular, CommitSelectReviewed, CommitSelectRegular, AskSubmitReviewed, AskSubmitRegular,
        CheckStateReviewed, CheckStateRegular, CommitSubmitReviewed, CommitSubmitRegular DEF Account!UserNext
<1>2. CASE Account!ReviewNext(s)
  BY <1>2, LockRequestReviewed, LockRequestRegular, LockAssignmentReviewed, LockAssignmentRegular,
     ReadRolesReviewed, ReadRolesRegular, CommitApproveReviewed, CommitApproveRegular, CommitRejectReviewed,
        CommitRejectRegular DEF Account!ReviewNext
<1>3. CASE Account!AssignNext(s)
  BY <1>3, AskAssignReviewed, AskAssignRegular, CommitAssignReviewed, CommitAssignRegular DEF Account!AssignNext
<1>4. CASE Account!Abandon(s)
  BY <1>4, AbandonReviewed, AbandonRegular
<1> QED
  BY <1>1, <1>2, <1>3, <1>4

LEMMA RolesGood ==
    ASSUME Account!ReviewIInv, Account!RegularIInv
    PROVE  Account!VerifiedByReview /\ Account!PendingReviewable
<1>1. ASSUME ~irregular
      PROVE  Account!Cardinality(Account!Held \cap Roles) <= 1
  <2>1. CASE Account!Held \cap Roles = {}
    BY <2>1, FS_EmptySet, RolesByCardinality
  <2>2. CASE Account!Held \cap Roles # {}
    <3>1. PICK r \in Account!Held \cap Roles : TRUE
      BY <2>2
    <3>2. Account!Held \cap Roles = {r}
      BY <1>1, <3>1 DEF Account!RegularIInv, Account!OneSelected
    <3> QED
      BY <3>2, FS_Singleton, RolesByCardinality
  <2> QED
    BY <2>1, <2>2
<1> QED
  BY <1>1 DEF Account!ReviewIInv, Account!RegularIInv, Account!PendingReviewable, Account!PendingLast

-----------------------------------------------------------------------------
(* The native administrator of a village.                                  *)

LEMMA VillageHandlers ==
    /\ Account!NoHandler.op = "idle" /\ Account!NoHandler.user = NoUser /\ Account!NoHandler.role = FALSE
    /\ Account!NoHandler \in [op: {"idle", "create", "remove"}, user: Candidates \cup {NoUser}, role: BOOLEAN]
  BY DEF Account!NoHandler

LEMMA VillageBegins ==
    ASSUME Account!VillageInit
    PROVE  Account!VillageIInv
<1>1. \A s \in Sessions : req[s].op = "idle"
  BY VillageHandlers DEF Account!VillageInit
<1>2. Account!VillageTypeOK
  BY VillageHandlers DEF Account!VillageInit, Account!VillageTypeOK
<1>3. Account!AdminHasRole
  BY DEF Account!VillageInit, Account!AdminHasRole
<1> QED
  BY <1>1, <1>2, <1>3 DEF Account!VillageIInv, Account!OfVillage

LEMMA CreateVillage ==
    ASSUME RolesSetting, Account!VillageIInv, NEW s \in Sessions, NEW u \in Candidates, Account!Create(s, u)
    PROVE  Account!VillageIInv'
<1> USE DEF Account!VillageIInv
<1>0. /\ req' = [req EXCEPT ![s] = [op |-> "create", user |-> u, role |-> TRUE]]
      /\ req \in [Sessions -> [op: {"idle", "create", "remove"}, user: Candidates \cup {NoUser}, role: BOOLEAN]]
  BY DEF Account!Create, Account!Vacant, Account!BeginAdmin, Account!VillageTypeOK
<1>10. /\ \A t \in Sessions : req'[t] = IF t = s THEN [op |-> "create", user |-> u, role |-> TRUE] ELSE req[t]
       /\ \A op \in {"create", "remove"}, t \in Sessions : t \in Account!OfVillage(op)' <=> req'[t].op = op
       /\ \A op \in {"create", "remove"}, t \in Sessions : t \in Account!OfVillage(op) <=> req[t].op = op
       /\ Account!OfVillage("create") \subseteq Sessions /\ Account!OfVillage("remove") \subseteq Sessions
       /\ Account!OfVillage("create")' \subseteq Sessions /\ Account!OfVillage("remove")' \subseteq Sessions
  BY <1>0 DEF Account!OfVillage
<1>1. Account!VillageTypeOK'
  <2>1. [op |-> "create", user |-> u, role |-> TRUE] \in [op: {"idle", "create", "remove"}, user: Candidates \cup {NoUser}, role: BOOLEAN]
    BY DEF Account!VillageTypeOK
  <2>2. req' \in [Sessions -> [op: {"idle", "create", "remove"}, user: Candidates \cup {NoUser}, role: BOOLEAN]]
    BY <1>0, <2>1
  <2>3. overlapped' \subseteq {"create", "remove"}
    BY DEF Account!Create, Account!Vacant, Account!BeginAdmin, Account!VillageTypeOK
  <2> QED
    BY <2>2, <2>3 DEF Account!Create, Account!Vacant, Account!BeginAdmin, Account!VillageTypeOK
<1>2. (Account!AdminHasRole)'
  BY <1>0, <1>10, VillageHandlers DEF RolesSetting, Account!Create, Account!Vacant, Account!BeginAdmin,
     Account!AdminHasRole, Account!VillageTypeOK
<1>3. (\A t \in Account!OfVillage("create") :
          /\ req[t].user \in Candidates \ created
          /\ \A v \in Account!OfVillage("create") : req[v].user = req[t].user => v = t)'
  BY <1>0, <1>10, VillageHandlers DEF RolesSetting, Account!Create, Account!Vacant, Account!BeginAdmin,
     Account!VillageTypeOK
<1>4. (\A t \in Account!OfVillage("remove") : req[t].user \in created)'
  BY <1>0, <1>10, VillageHandlers DEF RolesSetting, Account!Create, Account!Vacant, Account!BeginAdmin,
     Account!VillageTypeOK
<1>5. (\A op \in {"create", "remove"} \ overlapped : \A t, v \in Account!OfVillage(op) : t = v)'
  BY <1>0, <1>10, VillageHandlers DEF RolesSetting, Account!Create, Account!Vacant, Account!BeginAdmin,
     Account!VillageTypeOK
<1>6. ("create" \notin overlapped => \A t \in Account!OfVillage("create") : admin = NoUser)'
  BY <1>0, <1>10, VillageHandlers DEF RolesSetting, Account!Create, Account!Vacant, Account!BeginAdmin,
     Account!VillageTypeOK
<1>7. ("create" \notin overlapped /\ deleted = {} => \A t \in Account!OfVillage("remove") : req[t].role)'
  BY <1>0, <1>10, VillageHandlers DEF RolesSetting, Account!Create, Account!Vacant, Account!BeginAdmin,
     Account!AdminHasRole, Account!VillageTypeOK
<1>8. (overlapped = {} => \A t \in Account!OfVillage("remove") :
          req[t].user = admin /\ (~req[t].role => admin \in deleted))'
  BY <1>0, <1>10, VillageHandlers DEF RolesSetting, Account!Create, Account!Vacant, Account!BeginAdmin,
     Account!AdminHasRole, Account!VillageTypeOK
<1> QED
  BY <1>1, <1>2, <1>3, <1>4, <1>5, <1>6, <1>7, <1>8

LEMMA RemoveVillage ==
    ASSUME RolesSetting, Account!VillageIInv, NEW s \in Sessions, Account!Remove(s)
    PROVE  Account!VillageIInv'
<1> USE DEF Account!VillageIInv
<1>0. /\ req' = [req EXCEPT ![s] = [op |-> "remove", user |-> admin, role |-> admin \in holders \ deleted]]
      /\ req \in [Sessions -> [op: {"idle", "create", "remove"}, user: Candidates \cup {NoUser}, role: BOOLEAN]]
  BY DEF Account!Remove, Account!BeginAdmin, Account!VillageTypeOK
<1>10. /\ \A t \in Sessions : req'[t] = IF t = s THEN [op |-> "remove", user |-> admin, role |-> admin \in holders \ deleted] ELSE req[t]
       /\ \A op \in {"create", "remove"}, t \in Sessions : t \in Account!OfVillage(op)' <=> req'[t].op = op
       /\ \A op \in {"create", "remove"}, t \in Sessions : t \in Account!OfVillage(op) <=> req[t].op = op
       /\ Account!OfVillage("create") \subseteq Sessions /\ Account!OfVillage("remove") \subseteq Sessions
       /\ Account!OfVillage("create")' \subseteq Sessions /\ Account!OfVillage("remove")' \subseteq Sessions
  BY <1>0 DEF Account!OfVillage
<1>1. Account!VillageTypeOK'
  <2>1. [op |-> "remove", user |-> admin, role |-> admin \in holders \ deleted] \in [op: {"idle", "create", "remove"}, user: Candidates \cup {NoUser}, role: BOOLEAN]
    BY DEF Account!VillageTypeOK
  <2>2. req' \in [Sessions -> [op: {"idle", "create", "remove"}, user: Candidates \cup {NoUser}, role: BOOLEAN]]
    BY <1>0, <2>1
  <2>3. overlapped' \subseteq {"create", "remove"}
    BY DEF Account!Remove, Account!BeginAdmin, Account!VillageTypeOK
  <2> QED
    BY <2>2, <2>3 DEF Account!Remove, Account!BeginAdmin, Account!VillageTypeOK
<1>2. (Account!AdminHasRole)'
  BY <1>0, <1>10, VillageHandlers DEF RolesSetting, Account!Remove, Account!BeginAdmin, Account!AdminHasRole,
     Account!VillageTypeOK
<1>3. (\A t \in Account!OfVillage("create") :
          /\ req[t].user \in Candidates \ created
          /\ \A v \in Account!OfVillage("create") : req[v].user = req[t].user => v = t)'
  BY <1>0, <1>10, VillageHandlers DEF RolesSetting, Account!Remove, Account!BeginAdmin, Account!VillageTypeOK
<1>4. (\A t \in Account!OfVillage("remove") : req[t].user \in created)'
  BY <1>0, <1>10, VillageHandlers DEF RolesSetting, Account!Remove, Account!BeginAdmin, Account!VillageTypeOK
<1>5. (\A op \in {"create", "remove"} \ overlapped : \A t, v \in Account!OfVillage(op) : t = v)'
  BY <1>0, <1>10, VillageHandlers DEF RolesSetting, Account!Remove, Account!BeginAdmin, Account!VillageTypeOK
<1>6. ("create" \notin overlapped => \A t \in Account!OfVillage("create") : admin = NoUser)'
  BY <1>0, <1>10, VillageHandlers DEF RolesSetting, Account!Remove, Account!BeginAdmin, Account!VillageTypeOK
<1>7. ("create" \notin overlapped /\ deleted = {} => \A t \in Account!OfVillage("remove") : req[t].role)'
  <2> SUFFICES ASSUME "create" \notin overlapped', deleted' = {}, NEW t \in Account!OfVillage("remove")'
               PROVE  req'[t].role
    OBVIOUS
  <2>1. overlapped \subseteq overlapped' /\ admin' = admin /\ holders' = holders /\ deleted' = deleted /\ admin # NoUser
    BY DEF Account!Remove, Account!BeginAdmin
  <2>2. t \in Sessions /\ (t # s => t \in Account!OfVillage("remove") /\ req'[t] = req[t])
    BY <1>10
  <2>3. CASE t # s
    BY <2>1, <2>2, <2>3
  <2>4. CASE t = s
    <3>1. req'[t].user = admin /\ req'[t].role = (admin \in holders \ deleted)
      BY <1>10, <2>2, <2>4
    <3>2. holders \ deleted = {admin} \ (deleted \cup {NoUser})
      BY <2>1 DEF Account!AdminHasRole
    <3> QED
      BY <2>1, <3>1, <3>2
  <2> QED
    BY <2>3, <2>4
<1>8. (overlapped = {} => \A t \in Account!OfVillage("remove") :
          req[t].user = admin /\ (~req[t].role => admin \in deleted))'
  <2> SUFFICES ASSUME overlapped' = {}, NEW t \in Account!OfVillage("remove")'
               PROVE  req'[t].user = admin' /\ (~req'[t].role => admin' \in deleted')
    OBVIOUS
  <2>1. overlapped \subseteq overlapped' /\ admin' = admin /\ holders' = holders /\ deleted' = deleted /\ admin # NoUser
    BY DEF Account!Remove, Account!BeginAdmin
  <2>2. t \in Sessions /\ (t # s => t \in Account!OfVillage("remove") /\ req'[t] = req[t])
    BY <1>10
  <2>3. CASE t # s
    BY <2>1, <2>2, <2>3
  <2>4. CASE t = s
    <3>1. req'[t].user = admin /\ req'[t].role = (admin \in holders \ deleted)
      BY <1>10, <2>2, <2>4
    <3>2. holders \ deleted = {admin} \ (deleted \cup {NoUser})
      BY <2>1 DEF Account!AdminHasRole
    <3> QED
      BY <2>1, <3>1, <3>2
  <2> QED
    BY <2>3, <2>4
<1> QED
  BY <1>1, <1>2, <1>3, <1>4, <1>5, <1>6, <1>7, <1>8

LEMMA CommitCreateVillage ==
    ASSUME RolesSetting, Account!VillageIInv, NEW s \in Sessions, Account!CommitCreate(s)
    PROVE  Account!VillageIInv'
<1> USE DEF Account!VillageIInv
<1>0. /\ req' = [req EXCEPT ![s] = Account!NoHandler]
      /\ req \in [Sessions -> [op: {"idle", "create", "remove"}, user: Candidates \cup {NoUser}, role: BOOLEAN]]
  BY DEF Account!CommitCreate, Account!VillageTypeOK
<1>10. /\ \A t \in Sessions : req'[t] = IF t = s THEN Account!NoHandler ELSE req[t]
       /\ \A op \in {"create", "remove"}, t \in Sessions : t \in Account!OfVillage(op)' <=> req'[t].op = op
       /\ \A op \in {"create", "remove"}, t \in Sessions : t \in Account!OfVillage(op) <=> req[t].op = op
       /\ Account!OfVillage("create") \subseteq Sessions /\ Account!OfVillage("remove") \subseteq Sessions
       /\ Account!OfVillage("create")' \subseteq Sessions /\ Account!OfVillage("remove")' \subseteq Sessions
  BY <1>0 DEF Account!OfVillage
<1>1. (Account!VillageTypeOK)'
  BY <1>0, <1>10, VillageHandlers DEF RolesSetting, Account!CommitCreate, Account!VillageTypeOK
<1>2. (Account!AdminHasRole)'
  BY <1>0, <1>10, VillageHandlers DEF RolesSetting, Account!CommitCreate, Account!AdminHasRole,
     Account!VillageTypeOK
<1>3. (\A t \in Account!OfVillage("create") :
          /\ req[t].user \in Candidates \ created
          /\ \A v \in Account!OfVillage("create") : req[v].user = req[t].user => v = t)'
  BY <1>0, <1>10, VillageHandlers DEF RolesSetting, Account!CommitCreate, Account!VillageTypeOK
<1>4. (\A t \in Account!OfVillage("remove") : req[t].user \in created)'
  BY <1>0, <1>10, VillageHandlers DEF RolesSetting, Account!CommitCreate, Account!VillageTypeOK
<1>5. (\A op \in {"create", "remove"} \ overlapped : \A t, v \in Account!OfVillage(op) : t = v)'
  BY <1>0, <1>10, VillageHandlers DEF RolesSetting, Account!CommitCreate, Account!VillageTypeOK
<1>6. ("create" \notin overlapped => \A t \in Account!OfVillage("create") : admin = NoUser)'
  BY <1>0, <1>10, VillageHandlers DEF RolesSetting, Account!CommitCreate, Account!VillageTypeOK
<1>7. ("create" \notin overlapped /\ deleted = {} => \A t \in Account!OfVillage("remove") : req[t].role)'
  BY <1>0, <1>10, VillageHandlers DEF RolesSetting, Account!CommitCreate, Account!AdminHasRole,
     Account!VillageTypeOK
<1>8. (overlapped = {} => \A t \in Account!OfVillage("remove") :
          req[t].user = admin /\ (~req[t].role => admin \in deleted))'
  BY <1>0, <1>10, VillageHandlers DEF RolesSetting, Account!CommitCreate, Account!AdminHasRole,
     Account!VillageTypeOK
<1> QED
  BY <1>1, <1>2, <1>3, <1>4, <1>5, <1>6, <1>7, <1>8

LEMMA CommitRemoveVillage ==
    ASSUME RolesSetting, Account!VillageIInv, NEW s \in Sessions, Account!CommitRemove(s)
    PROVE  Account!VillageIInv'
<1> USE DEF Account!VillageIInv
<1>0. /\ req' = [req EXCEPT ![s] = Account!NoHandler]
      /\ req \in [Sessions -> [op: {"idle", "create", "remove"}, user: Candidates \cup {NoUser}, role: BOOLEAN]]
  BY DEF Account!CommitRemove, Account!VillageTypeOK
<1>10. /\ \A t \in Sessions : req'[t] = IF t = s THEN Account!NoHandler ELSE req[t]
       /\ \A op \in {"create", "remove"}, t \in Sessions : t \in Account!OfVillage(op)' <=> req'[t].op = op
       /\ \A op \in {"create", "remove"}, t \in Sessions : t \in Account!OfVillage(op) <=> req[t].op = op
       /\ Account!OfVillage("create") \subseteq Sessions /\ Account!OfVillage("remove") \subseteq Sessions
       /\ Account!OfVillage("create")' \subseteq Sessions /\ Account!OfVillage("remove")' \subseteq Sessions
  BY <1>0 DEF Account!OfVillage
<1>1. (Account!VillageTypeOK)'
  BY <1>0, <1>10, VillageHandlers DEF RolesSetting, Account!CommitRemove, Account!VillageTypeOK
<1>2. (Account!AdminHasRole)'
  BY <1>0, <1>10, VillageHandlers DEF RolesSetting, Account!CommitRemove, Account!AdminHasRole,
     Account!VillageTypeOK
<1>3. (\A t \in Account!OfVillage("create") :
          /\ req[t].user \in Candidates \ created
          /\ \A v \in Account!OfVillage("create") : req[v].user = req[t].user => v = t)'
  BY <1>0, <1>10, VillageHandlers DEF RolesSetting, Account!CommitRemove, Account!VillageTypeOK
<1>4. (\A t \in Account!OfVillage("remove") : req[t].user \in created)'
  BY <1>0, <1>10, VillageHandlers DEF RolesSetting, Account!CommitRemove, Account!VillageTypeOK
<1>5. (\A op \in {"create", "remove"} \ overlapped : \A t, v \in Account!OfVillage(op) : t = v)'
  BY <1>0, <1>10, VillageHandlers DEF RolesSetting, Account!CommitRemove, Account!VillageTypeOK
<1>6. ("create" \notin overlapped => \A t \in Account!OfVillage("create") : admin = NoUser)'
  BY <1>0, <1>10, VillageHandlers DEF RolesSetting, Account!CommitRemove, Account!VillageTypeOK
<1>7. ("create" \notin overlapped /\ deleted = {} => \A t \in Account!OfVillage("remove") : req[t].role)'
  BY <1>0, <1>10, VillageHandlers DEF RolesSetting, Account!CommitRemove, Account!AdminHasRole,
     Account!VillageTypeOK
<1>8. (overlapped = {} => \A t \in Account!OfVillage("remove") :
          req[t].user = admin /\ (~req[t].role => admin \in deleted))'
  BY <1>0, <1>10, VillageHandlers DEF RolesSetting, Account!CommitRemove, Account!AdminHasRole,
     Account!VillageTypeOK
<1> QED
  BY <1>1, <1>2, <1>3, <1>4, <1>5, <1>6, <1>7, <1>8

LEMMA AbandonAdminVillage ==
    ASSUME RolesSetting, Account!VillageIInv, NEW s \in Sessions, Account!AbandonAdmin(s)
    PROVE  Account!VillageIInv'
<1> USE DEF Account!VillageIInv
<1>0. /\ req' = [req EXCEPT ![s] = Account!NoHandler]
      /\ req \in [Sessions -> [op: {"idle", "create", "remove"}, user: Candidates \cup {NoUser}, role: BOOLEAN]]
  BY DEF Account!AbandonAdmin, Account!VillageTypeOK
<1>10. /\ \A t \in Sessions : req'[t] = IF t = s THEN Account!NoHandler ELSE req[t]
       /\ \A op \in {"create", "remove"}, t \in Sessions : t \in Account!OfVillage(op)' <=> req'[t].op = op
       /\ \A op \in {"create", "remove"}, t \in Sessions : t \in Account!OfVillage(op) <=> req[t].op = op
       /\ Account!OfVillage("create") \subseteq Sessions /\ Account!OfVillage("remove") \subseteq Sessions
       /\ Account!OfVillage("create")' \subseteq Sessions /\ Account!OfVillage("remove")' \subseteq Sessions
  BY <1>0 DEF Account!OfVillage
<1>1. (Account!VillageTypeOK)'
  BY <1>0, <1>10, VillageHandlers DEF RolesSetting, Account!AbandonAdmin, Account!VillageTypeOK
<1>2. (Account!AdminHasRole)'
  BY <1>0, <1>10, VillageHandlers DEF RolesSetting, Account!AbandonAdmin, Account!AdminHasRole,
     Account!VillageTypeOK
<1>3. (\A t \in Account!OfVillage("create") :
          /\ req[t].user \in Candidates \ created
          /\ \A v \in Account!OfVillage("create") : req[v].user = req[t].user => v = t)'
  BY <1>0, <1>10, VillageHandlers DEF RolesSetting, Account!AbandonAdmin, Account!VillageTypeOK
<1>4. (\A t \in Account!OfVillage("remove") : req[t].user \in created)'
  BY <1>0, <1>10, VillageHandlers DEF RolesSetting, Account!AbandonAdmin, Account!VillageTypeOK
<1>5. (\A op \in {"create", "remove"} \ overlapped : \A t, v \in Account!OfVillage(op) : t = v)'
  BY <1>0, <1>10, VillageHandlers DEF RolesSetting, Account!AbandonAdmin, Account!VillageTypeOK
<1>6. ("create" \notin overlapped => \A t \in Account!OfVillage("create") : admin = NoUser)'
  BY <1>0, <1>10, VillageHandlers DEF RolesSetting, Account!AbandonAdmin, Account!VillageTypeOK
<1>7. ("create" \notin overlapped /\ deleted = {} => \A t \in Account!OfVillage("remove") : req[t].role)'
  BY <1>0, <1>10, VillageHandlers DEF RolesSetting, Account!AbandonAdmin, Account!AdminHasRole,
     Account!VillageTypeOK
<1>8. (overlapped = {} => \A t \in Account!OfVillage("remove") :
          req[t].user = admin /\ (~req[t].role => admin \in deleted))'
  BY <1>0, <1>10, VillageHandlers DEF RolesSetting, Account!AbandonAdmin, Account!AdminHasRole,
     Account!VillageTypeOK
<1> QED
  BY <1>1, <1>2, <1>3, <1>4, <1>5, <1>6, <1>7, <1>8

LEMMA DeleteUserVillage ==
    ASSUME RolesSetting, Account!VillageIInv, NEW u \in Candidates, Account!DeleteUser(u)
    PROVE  Account!VillageIInv'
<1> USE DEF Account!VillageIInv
<1>10. Account!OfVillage("create")' = Account!OfVillage("create") /\ Account!OfVillage("remove")' = Account!OfVillage("remove")
       /\ \A op \in {"create", "remove"} : Account!OfVillage(op)' = Account!OfVillage(op)
  BY DEF Account!DeleteUser, Account!OfVillage
<1>1. (Account!VillageTypeOK)'
  BY <1>10, VillageHandlers DEF RolesSetting, Account!DeleteUser, Account!VillageTypeOK
<1>2. (Account!AdminHasRole)'
  BY <1>10, VillageHandlers DEF RolesSetting, Account!DeleteUser, Account!AdminHasRole, Account!VillageTypeOK
<1>3. (\A t \in Account!OfVillage("create") :
          /\ req[t].user \in Candidates \ created
          /\ \A v \in Account!OfVillage("create") : req[v].user = req[t].user => v = t)'
  BY <1>10, VillageHandlers DEF RolesSetting, Account!DeleteUser, Account!VillageTypeOK
<1>4. (\A t \in Account!OfVillage("remove") : req[t].user \in created)'
  BY <1>10, VillageHandlers DEF RolesSetting, Account!DeleteUser, Account!VillageTypeOK
<1>5. (\A op \in {"create", "remove"} \ overlapped : \A t, v \in Account!OfVillage(op) : t = v)'
  BY <1>10, VillageHandlers DEF RolesSetting, Account!DeleteUser, Account!VillageTypeOK
<1>6. ("create" \notin overlapped => \A t \in Account!OfVillage("create") : admin = NoUser)'
  BY <1>10, VillageHandlers DEF RolesSetting, Account!DeleteUser, Account!VillageTypeOK
<1>7. ("create" \notin overlapped /\ deleted = {} => \A t \in Account!OfVillage("remove") : req[t].role)'
  BY <1>10, VillageHandlers DEF RolesSetting, Account!DeleteUser, Account!AdminHasRole, Account!VillageTypeOK
<1>8. (overlapped = {} => \A t \in Account!OfVillage("remove") :
          req[t].user = admin /\ (~req[t].role => admin \in deleted))'
  BY <1>10, VillageHandlers DEF RolesSetting, Account!DeleteUser, Account!AdminHasRole, Account!VillageTypeOK
<1> QED
  BY <1>1, <1>2, <1>3, <1>4, <1>5, <1>6, <1>7, <1>8

LEMMA VillageStands ==
    ASSUME Account!VillageIInv, UNCHANGED Account!villageVars
    PROVE  Account!VillageIInv'
  BY DEF Account!VillageIInv, Account!VillageTypeOK, Account!AdminHasRole, Account!OfVillage,
     Account!villageVars

LEMMA VillageStep ==
    ASSUME RolesSetting, Account!VillageIInv, Account!VillageNext
    PROVE  Account!VillageIInv'
  BY CreateVillage, RemoveVillage, CommitCreateVillage, CommitRemoveVillage, AbandonAdminVillage,
     DeleteUserVillage DEF Account!VillageNext

-----------------------------------------------------------------------------
(* The assistant: an exchange carries what was allowed when it began.      *)
VARIABLES facts, offered, replies, log, told, cards, seen, edits
Ask == INSTANCE Assistant WITH Posts <- {"listed", "community"}, MaxIterations <- 1, MaxEdits <- 1

LEMMA AskFields ==
    /\ DOMAIN Ask!Idle = {"at", "outcome", "backend", "calls", "asked", "choice", "began"}
    /\ Ask!Idle.at = "idle" /\ Ask!Idle.began = Ask!NoFacts /\ Ask!Idle.asked = 0 /\ Ask!Idle.choice = "none"
    /\ Ask!NoFacts \in Ask!FactRows
  BY DEF Ask!Idle, Ask!NoFacts, Ask!FactRows

LEMMA AskGoes ==
    ASSUME DOMAIN req = DOMAIN Ask!Idle
    PROVE  /\ \A o : Ask!Ends(o) =>
                /\ DOMAIN req' = DOMAIN req /\ req'.at = "done" /\ req'.began = req.began /\ req'.backend = req.backend
                /\ req'.asked = req.asked /\ req'.choice = req.choice
           /\ \A n, c : Ask!Asks(n, c) =>
                /\ DOMAIN req' = DOMAIN req /\ req'.at = "call" /\ req'.began = req.began /\ req'.backend = req.backend
                /\ req'.asked = n /\ req'.choice = c
           /\ Ask!Goes([at |-> "search"]) =>
                /\ DOMAIN req' = DOMAIN req /\ req'.at = "search" /\ req'.began = req.began /\ req'.backend = req.backend
                /\ req'.asked = req.asked /\ req'.choice = req.choice
           /\ \A calls : Ask!Goes([at |-> "tools", calls |-> calls]) =>
                /\ DOMAIN req' = DOMAIN req /\ req'.at = "tools" /\ req'.began = req.began /\ req'.backend = req.backend
                /\ req'.asked = req.asked /\ req'.choice = req.choice
           /\ \A calls : Ask!Goes([calls |-> calls]) =>
                /\ DOMAIN req' = DOMAIN req /\ req'.at = req.at /\ req'.began = req.began /\ req'.backend = req.backend
                /\ req'.asked = req.asked /\ req'.choice = req.choice
<1>1. \A o : Ask!Ends(o) =>
          /\ DOMAIN req' = DOMAIN req /\ req'.at = "done" /\ req'.began = req.began /\ req'.backend = req.backend
          /\ req'.asked = req.asked /\ req'.choice = req.choice
  BY AskFields DEF Ask!Ends, Ask!Goes
<1>2. \A n, c : Ask!Asks(n, c) =>
          /\ DOMAIN req' = DOMAIN req /\ req'.at = "call" /\ req'.began = req.began /\ req'.backend = req.backend
          /\ req'.asked = n /\ req'.choice = c
  BY AskFields DEF Ask!Asks, Ask!Goes
<1>3. Ask!Goes([at |-> "search"]) =>
          /\ DOMAIN req' = DOMAIN req /\ req'.at = "search" /\ req'.began = req.began /\ req'.backend = req.backend
          /\ req'.asked = req.asked /\ req'.choice = req.choice
  BY AskFields DEF Ask!Goes
<1>4. \A calls : Ask!Goes([at |-> "tools", calls |-> calls]) =>
          /\ DOMAIN req' = DOMAIN req /\ req'.at = "tools" /\ req'.began = req.began /\ req'.backend = req.backend
          /\ req'.asked = req.asked /\ req'.choice = req.choice
  BY AskFields DEF Ask!Goes
<1>5. \A calls : Ask!Goes([calls |-> calls]) =>
          /\ DOMAIN req' = DOMAIN req /\ req'.at = req.at /\ req'.began = req.began /\ req'.backend = req.backend
          /\ req'.asked = req.asked /\ req'.choice = req.choice
  BY AskFields DEF Ask!Goes
<1> QED
  BY <1>1, <1>2, <1>3, <1>4, <1>5

LEMMA AskBegins ==
    ASSUME Ask!Init
    PROVE  Ask!AskIInv
<1> DEFINE posts == {"listed", "community"}
<1>1. /\ req = Ask!Idle /\ offered = {} /\ replies = <<>> /\ log = <<>> /\ told = {} /\ cards = {}
      /\ seen = Ask!Visible(Ask!NoFacts) /\ edits = 0
      /\ facts = [ai |-> TRUE, personal |-> TRUE, private |-> TRUE, events |-> TRUE,
                  plugin |-> "serving", listed |-> {Ask!Listed}, readable |-> posts]
  BY DEF Ask!Init
<1>2. Ask!Listed \in posts
  BY DEF Ask!Listed
<1>3. seen \in [listed : SUBSET posts, readable : SUBSET posts]
  BY <1>1 DEF Ask!Visible, Ask!NoFacts
<1>4. facts \in Ask!FactRows /\ facts.listed \subseteq facts.readable
  BY <1>1, <1>2 DEF Ask!FactRows
<1>5. Ask!AskTypes
  BY <1>1, <1>3, <1>4, AskFields DEF Ask!AskTypes
<1>6. Ask!OfferedAsBegan /\ Ask!SinceBegan /\ Ask!RepliesCounted
  BY <1>1, AskFields DEF Ask!OfferedAsBegan, Ask!SinceBegan, Ask!RepliesCounted
<1>7. Ask!CallsBounded /\ Ask!ToolsAllowed /\ Ask!PostsVisible
  BY <1>1, AskFields DEF Ask!CallsBounded, Ask!ToolsAllowed, Ask!PostsVisible
<1> QED
  BY <1>5, <1>6, <1>7 DEF Ask!AskIInv

\* A step that goes on with the request, and tells the provider nothing more.
LEMMA AskGoesOn ==
    ASSUME Ask!AskIInv, req.at # "idle", UNCHANGED <<facts, offered, log, told, cards, seen, edits>>,
           DOMAIN req' = DOMAIN req, req'.began = req.began, req'.backend = req.backend,
           req'.at \in {"intent", "search", "call", "tools", "done"}, req'.choice \in {"none", "auto"},
           replies' \in Seq(Ask!Replies), Ask!RepliesCounted', Ask!CallsBounded'
    PROVE  Ask!AskIInv'
<1>1. Ask!AskTypes'
  BY DEF Ask!AskIInv, Ask!AskTypes
<1>2. Ask!OfferedAsBegan' /\ Ask!SinceBegan'
  BY DEF Ask!AskIInv, Ask!OfferedAsBegan, Ask!SinceBegan
<1>3. Ask!ToolsAllowed'
  BY DEF Ask!AskIInv, Ask!ToolsAllowed, Ask!May
<1>4. Ask!PostsVisible'
  BY DEF Ask!AskIInv, Ask!PostsVisible
<1> QED
  BY <1>1, <1>2, <1>3, <1>4 DEF Ask!AskIInv

LEMMA AskSteps ==
    ASSUME Ask!AskIInv, Ask!Next
    PROVE  Ask!AskIInv'
<1> USE DEF Ask!AskIInv
<1> DEFINE posts == {"listed", "community"}
<1>1. /\ facts \in Ask!FactRows /\ facts.listed \subseteq facts.readable
      /\ DOMAIN req = DOMAIN Ask!Idle /\ req.began \in Ask!FactRows
      /\ req.at \in {"idle", "intent", "search", "call", "tools", "done"} /\ req.choice \in {"none", "auto"}
      /\ offered \subseteq Ask!Tools /\ told \subseteq posts /\ edits \in 0..1
      /\ seen \in [listed : SUBSET posts, readable : SUBSET posts]
      /\ replies \in Seq(Ask!Replies) /\ log \in Seq(Ask!EntryRows)
  BY DEF Ask!AskTypes
<1>2. /\ facts.personal \in BOOLEAN /\ facts.private \in BOOLEAN /\ facts.events \in BOOLEAN
      /\ facts.listed \subseteq posts /\ facts.readable \subseteq posts
  BY <1>1 DEF Ask!FactRows
<1>3. /\ req.asked \in 0..2 /\ Len(replies) <= 2 /\ Len(replies) \in Nat
      /\ req.at = "call" => req.asked > 0 /\ Len(replies) = req.asked - 1
      /\ req.at = "tools" => req.asked > 0 /\ Len(replies) = req.asked
      /\ req.at = "call" /\ req.asked = 2 => req.choice = "none"
      /\ (req.at \in {"intent", "search"} => replies = <<>>)
  BY <1>1 DEF Ask!RepliesCounted, Ask!CallsBounded
<1>4. CASE Ask!Ask
  <2>1. /\ req.at = "idle" /\ UNCHANGED <<facts, replies, log, told, cards, edits>>
        /\ seen' = Ask!Visible(facts)
        /\ \E backend \in {"responses", "chat"} :
              req' = [Ask!Idle EXCEPT !.at = IF facts.ai THEN "intent" ELSE "done",
                                      !.outcome = IF facts.ai THEN "none" ELSE "disabled",
                                      !.backend = backend, !.began = facts]
        /\ offered' = IF facts.ai THEN Ask!BuiltIn \cup Ask!PluginTools
                                       \cup (IF facts.personal THEN {"get_user_settings"} ELSE {})
                      ELSE {}
    BY <1>4 DEF Ask!Ask
  <2>2. /\ DOMAIN req' = DOMAIN req /\ req'.at \in {"intent", "done"} /\ req'.began = facts
        /\ req'.backend \in {"responses", "chat"} /\ req'.asked = 0 /\ req'.choice = "none"
    BY <1>1, <2>1, AskFields
  <2>3. log = <<>> /\ told = {} /\ cards = {} /\ replies = <<>>
    BY <2>1 DEF Ask!SinceBegan
  <2>4. seen' \in [listed : SUBSET posts, readable : SUBSET posts] /\ seen'.listed = facts.listed /\ seen'.readable = facts.readable
    BY <1>2, <2>1 DEF Ask!Visible
  <2>5. /\ offered' \subseteq Ask!Tools
        /\ "get_user_settings" \in offered' => facts.personal
        /\ "ecommerce_search_products" \in offered' => facts.plugin = "serving"
    BY <2>1 DEF Ask!BuiltIn, Ask!PluginTools, Ask!Tools, Ask!OnePost, Ask!Searches
  <2>6. Ask!AskTypes'
    BY <1>1, <2>1, <2>2, <2>4, <2>5 DEF Ask!AskTypes
  <2>7. Ask!OfferedAsBegan' /\ Ask!SinceBegan' /\ Ask!RepliesCounted'
    BY <2>1, <2>2, <2>3, <2>4, <2>5 DEF Ask!OfferedAsBegan, Ask!SinceBegan, Ask!RepliesCounted
  <2>8. Ask!CallsBounded' /\ Ask!ToolsAllowed' /\ Ask!PostsVisible'
    BY <2>1, <2>2, <2>3 DEF Ask!CallsBounded, Ask!ToolsAllowed, Ask!PostsVisible
  <2> QED
    BY <2>6, <2>7, <2>8
<1>5. ASSUME NEW r \in Ask!Replies, Ask!ReplyIntent(r) PROVE Ask!AskIInv'
  <2>1. req.at = "intent" /\ UNCHANGED <<facts, offered, replies, log, told, cards, seen, edits>>
    BY <1>5 DEF Ask!ReplyIntent
  <2>2. (\E o : Ask!Ends(o)) \/ Ask!Asks(1, "auto") \/ Ask!Goes([at |-> "search"])
    BY <1>5 DEF Ask!ReplyIntent
  <2>3. /\ DOMAIN req' = DOMAIN req /\ req'.began = req.began /\ req'.backend = req.backend
        /\ \/ req'.at \in {"done", "search"} /\ req'.asked = req.asked /\ req'.choice = req.choice
           \/ req'.at = "call" /\ req'.asked = 1 /\ req'.choice = "auto"
    BY <1>1, <2>2, AskGoes
  <2>4. Ask!RepliesCounted' /\ Ask!CallsBounded'
    BY <1>3, <2>1, <2>3 DEF Ask!RepliesCounted, Ask!CallsBounded
  <2> QED
    BY <1>1, <2>1, <2>3, <2>4, AskGoesOn
<1>6. ASSUME NEW r \in Ask!Replies, Ask!ReplyAnswer(r) PROVE Ask!AskIInv'
  <2>1. /\ req.at = "call" /\ UNCHANGED <<facts, offered, told, cards, seen, edits>> /\ replies' = Append(replies, r)
        /\ log' = IF r.kind = "text" THEN Append(log, Ask!Entry("answer", TRUE, {})) ELSE log
        /\ (\E o : Ask!Ends(o)) \/ (\E calls : Ask!Goes([at |-> "tools", calls |-> calls]))
    BY <1>6 DEF Ask!ReplyAnswer
  <2>2. /\ DOMAIN req' = DOMAIN req /\ req'.began = req.began /\ req'.backend = req.backend
        /\ req'.at \in {"done", "tools"} /\ req'.asked = req.asked /\ req'.choice = req.choice
    BY <1>1, <2>1, AskGoes
  <2>3. replies' \in Seq(Ask!Replies) /\ Len(replies') = Len(replies) + 1
    BY <1>1, <2>1
  <2>4. Ask!RepliesCounted' /\ Ask!CallsBounded'
    BY <1>3, <2>1, <2>2, <2>3 DEF Ask!RepliesCounted, Ask!CallsBounded
  <2>5. CASE log' = log
    BY <1>1, <2>1, <2>2, <2>3, <2>4, <2>5, AskGoesOn
  <2>6. CASE log' = Append(log, Ask!Entry("answer", TRUE, {}))
    <3> DEFINE e == Ask!Entry("answer", TRUE, {})
    <3>1. e \in Ask!EntryRows /\ e.tool = "answer" /\ e.allowed
      BY DEF Ask!Entry, Ask!EntryRows
    <3>0. log' = Append(log, e)
      BY <2>6
    <3> HIDE DEF e
    <3>2. /\ log' \in Seq(Ask!EntryRows) /\ Len(log') = Len(log) + 1 /\ Len(log) \in Nat
          /\ DOMAIN log = 1..Len(log) /\ DOMAIN log' = 1..Len(log')
          /\ \A i \in 1..Len(log) : log'[i] = log[i]
          /\ log'[Len(log) + 1] = e
      BY <1>1, <3>0, <3>1
    <3>3. Ask!AskTypes'
      BY <1>1, <2>1, <2>2, <2>3, <3>2 DEF Ask!AskTypes
    <3>4. Ask!OfferedAsBegan' /\ Ask!SinceBegan'
      BY <2>1, <2>2 DEF Ask!OfferedAsBegan, Ask!SinceBegan
    <3>5. Ask!ToolsAllowed'
      <4> SUFFICES ASSUME NEW i \in DOMAIN log'
                   PROVE  /\ log'[i].allowed \/ (i = 1 /\ Ask!May(log'[i].tool, req.began))
                          /\ log'[i].tool = "get_user_settings" => req.began.personal
                          /\ log'[i].tool = "ecommerce_search_products" => req.began.plugin = "serving"
        BY <2>2 DEF Ask!ToolsAllowed, Ask!May
      <4>1. CASE i \in DOMAIN log
        BY <3>2, <4>1 DEF Ask!ToolsAllowed
      <4>2. CASE i \notin DOMAIN log
        BY <3>1, <3>2, <4>2
      <4> QED
        BY <4>1, <4>2
    <3>6. \A i \in DOMAIN log : i \in DOMAIN log' /\ log'[i] = log[i]
      BY <3>2
    <3>7. Ask!PostsVisible'
      BY <2>1, <3>6 DEF Ask!PostsVisible
    <3> QED
      BY <2>4, <3>3, <3>4, <3>5, <3>7
  <2> QED
    BY <2>1, <2>5, <2>6
<1>7. CASE Ask!Retrieve
  <2>1. /\ req.at = "search" /\ UNCHANGED <<facts, offered, replies, log, seen, edits>> /\ Ask!Asks(1, "auto")
        /\ told' \subseteq facts.listed /\ cards' = told'
    BY <1>7 DEF Ask!Retrieve, Ask!Found
  <2>2. /\ DOMAIN req' = DOMAIN req /\ req'.began = req.began /\ req'.backend = req.backend
        /\ req'.at = "call" /\ req'.asked = 1 /\ req'.choice = "auto"
    BY <1>1, <2>1, AskGoes
  <2>3. Ask!RepliesCounted' /\ Ask!CallsBounded'
    BY <1>3, <2>1, <2>2 DEF Ask!RepliesCounted, Ask!CallsBounded
  <2>4. Ask!AskTypes'
    BY <1>1, <1>2, <2>1, <2>2 DEF Ask!AskTypes
  <2>5. facts.listed \subseteq seen.listed /\ Ask!OfferedAsBegan' /\ Ask!SinceBegan'
    BY <2>1, <2>2 DEF Ask!OfferedAsBegan, Ask!SinceBegan
  <2>6. Ask!ToolsAllowed'
    BY <2>1, <2>2 DEF Ask!ToolsAllowed, Ask!May
  <2>7. Ask!PostsVisible'
    BY <2>1, <2>5 DEF Ask!PostsVisible
  <2> QED
    BY <2>3, <2>4, <2>5, <2>6, <2>7
<1>8. CASE Ask!RunTool
  <2> DEFINE call == Head(req.calls)
             refusal == Ask!Refusal(call)
  <2>1. req.at = "tools" /\ UNCHANGED <<facts, offered, replies, seen, edits>>
    BY <1>8 DEF Ask!RunTool
  <2>2. ASSUME NEW o, Ask!Ends(o), UNCHANGED <<log, told, cards>> PROVE Ask!AskIInv'
    <3>1. /\ DOMAIN req' = DOMAIN req /\ req'.began = req.began /\ req'.backend = req.backend
          /\ req'.at = "done" /\ req'.asked = req.asked /\ req'.choice = req.choice
      BY <1>1, <2>2, AskGoes
    <3>2. Ask!RepliesCounted' /\ Ask!CallsBounded'
      BY <1>3, <2>1, <3>1 DEF Ask!RepliesCounted, Ask!CallsBounded
    <3> QED
      BY <1>1, <2>1, <2>2, <3>1, <3>2, AskGoesOn
  <2>3. ASSUME refusal = "none", NEW found \in Ask!Results(call.tool),
               log' = Append(log, Ask!Entry(call.tool, Ask!May(call.tool, facts), found)),
               told' = told \cup found,
               cards' = IF call.tool \in Ask!Reference THEN cards \cup found ELSE cards,
               Ask!After(Tail(req.calls))
        PROVE  Ask!AskIInv'
    <3> DEFINE tool == call.tool
               e == Ask!Entry(tool, Ask!May(tool, facts), found)
    <3>1. tool \in offered /\ Ask!May(tool, Ask!Asker)
      BY <2>3 DEF Ask!Refusal
    <3>2. \/ found \subseteq facts.listed
          \/ tool \in Ask!OnePost /\ found \subseteq facts.readable
      <4> HIDE DEF call, refusal
      <4> QED
        BY <2>3 DEF Ask!Results, Ask!Found
    <3> HIDE DEF call, refusal
    <3>3. Ask!May(tool, facts) \in BOOLEAN
      BY <1>2 DEF Ask!May
    <3>4. e \in Ask!EntryRows /\ e.tool = tool /\ e.allowed = Ask!May(tool, facts) /\ e.posts = found
      BY <1>1, <1>2, <3>1, <3>2, <3>3 DEF Ask!Entry, Ask!EntryRows
    <3>5. log' = Append(log, e)
      BY <2>3
    <3> HIDE DEF tool, e
    <3>6. /\ log' \in Seq(Ask!EntryRows) /\ Len(log') = Len(log) + 1 /\ Len(log) \in Nat
          /\ DOMAIN log = 1..Len(log) /\ DOMAIN log' = 1..Len(log')
          /\ \A i \in 1..Len(log) : log'[i] = log[i]
          /\ log'[Len(log) + 1] = e
      BY <1>1, <3>4, <3>5
    <3>7. Ask!Goes([calls |-> Tail(req.calls)]) \/ (\E o : Ask!Ends(o))
             \/ (~(req.asked > 1) /\ Ask!Asks(req.asked + 1, Ask!Choice(req.asked + 1)))
      BY <2>3 DEF Ask!After
    <3>8. Ask!Choice(req.asked + 1) \in {"none", "auto"} /\ (req.asked = 1 => Ask!Choice(req.asked + 1) = "none")
      BY <2>1 DEF Ask!Choice, Ask!SinceBegan
    <3>9. /\ DOMAIN req' = DOMAIN req /\ req'.began = req.began /\ req'.backend = req.backend
          /\ \/ req'.at \in {"tools", "done"} /\ req'.asked = req.asked /\ req'.choice = req.choice
             \/ ~(req.asked > 1) /\ req'.at = "call" /\ req'.asked = req.asked + 1
                /\ req'.choice = Ask!Choice(req.asked + 1)
      BY <1>1, <2>1, <3>7, AskGoes
    <3>10. Ask!RepliesCounted' /\ Ask!CallsBounded'
      BY <1>3, <2>1, <3>8, <3>9 DEF Ask!RepliesCounted, Ask!CallsBounded
    <3>11. found \subseteq posts
      BY <1>2, <3>2
    <3>12. Ask!AskTypes'
      BY <1>1, <2>1, <2>3, <3>6, <3>8, <3>9, <3>11 DEF Ask!AskTypes
    <3>13. /\ facts.listed \subseteq seen.listed /\ facts.readable \subseteq seen.readable
           /\ Ask!OfferedAsBegan' /\ Ask!SinceBegan'
      BY <2>1, <3>9 DEF Ask!OfferedAsBegan, Ask!SinceBegan
    <3>14. Ask!ToolsAllowed'
      <4> SUFFICES ASSUME NEW i \in DOMAIN log'
                   PROVE  /\ log'[i].allowed \/ (i = 1 /\ Ask!May(log'[i].tool, req.began))
                          /\ log'[i].tool = "get_user_settings" => req.began.personal
                          /\ log'[i].tool = "ecommerce_search_products" => req.began.plugin = "serving"
        BY <3>9 DEF Ask!ToolsAllowed, Ask!May
      <4>1. CASE i \in DOMAIN log
        BY <3>6, <4>1 DEF Ask!ToolsAllowed
      <4>2. CASE i \notin DOMAIN log
        <5>1. i = Len(log) + 1 /\ log'[i] = e
          BY <3>6, <4>2
        <5>2. IF log = <<>> THEN Ask!May(tool, req.began) /\ i = 1 ELSE Ask!May(tool, facts)
          <6>1. CASE log = <<>>
            BY <3>1, <5>1, <6>1 DEF Ask!Asker, tool
          <6>2. CASE log # <<>>
            BY <3>1, <6>2 DEF Ask!Asker, tool
          <6> QED
            BY <6>1, <6>2
        <5>3. /\ tool = "get_user_settings" => req.began.personal
              /\ tool = "ecommerce_search_products" => req.began.plugin = "serving"
          BY <3>1 DEF Ask!OfferedAsBegan, tool
        <5> QED
          BY <3>4, <5>1, <5>2, <5>3
      <4> QED
        BY <4>1, <4>2
    <3>15. Ask!PostsVisible'
      <4>1. cards' \subseteq told'
        BY <2>3 DEF Ask!PostsVisible
      <4>2. ASSUME NEW p \in told' PROVE p \in seen.listed \/ (p \in seen.readable /\ \E i \in DOMAIN log' : log'[i].tool \in Ask!OnePost /\ p \in log'[i].posts)
        <5>1. CASE p \in told
          <6>1. p \in seen.listed \/ (p \in seen.readable /\ \E i \in DOMAIN log : log[i].tool \in Ask!OnePost /\ p \in log[i].posts)
            BY <5>1 DEF Ask!PostsVisible
          <6>2. \A i \in DOMAIN log : i \in DOMAIN log' /\ log'[i] = log[i]
            BY <3>6
          <6> QED
            BY <6>1, <6>2
        <5>2. CASE p \in found
          <6>1. CASE found \subseteq facts.listed
            BY <3>13, <5>2, <6>1
          <6>2. CASE tool \in Ask!OnePost /\ found \subseteq facts.readable
            <7>1. p \in seen.readable
              BY <3>13, <5>2, <6>2
            <7>2. Len(log) + 1 \in DOMAIN log' /\ log'[Len(log) + 1].tool \in Ask!OnePost /\ p \in log'[Len(log) + 1].posts
              BY <3>4, <3>6, <5>2, <6>2
            <7> QED
              BY <7>1, <7>2
          <6> QED
            BY <3>2, <6>1, <6>2 DEF tool
        <5> QED
          BY <2>3, <4>2, <5>1, <5>2
      <4> QED
        BY <2>1, <4>1, <4>2 DEF Ask!PostsVisible
    <3> QED
      BY <3>10, <3>12, <3>13, <3>14, <3>15
  <2> QED
    BY <1>8, <2>2, <2>3 DEF Ask!RunTool
<1>9. CASE Ask!Edit
  <2>1. /\ UNCHANGED <<req, offered, replies, log, told, cards>> /\ edits < 1 /\ edits' = edits + 1
        /\ seen' = [l \in DOMAIN seen |-> seen[l] \cup facts'[l]]
        /\ \E f \in {"ai", "personal", "private", "events"}, p \in posts :
              facts' \in {[facts EXCEPT ![f] = FALSE],
                          [facts EXCEPT !.plugin = IF @ = "serving" THEN "off" ELSE "gone"],
                          [facts EXCEPT !.listed = @ \ {p}, !.readable = @ \ {p}],
                          [facts EXCEPT !.listed = @ \cup {p}, !.readable = @ \cup {p}]}
    BY <1>9 DEF Ask!Edit
  <2>2. facts' \in Ask!FactRows /\ facts'.listed \subseteq facts'.readable
    <3>1. PICK f \in {"ai", "personal", "private", "events"}, p \in posts :
              facts' \in {[facts EXCEPT ![f] = FALSE],
                          [facts EXCEPT !.plugin = IF @ = "serving" THEN "off" ELSE "gone"],
                          [facts EXCEPT !.listed = @ \ {p}, !.readable = @ \ {p}],
                          [facts EXCEPT !.listed = @ \cup {p}, !.readable = @ \cup {p}]}
      BY <2>1
    <3>2. CASE facts' = [facts EXCEPT ![f] = FALSE]
      BY <1>1, <3>2 DEF Ask!FactRows
    <3>3. CASE facts' = [facts EXCEPT !.plugin = IF @ = "serving" THEN "off" ELSE "gone"]
      BY <1>1, <3>3 DEF Ask!FactRows
    <3>4. CASE facts' = [facts EXCEPT !.listed = @ \ {p}, !.readable = @ \ {p}]
      BY <1>1, <3>4 DEF Ask!FactRows
    <3>5. CASE facts' = [facts EXCEPT !.listed = @ \cup {p}, !.readable = @ \cup {p}]
      BY <1>1, <3>5 DEF Ask!FactRows
    <3> QED
      BY <3>1, <3>2, <3>3, <3>4, <3>5
  <2>3. facts'.listed \subseteq posts /\ facts'.readable \subseteq posts
    BY <2>2 DEF Ask!FactRows
  <2>4. /\ seen' \in [listed : SUBSET posts, readable : SUBSET posts]
        /\ seen'.listed = seen.listed \cup facts'.listed /\ seen'.readable = seen.readable \cup facts'.readable
    BY <1>1, <2>1, <2>3
  <2>5. Ask!AskTypes'
    BY <1>1, <2>1, <2>2, <2>4 DEF Ask!AskTypes
  <2>6. Ask!OfferedAsBegan' /\ Ask!SinceBegan' /\ Ask!RepliesCounted' /\ Ask!CallsBounded'
    BY <2>1, <2>4 DEF Ask!OfferedAsBegan, Ask!SinceBegan, Ask!RepliesCounted, Ask!CallsBounded
  <2>7. Ask!ToolsAllowed'
    BY <2>1 DEF Ask!ToolsAllowed, Ask!May
  <2>8. Ask!PostsVisible'
    BY <2>1, <2>4 DEF Ask!PostsVisible
  <2> QED
    BY <2>5, <2>6, <2>7, <2>8
<1> QED
  BY <1>4, <1>5, <1>6, <1>7, <1>8, <1>9 DEF Ask!Next

LEMMA AskStands ==
    ASSUME Ask!AskIInv, UNCHANGED <<facts, req, offered, replies, log, told, cards, seen, edits>>
    PROVE  Ask!AskIInv'
<1>1. Ask!AskTypes' /\ Ask!OfferedAsBegan' /\ Ask!SinceBegan' /\ Ask!RepliesCounted'
  BY DEF Ask!AskIInv, Ask!AskTypes, Ask!OfferedAsBegan, Ask!SinceBegan, Ask!RepliesCounted
<1>2. Ask!CallsBounded' /\ Ask!ToolsAllowed' /\ Ask!PostsVisible'
  BY DEF Ask!AskIInv, Ask!CallsBounded, Ask!ToolsAllowed, Ask!PostsVisible, Ask!May
<1> QED
  BY <1>1, <1>2 DEF Ask!AskIInv

-----------------------------------------------------------------------------
(* Follows: a handler under way knows what is so of its users, whatever    *)
(* others do.                                                              *)
VARIABLES private, follows, shown, disturbed
Profile == INSTANCE Follows

LEMMA FollowsHandlers ==
    /\ Profile!Idle \in Profile!Handlers /\ Profile!Idle.op = "idle" /\ Profile!Idle.at = "idle"
    /\ Profile!Idle.user = NoUser
    /\ \A r \in Profile!Handlers :
          /\ r.op \in Profile!Ops \cup {"idle"} /\ r.at \in {"idle"} \cup Profile!UsersSteps \cup Profile!OwnersSteps
          /\ r.user \in Users \cup {NoUser} /\ r.was \in BOOLEAN /\ r.batch \subseteq Users
  BY DEF Profile!Idle, Profile!Handlers

LEMMA FollowsBegin ==
    ASSUME NoUser \notin Users, Profile!Init
    PROVE  Profile!IInv
<1> USE FollowsHandlers DEF Profile!Init, Profile!Concerns
<1>1. Profile!TypeOK /\ \A s \in Sessions : req[s] = Profile!Idle
  BY DEF Profile!TypeOK
<1>2. Profile!HandlersTyped
  BY <1>1 DEF Profile!HandlersTyped, Profile!UsersSteps, Profile!OwnersSteps
<1>3. Profile!OneHandler /\ Profile!FollowsConsistent
  BY <1>1 DEF Profile!OneHandler, Profile!FollowsConsistent, Profile!Consistent
<1> QED
  BY <1>1, <1>2, <1>3 DEF Profile!IInv

\* A handler's next step writes of its own users only, and leaves them consistent
\* or as it knows them.
LEMMA FollowsMove ==
    ASSUME NoUser \notin Users, Profile!IInv, NEW s \in Sessions, NEW r \in Profile!Handlers,
           req' = [req EXCEPT ![s] = r], disturbed' = disturbed, req[s] # Profile!Idle,
           private' \in BOOLEAN, follows' \subseteq Users, requests' \subseteq Users, shown' \subseteq Users,
           r = Profile!Idle \/ (r.user = req[s].user /\ r.op = req[s].op
                                /\ (r.at \in Profile!UsersSteps <=> req[s].at \in Profile!UsersSteps)
                                /\ r.at # "idle"),
           req[s].user # NoUser => private' = private,
           \A u \in Users \ {req[s].user} : req[s].user # NoUser =>
               /\ u \in follows' <=> u \in follows
               /\ u \in requests' <=> u \in requests
               /\ u \in shown' <=> u \in shown,
           \A u \in Users \ disturbed : u \in Profile!Concerns(s) =>
               IF r = Profile!Idle THEN Profile!Consistent(u)' ELSE Profile!FoundSo(s, u)'
    PROVE  Profile!IInv'
<1> USE FollowsHandlers
<1>1. /\ req'[s] = r /\ \A t \in Sessions \ {s} : req'[t] = req[t]
      /\ req' \in [Sessions -> Profile!Handlers] /\ req \in [Sessions -> Profile!Handlers]
  BY DEF Profile!IInv, Profile!TypeOK
<1>2. Profile!TypeOK'
  BY <1>1 DEF Profile!IInv, Profile!TypeOK
<1>3. \A u : u \in Profile!Concerns(s)' => u \in Profile!Concerns(s)
  BY <1>1 DEF Profile!Concerns
<1>4. \A t \in Sessions \ {s} : Profile!Concerns(t)' = Profile!Concerns(t)
  BY <1>1 DEF Profile!Concerns
<1>5. Profile!HandlersTyped'
  <2>1. ASSUME NEW t \in Sessions
        PROVE  (/\ req[t].at = "idle" <=> req[t] = Profile!Idle
                /\ req[t].at \in Profile!UsersSteps <=> req[t].user \in Users
                /\ req[t].at \in Profile!OwnersSteps => req[t].op \in {"make_public", "make_private"})'
    <3>1. CASE t # s
      BY <1>1, <3>1 DEF Profile!IInv, Profile!HandlersTyped, Profile!UsersSteps, Profile!OwnersSteps
    <3>2. CASE t = s /\ r = Profile!Idle
      BY <1>1, <3>2 DEF Profile!UsersSteps, Profile!OwnersSteps
    <3>3. CASE t = s /\ r # Profile!Idle
      BY <1>1, <3>3 DEF Profile!IInv, Profile!HandlersTyped, Profile!UsersSteps, Profile!OwnersSteps
    <3> QED
      BY <3>1, <3>2, <3>3
  <2> QED
    BY <2>1 DEF Profile!HandlersTyped, Profile!UsersSteps, Profile!OwnersSteps
<1>6. Profile!OneHandler'
  BY <1>3, <1>4 DEF Profile!IInv, Profile!OneHandler
<1>7. \A u \in Users : u \in Profile!Concerns(s) \/ (private' = private
          /\ (u \in follows' <=> u \in follows) /\ (u \in requests' <=> u \in requests)
          /\ (u \in shown' <=> u \in shown))
  BY DEF Profile!Concerns
<1>8. ASSUME NEW u \in Users \ disturbed, NEW t \in Sessions, u \in Profile!Concerns(t)'
      PROVE  Profile!FoundSo(t, u)'
  <2>1. CASE t = s
    <3>1. r # Profile!Idle
      BY <1>1, <1>8, <2>1 DEF Profile!Concerns
    <3> QED
      BY <1>3, <1>8, <2>1, <3>1
  <2>2. CASE t # s
    <3>1. u \in Profile!Concerns(t) /\ u \notin Profile!Concerns(s)
      BY <1>4, <1>8, <2>2 DEF Profile!IInv, Profile!OneHandler
    <3>2. Profile!FoundSo(t, u)
      BY <1>8, <3>1 DEF Profile!IInv
    <3> QED
      BY <1>1, <1>7, <2>2, <3>1, <3>2 DEF Profile!FoundSo, Profile!Consistent
  <2> QED
    BY <2>1, <2>2
<1>9. Profile!FollowsConsistent'
  <2>1. ASSUME NEW u \in Users \ disturbed, Profile!AtRest(u)'
        PROVE  Profile!Consistent(u)'
    <3>1. CASE u \in Profile!Concerns(s)
      <4>1. r = Profile!Idle
        BY <1>1, <2>1, <3>1 DEF Profile!AtRest, Profile!Concerns
      <4> QED
        BY <3>1, <4>1
    <3>2. CASE u \notin Profile!Concerns(s)
      <4>1. Profile!AtRest(u)
        BY <1>4, <2>1, <3>2 DEF Profile!AtRest
      <4>2. Profile!Consistent(u)
        BY <4>1 DEF Profile!IInv, Profile!FollowsConsistent
      <4> QED
        BY <1>7, <3>2, <4>2 DEF Profile!Consistent
    <3> QED
      BY <3>1, <3>2
  <2> QED
    BY <2>1 DEF Profile!FollowsConsistent
<1> QED
  BY <1>2, <1>5, <1>6, <1>8, <1>9 DEF Profile!IInv

\* What a handler under way knows.
LEMMA FollowsAt ==
    ASSUME NoUser \notin Users, Profile!IInv, NEW s \in Sessions, req[s].at # "idle"
    PROVE  /\ req[s] # Profile!Idle /\ req[s] \in Profile!Handlers
           /\ private \in BOOLEAN /\ follows \subseteq Users /\ requests \subseteq Users /\ shown \subseteq Users
           /\ req[s].at \in Profile!UsersSteps <=> req[s].user \in Users
           /\ req[s].at \in Profile!UsersSteps => Profile!Concerns(s) = {req[s].user}
           /\ req[s].at \in Profile!OwnersSteps => req[s].op \in {"make_public", "make_private"}
           /\ \A u \in Users \ disturbed : u \in Profile!Concerns(s) => Profile!FoundSo(s, u)
<1>1. req[s] # Profile!Idle
  BY FollowsHandlers
<1>2. req[s] \in Profile!Handlers
  BY DEF Profile!IInv, Profile!TypeOK
<1>3. req[s].at \in Profile!UsersSteps <=> req[s].user \in Users
  BY DEF Profile!IInv, Profile!HandlersTyped
<1> QED
  BY <1>1, <1>2, <1>3 DEF Profile!IInv, Profile!TypeOK, Profile!HandlersTyped, Profile!Concerns

LEMMA FollowsAsks ==
    ASSUME NoUser \notin Users, Profile!IInv, NEW s \in Sessions, Profile!Ask(s)
    PROVE  Profile!IInv'
<1> USE FollowsHandlers
<1>1. PICK op \in Profile!Ops, at \in Profile!UsersSteps \cup Profile!OwnersSteps, u \in Users \cup {NoUser} :
        /\ Profile!Begin(s, op, at, u)
        /\ at \in {"check", "unfollow", "delete_request", "read"}
        /\ at \in Profile!UsersSteps <=> u \in Users
        /\ at \in Profile!OwnersSteps => op \in {"make_public", "make_private"}
        /\ at = "delete_request" => op # "unfollow"
  BY DEF Profile!Ask, Profile!Follow, Profile!Unfollow, Profile!Accept, Profile!Decline, Profile!UpdatePrivacy,
         Profile!Ops, Profile!UsersSteps, Profile!OwnersSteps
<1> DEFINE r == [Profile!Idle EXCEPT !.op = op, !.at = at, !.user = u]
<1> DEFINE mine == IF u = NoUser THEN Users ELSE {u}
<1>2. r \in Profile!Handlers /\ r.at = at /\ r.user = u /\ r.op = op
  BY DEF Profile!Idle, Profile!Handlers
<1>3. r # Profile!Idle
  BY <1>2 DEF Profile!UsersSteps, Profile!OwnersSteps
<1>4. /\ req' = [req EXCEPT ![s] = r] /\ req[s] = Profile!Idle
      /\ disturbed' = disturbed \cup UNION {mine \cap Profile!Concerns(t) : t \in Sessions}
      /\ private' = private /\ follows' = follows /\ requests' = requests /\ shown' = shown
  BY <1>1 DEF Profile!Begin, Profile!rows
<1> HIDE DEF r
<1>5. /\ req'[s] = r /\ \A t \in Sessions \ {s} : req'[t] = req[t]
      /\ req' \in [Sessions -> Profile!Handlers]
  BY <1>2, <1>4 DEF Profile!IInv, Profile!TypeOK
<1>6. \A t \in Sessions \ {s} : Profile!Concerns(t)' = Profile!Concerns(t)
  BY <1>5 DEF Profile!Concerns
<1>7. Profile!Concerns(s)' = mine /\ Profile!Concerns(s) = {}
  BY <1>2, <1>3, <1>4, <1>5 DEF Profile!Concerns
<1>8. Profile!TypeOK'
  <2>1. mine \subseteq Users
    OBVIOUS
  <2> QED
    BY <1>4, <1>5, <2>1 DEF Profile!IInv, Profile!TypeOK
<1>9. Profile!HandlersTyped'
  BY <1>1, <1>2, <1>3, <1>5 DEF Profile!IInv, Profile!HandlersTyped, Profile!UsersSteps, Profile!OwnersSteps
<1>10. \A v \in Users \ disturbed' : v \in mine => \A t \in Sessions : v \notin Profile!Concerns(t)
  BY <1>4
<1>11. Profile!OneHandler'
  BY <1>4, <1>6, <1>7, <1>10 DEF Profile!IInv, Profile!OneHandler
<1>12. \A v : Profile!Consistent(v)' <=> Profile!Consistent(v)
  BY <1>4 DEF Profile!Consistent
<1>13. ASSUME NEW v \in Users \ disturbed', NEW t \in Sessions, v \in Profile!Concerns(t)'
       PROVE  Profile!FoundSo(t, v)'
  <2>1. CASE t = s
    <3>1. Profile!Consistent(v)'
      BY <1>4, <1>7, <1>10, <1>12, <1>13, <2>1
         DEF Profile!IInv, Profile!FollowsConsistent, Profile!AtRest
    <3> QED
      BY <1>1, <1>2, <1>5, <2>1, <3>1 DEF Profile!FoundSo
  <2>2. CASE t # s
    <3>1. Profile!FoundSo(t, v)
      BY <1>4, <1>6, <1>13, <2>2 DEF Profile!IInv
    <3> QED
      BY <1>4, <1>5, <1>12, <2>2, <3>1 DEF Profile!FoundSo
  <2> QED
    BY <2>1, <2>2
<1>14. Profile!FollowsConsistent'
  BY <1>4, <1>6, <1>7, <1>12 DEF Profile!IInv, Profile!FollowsConsistent, Profile!AtRest
<1> QED
  BY <1>8, <1>9, <1>11, <1>13, <1>14 DEF Profile!IInv

LEMMA FollowsRestarts ==
    ASSUME NoUser \notin Users, Profile!IInv, Profile!Restart
    PROVE  Profile!IInv'
<1> USE FollowsHandlers
<1>1. \A s \in Sessions : req'[s] = Profile!Idle
  BY DEF Profile!Restart
<1>2. \A s \in Sessions : Profile!Concerns(s)' = {} /\ Profile!Concerns(s) \subseteq Users \cup {NoUser}
  BY <1>1 DEF Profile!Concerns, Profile!IInv, Profile!TypeOK
<1>3. \A s \in Sessions : Profile!Concerns(s) \subseteq Users
  BY DEF Profile!Concerns, Profile!IInv, Profile!TypeOK
<1>4. Profile!TypeOK'
  BY <1>3 DEF Profile!Restart, Profile!IInv, Profile!TypeOK
<1>5. Profile!HandlersTyped' /\ Profile!OneHandler'
  BY <1>1, <1>2 DEF Profile!HandlersTyped, Profile!UsersSteps, Profile!OwnersSteps, Profile!OneHandler
<1>6. Profile!FollowsConsistent'
  BY DEF Profile!Restart, Profile!IInv, Profile!FollowsConsistent, Profile!Consistent, Profile!AtRest
<1> QED
  BY <1>2, <1>4, <1>5, <1>6 DEF Profile!IInv

(* What a handler knows, where it goes on, and what its step leaves alone. *)
FollowsKnown(s) ==
    /\ req[s] # Profile!Idle /\ req[s] \in Profile!Handlers
    /\ private \in BOOLEAN /\ follows \subseteq Users /\ requests \subseteq Users /\ shown \subseteq Users
    /\ req[s].at \in Profile!UsersSteps <=> req[s].user \in Users
    /\ req[s].at \in Profile!UsersSteps => Profile!Concerns(s) = {req[s].user}
    /\ req[s].at \in Profile!OwnersSteps => req[s].op \in {"make_public", "make_private"}
    /\ \A u \in Users \ disturbed : u \in Profile!Concerns(s) => Profile!FoundSo(s, u)
FollowsOn(s, r) ==
    /\ r \in Profile!Handlers
    /\ r = Profile!Idle \/ (r.user = req[s].user /\ r.op = req[s].op
                             /\ (r.at \in Profile!UsersSteps <=> req[s].at \in Profile!UsersSteps)
                             /\ r.at # "idle")
FollowsKept(s) ==
    /\ disturbed' = disturbed
    /\ private' \in BOOLEAN /\ follows' \subseteq Users /\ requests' \subseteq Users /\ shown' \subseteq Users
    /\ req[s].user # NoUser => private' = private
    /\ \A u \in Users \ {req[s].user} : req[s].user # NoUser =>
          /\ u \in follows' <=> u \in follows
          /\ u \in requests' <=> u \in requests
          /\ u \in shown' <=> u \in shown
USE DEF FollowsKnown, FollowsOn, FollowsKept

LEMMA FollowsCheckFollowing ==
    ASSUME NoUser \notin Users, Profile!IInv, NEW s \in Sessions, Profile!CheckFollowing(s)
    PROVE  Profile!IInv'
<1>1. req[s].at \in {"check"}
  BY DEF Profile!CheckFollowing, Profile!At
<1>2. FollowsKnown(s)
  BY <1>1, FollowsAt
<1> DEFINE r == IF req[s].user \in follows THEN Profile!Idle ELSE [req[s] EXCEPT !.at = "visibility"]
<1>3. req' = [req EXCEPT ![s] = r]
  BY <1>1 DEF Profile!CheckFollowing, Profile!Goto, Profile!End, Profile!AfterDelete, Profile!User, Profile!At,
     Profile!BecamePublic
<1>4. FollowsOn(s, r)
  BY <1>1, <1>2, FollowsHandlers DEF Profile!Handlers, Profile!UsersSteps, Profile!OwnersSteps
<1>5. req'[s] = r
  BY <1>3 DEF Profile!IInv, Profile!TypeOK
<1>6. FollowsKept(s)
  BY <1>1, <1>2, FollowsHandlers
     DEF Profile!CheckFollowing, Profile!User, Profile!At, Profile!rows, Profile!UsersSteps, Profile!OwnersSteps
<1>7. ASSUME NEW u \in Users \ disturbed, u \in Profile!Concerns(s)
      PROVE  IF r = Profile!Idle THEN Profile!Consistent(u)' ELSE Profile!FoundSo(s, u)'
  <2>1. Profile!FoundSo(s, u) /\ (req[s].at \in Profile!UsersSteps => u = req[s].user)
    BY <1>2, <1>7
  <2>2. r = Profile!Idle \/ (r.at # "idle" /\ r.op = req[s].op)
    BY <1>4
  <2> QED
    BY <1>1, <1>2, <1>5, <2>1, <2>2, FollowsHandlers
       DEF Profile!CheckFollowing, Profile!User, Profile!At, Profile!FoundSo, Profile!Consistent, Profile!rows,
           Profile!UsersSteps, Profile!OwnersSteps, Profile!Handlers
<1> QED
  BY <1>2, <1>3, <1>4, <1>6, <1>7, FollowsMove

LEMMA FollowsReadVisibility ==
    ASSUME NoUser \notin Users, Profile!IInv, NEW s \in Sessions, Profile!ReadVisibility(s)
    PROVE  Profile!IInv'
<1>1. req[s].at \in {"visibility"}
  BY DEF Profile!ReadVisibility, Profile!At
<1>2. FollowsKnown(s)
  BY <1>1, FollowsAt
<1> DEFINE r == [req[s] EXCEPT !.at = IF private THEN "create_request" ELSE "create_follow"]
<1>3. req' = [req EXCEPT ![s] = r]
  BY <1>1 DEF Profile!ReadVisibility, Profile!Goto, Profile!End, Profile!AfterDelete, Profile!User, Profile!At,
     Profile!BecamePublic
<1>4. FollowsOn(s, r)
  BY <1>1, <1>2, FollowsHandlers DEF Profile!Handlers, Profile!UsersSteps, Profile!OwnersSteps
<1>5. req'[s] = r
  BY <1>3 DEF Profile!IInv, Profile!TypeOK
<1>6. FollowsKept(s)
  BY <1>1, <1>2, FollowsHandlers
     DEF Profile!ReadVisibility, Profile!User, Profile!At, Profile!rows, Profile!UsersSteps, Profile!OwnersSteps
<1>7. ASSUME NEW u \in Users \ disturbed, u \in Profile!Concerns(s)
      PROVE  IF r = Profile!Idle THEN Profile!Consistent(u)' ELSE Profile!FoundSo(s, u)'
  <2>1. Profile!FoundSo(s, u) /\ (req[s].at \in Profile!UsersSteps => u = req[s].user)
    BY <1>2, <1>7
  <2>2. r # Profile!Idle /\ r.at = (IF private THEN "create_request" ELSE "create_follow") /\ r.op = req[s].op
    BY <1>1, <1>2, FollowsHandlers DEF Profile!Handlers
  <2>3. private' = private /\ follows' = follows /\ requests' = requests /\ shown' = shown
    BY DEF Profile!ReadVisibility, Profile!rows
  <2> HIDE DEF r
  <2>4. Profile!FoundSo(s, u)'
    BY <1>1, <1>2, <1>5, <2>1, <2>2, <2>3
       DEF Profile!FoundSo, Profile!Consistent, Profile!UsersSteps, Profile!OwnersSteps
  <2> QED
    BY <2>2, <2>4
<1> QED
  BY <1>2, <1>3, <1>4, <1>6, <1>7, FollowsMove

LEMMA FollowsCreateRequest ==
    ASSUME NoUser \notin Users, Profile!IInv, NEW s \in Sessions, Profile!CreateRequest(s)
    PROVE  Profile!IInv'
<1>1. req[s].at \in {"create_request"}
  BY DEF Profile!CreateRequest, Profile!At
<1>2. FollowsKnown(s)
  BY <1>1, FollowsAt
<1> DEFINE r == IF req[s].user \in requests THEN Profile!Idle ELSE [req[s] EXCEPT !.at = "created"]
<1>3. req' = [req EXCEPT ![s] = r]
  BY <1>1 DEF Profile!CreateRequest, Profile!Goto, Profile!End, Profile!AfterDelete, Profile!User, Profile!At,
     Profile!BecamePublic
<1>4. FollowsOn(s, r)
  BY <1>1, <1>2, FollowsHandlers DEF Profile!Handlers, Profile!UsersSteps, Profile!OwnersSteps
<1>5. req'[s] = r
  BY <1>3 DEF Profile!IInv, Profile!TypeOK
<1>6. FollowsKept(s)
  BY <1>1, <1>2, FollowsHandlers
     DEF Profile!CreateRequest, Profile!User, Profile!At, Profile!rows, Profile!UsersSteps, Profile!OwnersSteps
<1>7. ASSUME NEW u \in Users \ disturbed, u \in Profile!Concerns(s)
      PROVE  IF r = Profile!Idle THEN Profile!Consistent(u)' ELSE Profile!FoundSo(s, u)'
  <2>1. Profile!FoundSo(s, u) /\ (req[s].at \in Profile!UsersSteps => u = req[s].user)
    BY <1>2, <1>7
  <2>2. IF req[s].user \in requests THEN r = Profile!Idle ELSE r # Profile!Idle /\ r.at = "created"
    BY <1>1, <1>2, FollowsHandlers DEF Profile!Handlers
  <2>3. private' = private /\ follows' = follows /\ requests' = requests \cup {req[s].user} /\ shown' = shown
    BY DEF Profile!CreateRequest, Profile!rows, Profile!User
  <2> HIDE DEF r
  <2>4. CASE r = Profile!Idle
    BY <1>1, <1>2, <2>1, <2>2, <2>3, <2>4
       DEF Profile!FoundSo, Profile!Consistent, Profile!UsersSteps, Profile!OwnersSteps
  <2>5. CASE r # Profile!Idle
    BY <1>1, <1>2, <1>5, <2>1, <2>2, <2>3, <2>5
       DEF Profile!FoundSo, Profile!Consistent, Profile!UsersSteps, Profile!OwnersSteps
  <2> QED
    BY <2>4, <2>5
<1> QED
  BY <1>2, <1>3, <1>4, <1>6, <1>7, FollowsMove

LEMMA FollowsPublishCreated ==
    ASSUME NoUser \notin Users, Profile!IInv, NEW s \in Sessions, Profile!PublishCreated(s)
    PROVE  Profile!IInv'
<1>1. req[s].at \in {"created"}
  BY DEF Profile!PublishCreated, Profile!At
<1>2. FollowsKnown(s)
  BY <1>1, FollowsAt
<1> DEFINE r == Profile!Idle
<1>3. req' = [req EXCEPT ![s] = r]
  BY <1>1 DEF Profile!PublishCreated, Profile!Goto, Profile!End, Profile!AfterDelete, Profile!User, Profile!At,
     Profile!BecamePublic
<1>4. FollowsOn(s, r)
  BY <1>1, <1>2, FollowsHandlers DEF Profile!Handlers, Profile!UsersSteps, Profile!OwnersSteps
<1>5. req'[s] = r
  BY <1>3 DEF Profile!IInv, Profile!TypeOK
<1>6. FollowsKept(s)
  BY <1>1, <1>2, FollowsHandlers
     DEF Profile!PublishCreated, Profile!User, Profile!At, Profile!rows, Profile!UsersSteps, Profile!OwnersSteps
<1>7. ASSUME NEW u \in Users \ disturbed, u \in Profile!Concerns(s)
      PROVE  IF r = Profile!Idle THEN Profile!Consistent(u)' ELSE Profile!FoundSo(s, u)'
  <2>1. Profile!FoundSo(s, u) /\ (req[s].at \in Profile!UsersSteps => u = req[s].user)
    BY <1>2, <1>7
  <2> QED
    BY <1>1, <1>2, <1>5, <2>1, FollowsHandlers
       DEF Profile!PublishCreated, Profile!User, Profile!At, Profile!FoundSo, Profile!Consistent, Profile!rows,
           Profile!UsersSteps, Profile!OwnersSteps, Profile!Handlers
<1> QED
  BY <1>2, <1>3, <1>4, <1>6, <1>7, FollowsMove

LEMMA FollowsCreateFollow ==
    ASSUME NoUser \notin Users, Profile!IInv, NEW s \in Sessions, Profile!CreateFollow(s)
    PROVE  Profile!IInv'
<1>1. req[s].at \in {"create_follow", "accepted"}
  BY DEF Profile!CreateFollow, Profile!At
<1>2. FollowsKnown(s)
  BY <1>1, FollowsAt
<1> DEFINE r == IF req[s].at = "accepted" /\ req[s].user \notin follows THEN [req[s] EXCEPT !.at = "removed"] ELSE Profile!Idle
<1>3. req' = [req EXCEPT ![s] = r]
  BY <1>1 DEF Profile!CreateFollow, Profile!Goto, Profile!End, Profile!AfterDelete, Profile!User, Profile!At,
     Profile!BecamePublic
<1>4. FollowsOn(s, r)
  BY <1>1, <1>2, FollowsHandlers DEF Profile!Handlers, Profile!UsersSteps, Profile!OwnersSteps
<1>5. req'[s] = r
  BY <1>3 DEF Profile!IInv, Profile!TypeOK
<1>6. FollowsKept(s)
  BY <1>1, <1>2, FollowsHandlers
     DEF Profile!CreateFollow, Profile!User, Profile!At, Profile!rows, Profile!UsersSteps, Profile!OwnersSteps
<1>7. ASSUME NEW u \in Users \ disturbed, u \in Profile!Concerns(s)
      PROVE  IF r = Profile!Idle THEN Profile!Consistent(u)' ELSE Profile!FoundSo(s, u)'
  <2>1. Profile!FoundSo(s, u) /\ (req[s].at \in Profile!UsersSteps => u = req[s].user)
    BY <1>2, <1>7
  <2>2. r = Profile!Idle \/ (r.at # "idle" /\ r.op = req[s].op)
    BY <1>4
  <2> QED
    BY <1>1, <1>2, <1>5, <2>1, <2>2, FollowsHandlers
       DEF Profile!CreateFollow, Profile!User, Profile!At, Profile!FoundSo, Profile!Consistent, Profile!rows,
           Profile!UsersSteps, Profile!OwnersSteps, Profile!Handlers
<1> QED
  BY <1>2, <1>3, <1>4, <1>6, <1>7, FollowsMove

LEMMA FollowsDeleteFollow ==
    ASSUME NoUser \notin Users, Profile!IInv, NEW s \in Sessions, Profile!DeleteFollow(s)
    PROVE  Profile!IInv'
<1>1. req[s].at \in {"unfollow"}
  BY DEF Profile!DeleteFollow, Profile!At
<1>2. FollowsKnown(s)
  BY <1>1, FollowsAt
<1> DEFINE r == IF req[s].user \in follows THEN Profile!Idle ELSE [req[s] EXCEPT !.at = "delete_request"]
<1>3. req' = [req EXCEPT ![s] = r]
  BY <1>1 DEF Profile!DeleteFollow, Profile!Goto, Profile!End, Profile!AfterDelete, Profile!User, Profile!At,
     Profile!BecamePublic
<1>4. FollowsOn(s, r)
  BY <1>1, <1>2, FollowsHandlers DEF Profile!Handlers, Profile!UsersSteps, Profile!OwnersSteps
<1>5. req'[s] = r
  BY <1>3 DEF Profile!IInv, Profile!TypeOK
<1>6. FollowsKept(s)
  BY <1>1, <1>2, FollowsHandlers
     DEF Profile!DeleteFollow, Profile!User, Profile!At, Profile!rows, Profile!UsersSteps, Profile!OwnersSteps
<1>7. ASSUME NEW u \in Users \ disturbed, u \in Profile!Concerns(s)
      PROVE  IF r = Profile!Idle THEN Profile!Consistent(u)' ELSE Profile!FoundSo(s, u)'
  <2>1. Profile!FoundSo(s, u) /\ (req[s].at \in Profile!UsersSteps => u = req[s].user)
    BY <1>2, <1>7
  <2>2. r = Profile!Idle \/ (r.at # "idle" /\ r.op = req[s].op)
    BY <1>4
  <2> QED
    BY <1>1, <1>2, <1>5, <2>1, <2>2, FollowsHandlers
       DEF Profile!DeleteFollow, Profile!User, Profile!At, Profile!FoundSo, Profile!Consistent, Profile!rows,
           Profile!UsersSteps, Profile!OwnersSteps, Profile!Handlers
<1> QED
  BY <1>2, <1>3, <1>4, <1>6, <1>7, FollowsMove

LEMMA FollowsDeleteRequest ==
    ASSUME NoUser \notin Users, Profile!IInv, NEW s \in Sessions, Profile!DeleteRequest(s)
    PROVE  Profile!IInv'
<1>1. req[s].at \in {"delete_request"}
  BY DEF Profile!DeleteRequest, Profile!At
<1>2. FollowsKnown(s)
  BY <1>1, FollowsAt
<1> DEFINE r == IF req[s].user \in requests
             THEN [req[s] EXCEPT !.at = IF req[s].op = "accept" THEN "accepted" ELSE "removed"]
             ELSE Profile!Idle
<1>3. req' = [req EXCEPT ![s] = r]
  BY <1>1 DEF Profile!DeleteRequest, Profile!Goto, Profile!End, Profile!AfterDelete, Profile!User, Profile!At,
     Profile!BecamePublic
<1>4. FollowsOn(s, r)
  BY <1>1, <1>2, FollowsHandlers DEF Profile!Handlers, Profile!UsersSteps, Profile!OwnersSteps
<1>5. req'[s] = r
  BY <1>3 DEF Profile!IInv, Profile!TypeOK
<1>6. FollowsKept(s)
  BY <1>1, <1>2, FollowsHandlers
     DEF Profile!DeleteRequest, Profile!User, Profile!At, Profile!rows, Profile!UsersSteps, Profile!OwnersSteps
<1>7. ASSUME NEW u \in Users \ disturbed, u \in Profile!Concerns(s)
      PROVE  IF r = Profile!Idle THEN Profile!Consistent(u)' ELSE Profile!FoundSo(s, u)'
  <2>1. Profile!FoundSo(s, u) /\ (req[s].at \in Profile!UsersSteps => u = req[s].user)
    BY <1>2, <1>7
  <2>2. r = Profile!Idle \/ (r.at # "idle" /\ r.op = req[s].op)
    BY <1>4
  <2> QED
    BY <1>1, <1>2, <1>5, <2>1, <2>2, FollowsHandlers
       DEF Profile!DeleteRequest, Profile!User, Profile!At, Profile!FoundSo, Profile!Consistent, Profile!rows,
           Profile!UsersSteps, Profile!OwnersSteps, Profile!Handlers
<1> QED
  BY <1>2, <1>3, <1>4, <1>6, <1>7, FollowsMove

LEMMA FollowsPublishRemoved ==
    ASSUME NoUser \notin Users, Profile!IInv, NEW s \in Sessions, Profile!PublishRemoved(s)
    PROVE  Profile!IInv'
<1>1. req[s].at \in {"removed"}
  BY DEF Profile!PublishRemoved, Profile!At
<1>2. FollowsKnown(s)
  BY <1>1, FollowsAt
<1> DEFINE r == Profile!Idle
<1>3. req' = [req EXCEPT ![s] = r]
  BY <1>1 DEF Profile!PublishRemoved, Profile!Goto, Profile!End, Profile!AfterDelete, Profile!User, Profile!At,
     Profile!BecamePublic
<1>4. FollowsOn(s, r)
  BY <1>1, <1>2, FollowsHandlers DEF Profile!Handlers, Profile!UsersSteps, Profile!OwnersSteps
<1>5. req'[s] = r
  BY <1>3 DEF Profile!IInv, Profile!TypeOK
<1>6. FollowsKept(s)
  BY <1>1, <1>2, FollowsHandlers
     DEF Profile!PublishRemoved, Profile!User, Profile!At, Profile!rows, Profile!UsersSteps, Profile!OwnersSteps
<1>7. ASSUME NEW u \in Users \ disturbed, u \in Profile!Concerns(s)
      PROVE  IF r = Profile!Idle THEN Profile!Consistent(u)' ELSE Profile!FoundSo(s, u)'
  <2>1. Profile!FoundSo(s, u) /\ (req[s].at \in Profile!UsersSteps => u = req[s].user)
    BY <1>2, <1>7
  <2> QED
    BY <1>1, <1>2, <1>5, <2>1, FollowsHandlers
       DEF Profile!PublishRemoved, Profile!User, Profile!At, Profile!FoundSo, Profile!Consistent, Profile!rows,
           Profile!UsersSteps, Profile!OwnersSteps, Profile!Handlers
<1> QED
  BY <1>2, <1>3, <1>4, <1>6, <1>7, FollowsMove

LEMMA FollowsReadPrevious ==
    ASSUME NoUser \notin Users, Profile!IInv, NEW s \in Sessions, Profile!ReadPrevious(s)
    PROVE  Profile!IInv'
<1>1. req[s].at \in {"read"}
  BY DEF Profile!ReadPrevious, Profile!At
<1>2. FollowsKnown(s)
  BY <1>1, FollowsAt
<1> DEFINE r == [req[s] EXCEPT !.at = "save", !.was = private]
<1>3. req' = [req EXCEPT ![s] = r]
  BY <1>1 DEF Profile!ReadPrevious, Profile!Goto, Profile!End, Profile!AfterDelete, Profile!User, Profile!At,
     Profile!BecamePublic
<1>4. FollowsOn(s, r)
  BY <1>1, <1>2, FollowsHandlers DEF Profile!Handlers, Profile!UsersSteps, Profile!OwnersSteps
<1>5. req'[s] = r
  BY <1>3 DEF Profile!IInv, Profile!TypeOK
<1>6. FollowsKept(s)
  BY <1>1, <1>2, FollowsHandlers
     DEF Profile!ReadPrevious, Profile!User, Profile!At, Profile!rows, Profile!UsersSteps, Profile!OwnersSteps
<1>7. ASSUME NEW u \in Users \ disturbed, u \in Profile!Concerns(s)
      PROVE  IF r = Profile!Idle THEN Profile!Consistent(u)' ELSE Profile!FoundSo(s, u)'
  <2>1. Profile!FoundSo(s, u) /\ (req[s].at \in Profile!UsersSteps => u = req[s].user)
    BY <1>2, <1>7
  <2>6. r.at = "save" /\ r.was = private
    BY <1>2 DEF Profile!Handlers
  <2>2. r # Profile!Idle /\ r.at = "save" /\ r.was = private
    BY <2>6, FollowsHandlers
  <2>3. private' = private /\ follows' = follows /\ requests' = requests /\ shown' = shown
    BY DEF Profile!ReadPrevious, Profile!rows, Profile!User
  <2> HIDE DEF r
  <2>4. CASE r = Profile!Idle
    BY <1>1, <1>2, <2>1, <2>2, <2>3, <2>4
       DEF Profile!FoundSo, Profile!Consistent, Profile!UsersSteps, Profile!OwnersSteps
  <2>5. CASE r # Profile!Idle
    BY <1>1, <1>2, <1>5, <2>1, <2>2, <2>3, <2>5
       DEF Profile!FoundSo, Profile!Consistent, Profile!UsersSteps, Profile!OwnersSteps
  <2> QED
    BY <2>4, <2>5
<1> QED
  BY <1>2, <1>3, <1>4, <1>6, <1>7, FollowsMove

LEMMA FollowsSaveVisibility ==
    ASSUME NoUser \notin Users, Profile!IInv, NEW s \in Sessions, Profile!SaveVisibility(s)
    PROVE  Profile!IInv'
<1>1. req[s].at \in {"save"}
  BY DEF Profile!SaveVisibility, Profile!At
<1>2. FollowsKnown(s)
  BY <1>1, FollowsAt
<1> DEFINE r == [req[s] EXCEPT !.at = "saved"]
<1>3. req' = [req EXCEPT ![s] = r]
  BY <1>1 DEF Profile!SaveVisibility, Profile!Goto, Profile!End, Profile!AfterDelete, Profile!User, Profile!At,
     Profile!BecamePublic
<1>4. FollowsOn(s, r)
  BY <1>1, <1>2, FollowsHandlers DEF Profile!Handlers, Profile!UsersSteps, Profile!OwnersSteps
<1>5. req'[s] = r
  BY <1>3 DEF Profile!IInv, Profile!TypeOK
<1>6. FollowsKept(s)
  BY <1>1, <1>2, FollowsHandlers
     DEF Profile!SaveVisibility, Profile!User, Profile!At, Profile!rows, Profile!UsersSteps, Profile!OwnersSteps
<1>7. ASSUME NEW u \in Users \ disturbed, u \in Profile!Concerns(s)
      PROVE  IF r = Profile!Idle THEN Profile!Consistent(u)' ELSE Profile!FoundSo(s, u)'
  <2>1. Profile!FoundSo(s, u) /\ (req[s].at \in Profile!UsersSteps => u = req[s].user)
    BY <1>2, <1>7
  <2>2. r # Profile!Idle /\ r.at = "saved" /\ r.op = req[s].op /\ r.was = req[s].was
    BY <1>1, <1>2, FollowsHandlers DEF Profile!Handlers
  <2>3.
       /\ private' = IF (req[s].op = "make_private") = req[s].was THEN private ELSE req[s].op = "make_private"
       /\ follows' = follows /\ requests' = requests /\ shown' = shown
    BY DEF Profile!SaveVisibility, Profile!rows
  <2> HIDE DEF r
  <2>4. Profile!FoundSo(s, u)'
    BY <1>1, <1>2, <1>5, <2>1, <2>2, <2>3
       DEF Profile!FoundSo, Profile!Consistent, Profile!UsersSteps, Profile!OwnersSteps
  <2> QED
    BY <2>2, <2>4
<1> QED
  BY <1>2, <1>3, <1>4, <1>6, <1>7, FollowsMove

LEMMA FollowsDecideAcceptAll ==
    ASSUME NoUser \notin Users, Profile!IInv, NEW s \in Sessions, Profile!DecideAcceptAll(s)
    PROVE  Profile!IInv'
<1>1. req[s].at \in {"saved"}
  BY DEF Profile!DecideAcceptAll, Profile!At
<1>2. FollowsKnown(s)
  BY <1>1, FollowsAt
<1> DEFINE r == IF req[s].was /\ ~private THEN [req[s] EXCEPT !.at = "delete_all"] ELSE Profile!Idle
<1>3. req' = [req EXCEPT ![s] = r]
  BY <1>1 DEF Profile!DecideAcceptAll, Profile!Goto, Profile!End, Profile!AfterDelete, Profile!User, Profile!At,
     Profile!BecamePublic
<1>4. FollowsOn(s, r)
  BY <1>1, <1>2, FollowsHandlers DEF Profile!Handlers, Profile!UsersSteps, Profile!OwnersSteps
<1>5. req'[s] = r
  BY <1>3 DEF Profile!IInv, Profile!TypeOK
<1>6. FollowsKept(s)
  BY <1>1, <1>2, FollowsHandlers
     DEF Profile!DecideAcceptAll, Profile!User, Profile!At, Profile!rows, Profile!UsersSteps, Profile!OwnersSteps
<1>7. ASSUME NEW u \in Users \ disturbed, u \in Profile!Concerns(s)
      PROVE  IF r = Profile!Idle THEN Profile!Consistent(u)' ELSE Profile!FoundSo(s, u)'
  <2>1. Profile!FoundSo(s, u) /\ (req[s].at \in Profile!UsersSteps => u = req[s].user)
    BY <1>2, <1>7
  <2>2. r = Profile!Idle \/ (r.at # "idle" /\ r.op = req[s].op)
    BY <1>4
  <2> QED
    BY <1>1, <1>2, <1>5, <2>1, <2>2, FollowsHandlers
       DEF Profile!DecideAcceptAll, Profile!User, Profile!At, Profile!FoundSo, Profile!Consistent, Profile!rows,
           Profile!UsersSteps, Profile!OwnersSteps, Profile!Handlers
<1> QED
  BY <1>2, <1>3, <1>4, <1>6, <1>7, FollowsMove

LEMMA FollowsDeleteAllRequests ==
    ASSUME NoUser \notin Users, Profile!IInv, NEW s \in Sessions, Profile!DeleteAllRequests(s)
    PROVE  Profile!IInv'
<1>1. req[s].at \in {"delete_all"}
  BY DEF Profile!DeleteAllRequests, Profile!At
<1>2. FollowsKnown(s)
  BY <1>1, FollowsAt
<1> DEFINE r == IF requests = {} THEN Profile!Idle ELSE [req[s] EXCEPT !.at = "accept_all", !.batch = requests]
<1>3. req' = [req EXCEPT ![s] = r]
  BY <1>1 DEF Profile!DeleteAllRequests, Profile!Goto, Profile!End, Profile!AfterDelete, Profile!User, Profile!At,
     Profile!BecamePublic
<1>4. FollowsOn(s, r)
  BY <1>1, <1>2, FollowsHandlers DEF Profile!Handlers, Profile!UsersSteps, Profile!OwnersSteps
<1>5. req'[s] = r
  BY <1>3 DEF Profile!IInv, Profile!TypeOK
<1>6. FollowsKept(s)
  BY <1>1, <1>2, FollowsHandlers
     DEF Profile!DeleteAllRequests, Profile!User, Profile!At, Profile!rows, Profile!UsersSteps, Profile!OwnersSteps
<1>7. ASSUME NEW u \in Users \ disturbed, u \in Profile!Concerns(s)
      PROVE  IF r = Profile!Idle THEN Profile!Consistent(u)' ELSE Profile!FoundSo(s, u)'
  <2>1. Profile!FoundSo(s, u) /\ (req[s].at \in Profile!UsersSteps => u = req[s].user)
    BY <1>2, <1>7
  <2> DEFINE on == [req[s] EXCEPT !.at = "accept_all", !.batch = requests]
  <2>6. on.at = "accept_all" /\ on.batch = requests
    BY <1>2 DEF Profile!Handlers
  <2>7. on # Profile!Idle
    BY <2>6, FollowsHandlers
  <2>2. IF requests = {} THEN r = Profile!Idle ELSE r # Profile!Idle /\ r.at = "accept_all" /\ r.batch = requests
    BY <2>6, <2>7
  <2>3. private' = private /\ follows' = follows /\ requests' = {} /\ shown' = shown
    BY DEF Profile!DeleteAllRequests, Profile!rows, Profile!User
  <2> HIDE DEF r
  <2>4. CASE r = Profile!Idle
    BY <1>1, <1>2, <2>1, <2>2, <2>3, <2>4
       DEF Profile!FoundSo, Profile!Consistent, Profile!UsersSteps, Profile!OwnersSteps
  <2>5. CASE r # Profile!Idle
    BY <1>1, <1>2, <1>5, <2>1, <2>2, <2>3, <2>5
       DEF Profile!FoundSo, Profile!Consistent, Profile!UsersSteps, Profile!OwnersSteps
  <2> QED
    BY <2>4, <2>5
<1> QED
  BY <1>2, <1>3, <1>4, <1>6, <1>7, FollowsMove

LEMMA FollowsCreateAllFollows ==
    ASSUME NoUser \notin Users, Profile!IInv, NEW s \in Sessions, Profile!CreateAllFollows(s)
    PROVE  Profile!IInv'
<1>1. req[s].at \in {"accept_all"}
  BY DEF Profile!CreateAllFollows, Profile!At
<1>2. FollowsKnown(s)
  BY <1>1, FollowsAt
<1> DEFINE r == [req[s] EXCEPT !.at = "announce", !.batch = req[s].batch \ follows]
<1>3. req' = [req EXCEPT ![s] = r]
  BY <1>1 DEF Profile!CreateAllFollows, Profile!Goto, Profile!End, Profile!AfterDelete, Profile!User, Profile!At,
     Profile!BecamePublic
<1>4. FollowsOn(s, r)
  BY <1>1, <1>2, FollowsHandlers DEF Profile!Handlers, Profile!UsersSteps, Profile!OwnersSteps
<1>5. req'[s] = r
  BY <1>3 DEF Profile!IInv, Profile!TypeOK
<1>6. FollowsKept(s)
  BY <1>1, <1>2, FollowsHandlers
     DEF Profile!CreateAllFollows, Profile!User, Profile!At, Profile!rows, Profile!UsersSteps, Profile!OwnersSteps
<1>7. ASSUME NEW u \in Users \ disturbed, u \in Profile!Concerns(s)
      PROVE  IF r = Profile!Idle THEN Profile!Consistent(u)' ELSE Profile!FoundSo(s, u)'
  <2>1. Profile!FoundSo(s, u) /\ (req[s].at \in Profile!UsersSteps => u = req[s].user)
    BY <1>2, <1>7
  <2>2. r # Profile!Idle /\ r.at = "announce" /\ r.batch = req[s].batch \ follows
    BY <1>1, <1>2, FollowsHandlers DEF Profile!Handlers
  <2>3. private' = private /\ follows' = follows \cup req[s].batch /\ requests' = requests /\ shown' = shown
    BY DEF Profile!CreateAllFollows, Profile!rows
  <2> HIDE DEF r
  <2>4. Profile!FoundSo(s, u)'
    BY <1>1, <1>2, <1>5, <2>1, <2>2, <2>3
       DEF Profile!FoundSo, Profile!Consistent, Profile!UsersSteps, Profile!OwnersSteps
  <2> QED
    BY <2>2, <2>4
<1> QED
  BY <1>2, <1>3, <1>4, <1>6, <1>7, FollowsMove

LEMMA FollowsPublishNextRemoved ==
    ASSUME NoUser \notin Users, Profile!IInv, NEW s \in Sessions, Profile!PublishNextRemoved(s)
    PROVE  Profile!IInv'
<1>1. req[s].at \in {"announce"}
  BY DEF Profile!PublishNextRemoved, Profile!At
<1>2. FollowsKnown(s)
  BY <1>1, FollowsAt
<1>0. PICK v \in req[s].batch :
        shown' = shown \ {v} /\ req' = [req EXCEPT ![s].batch = @ \ {v}]
  BY DEF Profile!PublishNextRemoved
<1> DEFINE r == [req[s] EXCEPT !.batch = @ \ {v}]
<1>3. req' = [req EXCEPT ![s] = r]
  BY <1>0, <1>1 DEF Profile!PublishNextRemoved, Profile!Goto, Profile!End, Profile!AfterDelete, Profile!User, Profile!At,
     Profile!BecamePublic
<1>4. FollowsOn(s, r)
  BY <1>0, <1>1, <1>2, FollowsHandlers DEF Profile!Handlers, Profile!UsersSteps, Profile!OwnersSteps
<1>5. req'[s] = r
  BY <1>3 DEF Profile!IInv, Profile!TypeOK
<1>6. FollowsKept(s)
  BY <1>0, <1>1, <1>2, FollowsHandlers
     DEF Profile!PublishNextRemoved, Profile!User, Profile!At, Profile!rows, Profile!UsersSteps, Profile!OwnersSteps
<1>7. ASSUME NEW u \in Users \ disturbed, u \in Profile!Concerns(s)
      PROVE  IF r = Profile!Idle THEN Profile!Consistent(u)' ELSE Profile!FoundSo(s, u)'
  <2>1. Profile!FoundSo(s, u) /\ (req[s].at \in Profile!UsersSteps => u = req[s].user)
    BY <1>2, <1>7
  <2>2. r # Profile!Idle /\ r.at = "announce" /\ r.batch = req[s].batch \ {v}
    BY <1>1, <1>2, FollowsHandlers DEF Profile!Handlers
  <2> HIDE DEF r
  <2> QED
    BY <1>0, <1>1, <1>2, <1>5, <2>1, <2>2, FollowsHandlers
       DEF Profile!PublishNextRemoved, Profile!User, Profile!At, Profile!FoundSo, Profile!Consistent, Profile!rows,
           Profile!UsersSteps, Profile!OwnersSteps, Profile!Handlers
<1> QED
  BY <1>2, <1>3, <1>4, <1>6, <1>7, FollowsMove

LEMMA FollowsAcceptedAll ==
    ASSUME NoUser \notin Users, Profile!IInv, NEW s \in Sessions, Profile!AcceptedAll(s)
    PROVE  Profile!IInv'
<1>1. req[s].at \in {"announce"}
  BY DEF Profile!AcceptedAll, Profile!At
<1>2. FollowsKnown(s)
  BY <1>1, FollowsAt
<1> DEFINE r == Profile!Idle
<1>3. req' = [req EXCEPT ![s] = r]
  BY <1>1 DEF Profile!AcceptedAll, Profile!Goto, Profile!End, Profile!AfterDelete, Profile!User, Profile!At,
     Profile!BecamePublic
<1>4. FollowsOn(s, r)
  BY <1>1, <1>2, FollowsHandlers DEF Profile!Handlers, Profile!UsersSteps, Profile!OwnersSteps
<1>5. req'[s] = r
  BY <1>3 DEF Profile!IInv, Profile!TypeOK
<1>6. FollowsKept(s)
  BY <1>1, <1>2, FollowsHandlers
     DEF Profile!AcceptedAll, Profile!User, Profile!At, Profile!rows, Profile!UsersSteps, Profile!OwnersSteps
<1>7. ASSUME NEW u \in Users \ disturbed, u \in Profile!Concerns(s)
      PROVE  IF r = Profile!Idle THEN Profile!Consistent(u)' ELSE Profile!FoundSo(s, u)'
  <2>1. Profile!FoundSo(s, u) /\ (req[s].at \in Profile!UsersSteps => u = req[s].user)
    BY <1>2, <1>7
  <2> QED
    BY <1>1, <1>2, <1>5, <2>1, FollowsHandlers
       DEF Profile!AcceptedAll, Profile!User, Profile!At, Profile!FoundSo, Profile!Consistent, Profile!rows,
           Profile!UsersSteps, Profile!OwnersSteps, Profile!Handlers
<1> QED
  BY <1>2, <1>3, <1>4, <1>6, <1>7, FollowsMove

HIDE DEF FollowsKnown, FollowsOn, FollowsKept

LEMMA FollowsStep ==
    ASSUME NoUser \notin Users, Profile!IInv, Profile!Next
    PROVE  Profile!IInv'
  BY FollowsAsks, FollowsRestarts, FollowsCheckFollowing,
     FollowsReadVisibility,
     FollowsCreateRequest,
     FollowsPublishCreated,
     FollowsCreateFollow,
     FollowsDeleteFollow,
     FollowsDeleteRequest,
     FollowsPublishRemoved,
     FollowsReadPrevious,
     FollowsSaveVisibility,
     FollowsDecideAcceptAll,
     FollowsDeleteAllRequests,
     FollowsCreateAllFollows,
     FollowsPublishNextRemoved,
     FollowsAcceptedAll
     DEF Profile!Next, Profile!Step

LEMMA FollowsStands ==
    ASSUME Profile!IInv, UNCHANGED <<private, follows, requests, shown, req, disturbed>>
    PROVE  Profile!IInv'
  BY DEF Profile!IInv, Profile!TypeOK, Profile!HandlersTyped, Profile!OneHandler, Profile!FollowsConsistent,
         Profile!Consistent, Profile!AtRest, Profile!FoundSo, Profile!Concerns

-----------------------------------------------------------------------------
(* Collections: a handler writes what it found to be saved and its own.    *)
CONSTANTS Posts, Collections, MaxSaves
VARIABLES kind, rows, counted, slips, owner, saves, made, visible, entries
Post == INSTANCE PostInteractions WITH Counted <- Users, MaxSlips <- 1, Ids <- Collections

LEMMA CollectionHandlers ==
    /\ Post!Idle.op = "idle" /\ Post!Idle.at = "idle"
    /\ \A h \in Post!Handlers :
          /\ h.op \in {"idle", "add", "remove", "delete"}
          /\ h.at \in {"idle", "collection", "post", "saved", "write"}
          /\ h.user \in Users \cup {NoUser} /\ h.id \in Collections \cup {0}
  BY DEF Post!Idle, Post!Handlers

LEMMA CollectionsBegin ==
    ASSUME MaxSaves \in Nat, Post!CollectionInit
    PROVE  Post!CollectionIInv
<1>1. Post!Idle \in Post!Handlers
  BY DEF Post!Idle, Post!Handlers, Post!NoRow
<1> QED
  BY <1>1, CollectionHandlers
     DEF Post!CollectionInit, Post!CollectionIInv, Post!CollectionTypeOK, Post!RowsApart, Post!FoundOwn,
         Post!CollectionsOfSaved

\* A handler goes on, and writes at most an entry of its own.
LEMMA CollectionGoes ==
    ASSUME Post!CollectionIInv, NEW s \in Sessions, NEW h \in Post!Handlers,
           req' = [req EXCEPT ![s] = h],
           owner' = owner, saves' = saves, made' = made, visible' = visible,
           entries' \subseteq Collections \X (1..made), Post!CollectionsOfSaved',
           h.at # "idle" => h.op # "idle" /\ h.id \in Collections,
           h.at \in {"post", "saved", "write"} => owner[h.id] \in {h.user, NoUser},
           h.at = "write" /\ h.op # "delete" =>
               h.row \in 1..made /\ \A r \in saves : r.id = h.row => r.user = h.user
    PROVE  Post!CollectionIInv'
<1>1. /\ req'[s] = h /\ \A t \in Sessions \ {s} : req'[t] = req[t]
      /\ req' \in [Sessions -> Post!Handlers]
  BY DEF Post!CollectionIInv, Post!CollectionTypeOK
<1>2. Post!CollectionTypeOK'
  BY <1>1 DEF Post!CollectionIInv, Post!CollectionTypeOK
<1>3. Post!RowsApart'
  BY DEF Post!CollectionIInv, Post!RowsApart
<1>4. Post!FoundOwn'
  BY <1>1 DEF Post!CollectionIInv, Post!FoundOwn
<1> QED
  BY <1>2, <1>3, <1>4 DEF Post!CollectionIInv

LEMMA SaveCollected ==
    ASSUME MaxSaves \in Nat, Post!CollectionIInv, NEW u \in Users, NEW p \in Posts, Post!Save(u, p)
    PROVE  Post!CollectionIInv'
<1> DEFINE new == [id |-> made + 1, user |-> u, post |-> p]
<1>1. /\ made' = made + 1 /\ made \in Nat /\ made < MaxSaves /\ made' \in 0..MaxSaves
      /\ saves' = saves \cup {new} /\ owner' = owner /\ visible' = visible /\ entries' = entries /\ req' = req
  BY DEF Post!Save, Post!CollectionIInv, Post!CollectionTypeOK
<1>2. new.id = made + 1 /\ new.user = u /\ new.post = p
  OBVIOUS
<1> HIDE DEF new
<1>3. \A r \in saves : r.id \in 1..made /\ r.id # made + 1
  BY <1>1 DEF Post!CollectionIInv, Post!CollectionTypeOK
<1>4. 1..made \subseteq 1..made'
  BY <1>1
<1>5. Post!CollectionTypeOK'
  BY <1>1, <1>2, <1>3, <1>4 DEF Post!CollectionIInv, Post!CollectionTypeOK
<1>6. Post!RowsApart'
  BY <1>1, <1>2, <1>3 DEF Post!CollectionIInv, Post!RowsApart
<1>7. Post!FoundOwn'
  BY <1>1, <1>2, <1>3, <1>4 DEF Post!CollectionIInv, Post!FoundOwn
<1>8. Post!CollectionsOfSaved'
  BY <1>1 DEF Post!CollectionIInv, Post!CollectionsOfSaved
<1> QED
  BY <1>5, <1>6, <1>7, <1>8 DEF Post!CollectionIInv

LEMMA UnsaveCollected ==
    ASSUME Post!CollectionIInv, NEW u \in Users, NEW p \in Posts, Post!Unsave(u, p)
    PROVE  Post!CollectionIInv'
<1> DEFINE gone == {r.id : r \in Post!RowsOf(u, p)}
<1>1. /\ saves' = saves \ Post!RowsOf(u, p) /\ entries' = {e \in entries : e[1] # 0 /\ e[2] \notin gone}
      /\ owner' = owner /\ made' = made /\ visible' = visible /\ req' = req
  BY DEF Post!Unsave, Post!Without
<1>2. saves' \subseteq saves /\ entries' \subseteq entries
  BY <1>1
<1>3. \A e \in entries' : \A r \in saves : r.id = e[2] => r \in saves'
  BY <1>1
<1> HIDE DEF gone
<1>4. Post!CollectionTypeOK'
  BY <1>1, <1>2 DEF Post!CollectionIInv, Post!CollectionTypeOK
<1>5. Post!RowsApart' /\ Post!FoundOwn'
  BY <1>1, <1>2 DEF Post!CollectionIInv, Post!RowsApart, Post!FoundOwn
<1>6. Post!CollectionsOfSaved'
  BY <1>1, <1>2, <1>3 DEF Post!CollectionIInv, Post!CollectionsOfSaved
<1> QED
  BY <1>4, <1>5, <1>6 DEF Post!CollectionIInv

LEMMA CreateCollected ==
    ASSUME NoUser \notin Users, Post!CollectionIInv, NEW u \in Users, NEW i \in Collections, Post!Create(u, i)
    PROVE  Post!CollectionIInv'
<1>1. /\ owner[i] = NoUser /\ \A s \in Sessions : req[s].id # i
      /\ owner' = [owner EXCEPT ![i] = u]
      /\ saves' = saves /\ made' = made /\ visible' = visible /\ entries' = entries /\ req' = req
  BY DEF Post!Create
<1>2. /\ owner' \in [Collections -> Users \cup {NoUser}]
      /\ \A j \in Collections : j # i => owner'[j] = owner[j]
  BY <1>1 DEF Post!CollectionIInv, Post!CollectionTypeOK
<1>3. Post!CollectionTypeOK'
  BY <1>1, <1>2 DEF Post!CollectionIInv, Post!CollectionTypeOK
<1>4. Post!RowsApart' /\ Post!FoundOwn'
  BY <1>1, <1>2 DEF Post!CollectionIInv, Post!RowsApart, Post!FoundOwn
<1>5. \A e \in entries : e[1] \in Collections /\ e[1] # i
  BY <1>1 DEF Post!CollectionIInv, Post!CollectionTypeOK, Post!CollectionsOfSaved
<1>6. Post!CollectionsOfSaved'
  BY <1>1, <1>2, <1>5 DEF Post!CollectionIInv, Post!CollectionsOfSaved
<1> QED
  BY <1>3, <1>4, <1>6 DEF Post!CollectionIInv

\* What a handler writes is what it found, or nothing.
LEMMA HandlerCollected ==
    ASSUME MaxSaves \in Nat, NoUser \notin Users, Post!CollectionIInv, NEW s \in Sessions,
           \/ \E op \in {"add", "remove"}, u \in Users, i \in Collections, p \in Posts : Post!Begin(s, op, u, i, p)
           \/ \E u \in Users, i \in Collections : Post!Begin(s, "delete", u, i, "none")
           \/ Post!GetOwned(s) \/ Post!GetVisible(s) \/ Post!GetSaved(s)
           \/ Post!AddEntry(s) \/ Post!DeleteEntry(s)
    PROVE  Post!CollectionIInv'
<1> USE CollectionHandlers
<1>0. /\ req[s].at # "idle" => req[s].op # "idle" /\ req[s].id \in Collections
      /\ req[s] \in Post!Handlers /\ Post!Idle \in Post!Handlers /\ made \in Nat /\ made <= MaxSaves
      /\ entries \subseteq Collections \X (1..made)
  BY DEF Post!CollectionIInv, Post!CollectionTypeOK, Post!FoundOwn, Post!Idle, Post!Handlers, Post!NoRow
<1>1. CASE \/ \E op \in {"add", "remove"}, u \in Users, i \in Collections, p \in Posts : Post!Begin(s, op, u, i, p)
           \/ \E u \in Users, i \in Collections : Post!Begin(s, "delete", u, i, "none")
  <2>1. PICK op \in {"add", "remove", "delete"}, u \in Users, i \in Collections, p \in Posts \cup {"none"} :
             Post!Begin(s, op, u, i, p)
    BY <1>1
  <2> DEFINE h == [op |-> op, at |-> "collection", user |-> u, id |-> i, post |-> p, row |-> Post!NoRow]
  <2>2. h \in Post!Handlers /\ h.at = "collection" /\ h.op # "idle" /\ h.id \in Collections
    BY DEF Post!Handlers, Post!NoRow
  <2>3. /\ req' = [req EXCEPT ![s] = h] /\ owner' = owner /\ saves' = saves /\ made' = made
        /\ visible' = visible /\ entries' = entries
    BY <2>1 DEF Post!Begin, Post!tables
  <2> HIDE DEF h
  <2>4. Post!CollectionsOfSaved'
    BY <2>3 DEF Post!CollectionIInv, Post!CollectionsOfSaved
  <2> QED
    BY <1>0, <2>2, <2>3, <2>4, CollectionGoes
<1>2. CASE Post!GetOwned(s)
  <2> DEFINE to == IF req[s].op = "add" THEN "post" ELSE IF req[s].op = "remove" THEN "saved" ELSE "write"
  <2>1. /\ owner' = owner /\ saves' = saves /\ made' = made
        /\ visible' = visible /\ entries' = entries /\ req[s].at = "collection"
        /\ req' = [req EXCEPT ![s] = IF Post!Owned(s) THEN [req[s] EXCEPT !.at = Post!AfterOwned[req[s].op]]
                                     ELSE Post!Idle]
    BY <1>2 DEF Post!GetOwned, Post!Goto, Post!End, Post!tables, Post!At
  <2>2. req[s].op # "idle" => Post!AfterOwned[req[s].op] = to
    BY <1>0 DEF Post!AfterOwned
  <2> DEFINE h == [req[s] EXCEPT !.at = to]
  <2>3. to \in {"post", "saved", "write"} /\ (to = "write" /\ req[s].op # "idle" => req[s].op = "delete")
    BY <1>0
  <2> HIDE DEF to
  <2>4. /\ h \in Post!Handlers /\ h.at = to /\ h.id = req[s].id /\ h.user = req[s].user /\ h.op = req[s].op
    BY <1>0, <2>3 DEF Post!Handlers
  <2>5. \/ Post!Owned(s) /\ req' = [req EXCEPT ![s] = h]
        \/ req' = [req EXCEPT ![s] = Post!Idle]
    BY <1>0, <2>1, <2>2
  <2> HIDE DEF h
  <2>6. Post!CollectionsOfSaved'
    BY <2>1 DEF Post!CollectionIInv, Post!CollectionsOfSaved
  <2>7. CASE Post!Owned(s) /\ req' = [req EXCEPT ![s] = h]
    <3>1. owner[h.id] = h.user
      BY <2>4, <2>7 DEF Post!Owned
    <3> QED
      BY <1>0, <2>1, <2>3, <2>4, <2>6, <2>7, <3>1, CollectionGoes
  <2>8. CASE req' = [req EXCEPT ![s] = Post!Idle]
    BY <1>0, <2>1, <2>6, <2>8, CollectionGoes
  <2> QED
    BY <2>5, <2>7, <2>8
<1>3. CASE Post!GetVisible(s)
  <2>1. /\ owner' = owner /\ saves' = saves /\ made' = made
        /\ visible' = visible /\ entries' = entries /\ req[s].at = "post"
        /\ req' = [req EXCEPT ![s] = IF req[s].post \in visible THEN [req[s] EXCEPT !.at = "saved"]
                                     ELSE Post!Idle]
    BY <1>3 DEF Post!GetVisible, Post!Goto, Post!End, Post!tables, Post!At
  <2> DEFINE h == [req[s] EXCEPT !.at = "saved"]
  <2>2. /\ h \in Post!Handlers /\ h.at = "saved" /\ h.id = req[s].id /\ h.user = req[s].user
        /\ h.op = req[s].op
    BY <1>0 DEF Post!Handlers
  <2>3. req[s].id \in Collections /\ owner[req[s].id] \in {req[s].user, NoUser}
    BY <2>1 DEF Post!CollectionIInv, Post!FoundOwn
  <2>4. Post!CollectionsOfSaved'
    BY <2>1 DEF Post!CollectionIInv, Post!CollectionsOfSaved
  <2>5. req' = [req EXCEPT ![s] = h] \/ req' = [req EXCEPT ![s] = Post!Idle]
    BY <2>1
  <2> HIDE DEF h
  <2> QED
    BY <1>0, <2>1, <2>2, <2>3, <2>4, <2>5, CollectionGoes
<1>4. CASE Post!GetSaved(s)
  <2>1. /\ owner' = owner /\ saves' = saves /\ made' = made
        /\ visible' = visible /\ entries' = entries /\ req[s].at = "saved"
    BY <1>4 DEF Post!GetSaved, Post!tables, Post!At
  <2>2. Post!CollectionsOfSaved'
    BY <2>1 DEF Post!CollectionIInv, Post!CollectionsOfSaved
  <2>3. CASE req' = [req EXCEPT ![s] = Post!Idle]
    BY <1>0, <2>1, <2>2, <2>3, CollectionGoes
  <2>4. CASE \E r \in Post!RowsOf(req[s].user, req[s].post) :
                req' = [req EXCEPT ![s].row = r.id, ![s].at = "write"]
    <3>1. PICK r \in saves : /\ r.user = req[s].user
                             /\ req' = [req EXCEPT ![s].row = r.id, ![s].at = "write"]
      BY <2>4 DEF Post!RowsOf
    <3> DEFINE h == [req[s] EXCEPT !.row = r.id, !.at = "write"]
    <3>2. r.id \in 1..made /\ 1..made \subseteq 0..MaxSaves /\ \A q \in saves : q.id = r.id => q = r
      BY <1>0 DEF Post!CollectionIInv, Post!CollectionTypeOK, Post!RowsApart
    <3>3. /\ h \in Post!Handlers /\ h.at = "write" /\ h.id = req[s].id /\ h.user = req[s].user /\ h.row = r.id
      BY <1>0, <3>2 DEF Post!Handlers
    <3>4. req' = [req EXCEPT ![s] = h]
      BY <3>1
    <3>5. req[s].id \in Collections /\ owner[req[s].id] \in {req[s].user, NoUser} /\ h.op = req[s].op
      BY <1>0, <2>1 DEF Post!CollectionIInv, Post!FoundOwn, Post!Handlers
    <3>6. \A q \in saves : q.id = h.row => q.user = h.user
      BY <3>1, <3>2, <3>3
    <3> HIDE DEF h
    <3> QED
      BY <1>0, <2>1, <2>2, <3>2, <3>3, <3>4, <3>5, <3>6, CollectionGoes
  <2> QED
    BY <1>4, <2>3, <2>4 DEF Post!GetSaved, Post!End
<1>5. CASE Post!AddEntry(s)
  <2>1. /\ owner' = owner /\ saves' = saves /\ made' = made /\ visible' = visible
        /\ req' = [req EXCEPT ![s] = Post!Idle] /\ req[s].at = "write" /\ req[s].op = "add"
        /\ entries' = IF Post!Exists(s) THEN entries \cup {<<req[s].id, req[s].row>>} ELSE entries
    BY <1>5 DEF Post!AddEntry, Post!End, Post!At
  <2>2. /\ req[s].id \in Collections /\ owner[req[s].id] \in {req[s].user, NoUser} /\ req[s].row \in 1..made
        /\ \A r \in saves : r.id = req[s].row => r.user = req[s].user
    BY <2>1 DEF Post!CollectionIInv, Post!FoundOwn
  <2>3. Post!CollectionsOfSaved'
    BY <2>1, <2>2 DEF Post!CollectionIInv, Post!CollectionsOfSaved, Post!Exists
  <2>4. entries' \subseteq Collections \X (1..made)
    BY <1>0, <2>1, <2>2
  <2> QED
    BY <1>0, <2>1, <2>3, <2>4, CollectionGoes
<1>6. CASE Post!DeleteEntry(s)
  <2>1. /\ owner' = owner /\ saves' = saves /\ made' = made /\ visible' = visible
        /\ req' = [req EXCEPT ![s] = Post!Idle] /\ entries' \subseteq entries
    BY <1>6 DEF Post!DeleteEntry, Post!End
  <2>2. Post!CollectionsOfSaved'
    BY <2>1 DEF Post!CollectionIInv, Post!CollectionsOfSaved
  <2> QED
    BY <1>0, <2>1, <2>2, CollectionGoes
<1> QED
  BY <1>1, <1>2, <1>3, <1>4, <1>5, <1>6

LEMMA DeleteCollected ==
    ASSUME MaxSaves \in Nat, NoUser \notin Users, Post!CollectionIInv, NEW s \in Sessions,
           Post!DeleteCollection(s)
    PROVE  Post!CollectionIInv'
<1> USE CollectionHandlers
<1> DEFINE i == req[s].id
<1>1. /\ saves' = saves /\ made' = made /\ visible' = visible /\ req[s].at = "write"
      /\ req' = [req EXCEPT ![s] = Post!Idle] /\ owner' = [owner EXCEPT ![i] = NoUser]
      /\ entries' = {e \in entries : e[1] # i /\ e[2] \notin {}}
  BY DEF Post!DeleteCollection, Post!End, Post!At, Post!Without
<1>2. /\ i \in Collections
      /\ owner'[i] = NoUser /\ \A j \in Collections : j # i => owner'[j] = owner[j]
      /\ owner' \in [Collections -> Users \cup {NoUser}]
  BY <1>1 DEF Post!CollectionIInv, Post!FoundOwn, Post!CollectionTypeOK
<1>3. entries' \subseteq entries /\ \A e \in entries' : e[1] \in Collections /\ e[1] # i
  BY <1>1 DEF Post!CollectionIInv, Post!CollectionTypeOK
<1> HIDE DEF i
<1>4. /\ req'[s] = Post!Idle /\ \A t \in Sessions \ {s} : req'[t] = req[t]
      /\ req' \in [Sessions -> Post!Handlers]
  BY <1>1 DEF Post!CollectionIInv, Post!CollectionTypeOK, Post!Idle, Post!Handlers, Post!NoRow
<1>5. Post!CollectionTypeOK'
  BY <1>1, <1>2, <1>3, <1>4 DEF Post!CollectionIInv, Post!CollectionTypeOK
<1>6. Post!RowsApart'
  BY <1>1 DEF Post!CollectionIInv, Post!RowsApart
<1>7. Post!FoundOwn'
  BY <1>1, <1>2, <1>4 DEF Post!CollectionIInv, Post!FoundOwn
<1>8. Post!CollectionsOfSaved'
  BY <1>1, <1>2, <1>3 DEF Post!CollectionIInv, Post!CollectionsOfSaved
<1> QED
  BY <1>5, <1>6, <1>7, <1>8 DEF Post!CollectionIInv

LEMMA CollectionsStep ==
    ASSUME MaxSaves \in Nat, NoUser \notin Users, Post!CollectionIInv, Post!CollectionNext
    PROVE  Post!CollectionIInv'
<1>1. CASE \E p \in Posts : Post!ChangeVisibility(p)
  BY <1>1 DEF Post!ChangeVisibility, Post!CollectionIInv, Post!CollectionTypeOK, Post!RowsApart, Post!FoundOwn,
     Post!CollectionsOfSaved
<1> QED
  BY <1>1, SaveCollected, UnsaveCollected, CreateCollected, HandlerCollected, DeleteCollected
     DEF Post!CollectionNext

LEMMA CollectionsStand ==
    ASSUME Post!CollectionIInv, UNCHANGED <<owner, saves, made, visible, entries, req>>
    PROVE  Post!CollectionIInv'
  BY DEF Post!CollectionIInv, Post!CollectionTypeOK, Post!RowsApart, Post!FoundOwn, Post!CollectionsOfSaved

-----------------------------------------------------------------------------
(* The feed: OFFSET counts the rows before the next page; if none left and *)
(* none came between, they are those of the pages before.                  *)
CONSTANTS FeedPosts, Kinds, Readers, FeedTimes, FeedChanges
VARIABLES status, dated, reader, member, barred, open, saved, view, fresh, changes
Feed == INSTANCE PostFeed WITH Posts <- FeedPosts, MaxTime <- FeedTimes, MaxChanges <- FeedChanges

FeedView == [of: Feed!Listings \cup {"nothing"}, at: {"next", "details", "end"}, pages: Nat,
             before: 0..FeedTimes + 1, page: SUBSET FeedPosts, shown: SUBSET FeedPosts,
             again: SUBSET FeedPosts, lasting: SUBSET FeedPosts, left: BOOLEAN, came: BOOLEAN]

\* What is assumed of its constants: a post is numbered by the time of its creation.
FeedSetting ==
    /\ FeedTimes \in Nat /\ FeedChanges \in Nat /\ FeedPosts \subseteq 1..FeedTimes

LEMMA FeedByCardinality ==
    ASSUME NEW S
    PROVE  Feed!Cardinality(S) = Cardinality(S)
  BY DEF Feed!Cardinality, Cardinality

LEMMA FeedFinite == FeedSetting => IsFiniteSet(FeedPosts) /\ FeedPosts \subseteq Nat \ {0}
<1> SUFFICES ASSUME FeedSetting PROVE IsFiniteSet(FeedPosts) /\ FeedPosts \subseteq Nat \ {0}
  OBVIOUS
<1>1. IsFiniteSet(1..FeedTimes) /\ FeedPosts \in SUBSET (1..FeedTimes)
  BY FS_Interval DEF FeedSetting
<1>2. IsFiniteSet(FeedPosts)
  BY <1>1, FS_Subset
<1> QED
  BY <1>1, <1>2 DEF FeedSetting

\* OFFSET counts: the rows ahead of one are a set of rows.
LEMMA FeedRanks ==
    ASSUME FeedSetting, NEW of, NEW p
    PROVE  /\ Feed!Rank(p, of) \in Nat
           /\ Feed!Rank(p, of) = Cardinality({q \in Feed!Listing(of) : Feed!Ahead(q, p, of)})
           /\ Feed!Listing(of) \subseteq FeedPosts /\ IsFiniteSet(Feed!Listing(of))
<1>1. Feed!Listing(of) \subseteq FeedPosts
  BY DEF Feed!Listing
<1>2. IsFiniteSet(Feed!Listing(of))
  BY <1>1, FeedFinite, FS_Subset
<1>3. IsFiniteSet({q \in Feed!Listing(of) : Feed!Ahead(q, p, of)})
  BY <1>2, FS_Subset
<1>4. Feed!Rank(p, of) = Cardinality({q \in Feed!Listing(of) : Feed!Ahead(q, p, of)})
  BY FeedByCardinality DEF Feed!Rank
<1> QED
  BY <1>1, <1>2, <1>3, <1>4, FS_CardinalityType

\* Each listing has an order.
LEMMA FeedOrder ==
    ASSUME FeedSetting, Feed!TypeOK, Feed!TimesApart, NEW of \in Feed!Paged
    PROVE  \A p, q, r \in Feed!Listing(of) :
             /\ ~Feed!Ahead(p, p, of)
             /\ p # q => Feed!Ahead(p, q, of) \/ Feed!Ahead(q, p, of)
             /\ Feed!Ahead(p, q, of) /\ Feed!Ahead(q, r, of) => Feed!Ahead(p, r, of)
<1>1. Feed!Listing(of) \subseteq FeedPosts /\ FeedPosts \subseteq Nat
  BY FeedRanks, FeedFinite
<1>2. CASE of = "saved"
  <2>1. \A p \in Feed!Listing(of) : saved[p] > 0
    BY <1>2 DEF Feed!Listing, Feed!Listed
  <2>2. \A p \in FeedPosts : saved[p] \in Nat
    BY DEF Feed!TypeOK, FeedSetting
  <2>3. \A p, q \in FeedPosts : p # q /\ saved[p] = saved[q] => saved[p] = 0
    BY DEF Feed!TimesApart
  <2>4. \A p, q : Feed!Ahead(p, q, of) <=> saved[p] > saved[q]
    BY <1>2 DEF Feed!Ahead
  <2>5. \A p \in Feed!Listing(of) : saved[p] \in Nat
    BY <1>1, <2>2
  <2>6. \A p, q \in Feed!Listing(of) : p # q => saved[p] # saved[q]
    <3> SUFFICES ASSUME NEW p \in Feed!Listing(of), NEW q \in Feed!Listing(of), p # q, saved[p] = saved[q]
                 PROVE  FALSE
      OBVIOUS
    <3>1. saved[p] = 0
      BY <1>1, <2>3
    <3> QED
      BY <2>1, <3>1
  <2> TAKE p, q, r \in Feed!Listing(of)
  <2> HIDE DEF Feed!Ahead
  <2>7. saved[p] \in Nat /\ saved[q] \in Nat /\ saved[r] \in Nat /\ (p # q => saved[p] # saved[q])
    BY <2>5, <2>6
  <2> QED
    BY <2>4, <2>7
<1>3. CASE of \in {"feed", "areas", "community"}
  <2>1. \A p, q : Feed!Ahead(p, q, of) <=> p > q
    BY <1>3 DEF Feed!Ahead
  <2> TAKE p, q, r \in Feed!Listing(of)
  <2>2. p \in Nat /\ q \in Nat /\ r \in Nat
    BY <1>1
  <2> QED
    BY <2>1, <2>2
<1> QED
  BY <1>2, <1>3 DEF Feed!Paged

LEMMA FeedRankRises ==
    ASSUME FeedSetting, Feed!TypeOK, Feed!TimesApart, NEW of \in Feed!Paged,
           NEW p \in Feed!Listing(of), NEW q \in Feed!Listing(of), Feed!Ahead(p, q, of)
    PROVE  Feed!Rank(p, of) < Feed!Rank(q, of)
<1> DEFINE L == Feed!Listing(of)
<1> DEFINE A(x) == {y \in L : Feed!Ahead(y, x, of)}
<1>1. IsFiniteSet(L) /\ Feed!Rank(p, of) = Cardinality(A(p)) /\ Feed!Rank(q, of) = Cardinality(A(q))
      /\ Feed!Rank(p, of) \in Nat /\ Feed!Rank(q, of) \in Nat
  BY FeedRanks
<1>2. A(p) \subseteq A(q) /\ p \in A(q) /\ p \notin A(p)
  BY FeedOrder
<1>3. IsFiniteSet(A(q))
  BY <1>1, FS_Subset
<1> HIDE DEF A, L
<1>4. Cardinality(A(p)) <= Cardinality(A(q)) /\ Cardinality(A(p)) # Cardinality(A(q))
  BY <1>2, <1>3, FS_Subset
<1> QED
  BY <1>1, <1>4

\* If a row has n rows ahead or more, there is one with n.
LEMMA FeedNoGap ==
    ASSUME FeedSetting, Feed!TypeOK, Feed!TimesApart, NEW of \in Feed!Paged, NEW n \in Nat,
           NEW p \in Feed!Listing(of), Feed!Rank(p, of) >= n
    PROVE  \E q \in Feed!Listing(of) : Feed!Rank(q, of) = n
<1> DEFINE L == Feed!Listing(of)
<1> DEFINE rank(x) == Feed!Rank(x, of)
<1> DEFINE S == {m \in Nat : m >= n /\ \E x \in L : rank(x) = m}
<1>1. \A x \in L : rank(x) \in Nat
  BY FeedRanks
<1>2. PICK m \in S : \A k \in S : m <= k
  <2>1. rank(p) \in S
    BY <1>1
  <2> HIDE DEF S
  <2>2. S # {}
    BY <2>1
  <2>3. S \subseteq Nat
    BY DEF S
  <2> QED
    BY <2>2, <2>3, LeastNatural
<1>3. PICK q \in L : rank(q) = m
  OBVIOUS
<1>4. ASSUME m # n PROVE FALSE
  <2> DEFINE A == {x \in L : Feed!Ahead(x, q, of)}
  <2>1. IsFiniteSet(L) /\ rank(q) = Cardinality(A)
    BY FeedRanks
  <2>2. \A x \in A : rank(x) < m
    BY <1>3, FeedRankRises
  <2>3. \A x \in A : rank(x) \in 0..(n - 1)
    <3> SUFFICES ASSUME NEW x \in A PROVE rank(x) \in 0..(n - 1)
      OBVIOUS
    <3>1. rank(x) \in Nat /\ rank(x) < m /\ x \in L
      BY <1>1, <2>2
    <3>2. rank(x) >= n => rank(x) \in S
      BY <3>1
    <3> HIDE DEF S, rank
    <3>3. ~(rank(x) >= n)
      <4>1. m \in Nat
        BY <1>2 DEF S
      <4> QED
        BY <1>2, <3>1, <3>2, <4>1
    <3> QED
      BY <3>1, <3>3
  <2>4. \A x, y \in A : x # y => rank(x) # rank(y)
    <3> SUFFICES ASSUME NEW x \in A, NEW y \in A, x # y PROVE rank(x) # rank(y)
      OBVIOUS
    <3>1. Feed!Ahead(x, y, of) \/ Feed!Ahead(y, x, of)
      BY FeedOrder
    <3>2. rank(x) < rank(y) \/ rank(y) < rank(x)
      BY <3>1, FeedRankRises
    <3> QED
      BY <1>1, <3>2
  <2> DEFINE f == [x \in A |-> rank(x)]
  <2> HIDE DEF A, rank, L
  <2>5. f \in Injection(A, 0..(n - 1))
    BY <2>3, <2>4 DEF Injection, IsInjective
  <2> HIDE DEF f
  <2>6. IsFiniteSet(0..(n - 1)) /\ Cardinality(0..(n - 1)) = n
    BY FS_Interval
  <2>7. Cardinality(A) <= n
    BY <2>5, <2>6, FS_Injection
  <2>8. m \in Nat /\ m >= n
    BY <1>2
  <2> QED
    BY <1>3, <1>4, <2>1, <2>7, <2>8
<1> QED
  BY <1>3, <1>4

\* What is not changed is listed as before.
LEMMA FeedSame ==
    ASSUME kind' = kind, status' = status, dated' = dated, reader' = reader, member' = member,
           barred' = barred, open' = open, saved' = saved
    PROVE  /\ Feed!Existing' = Feed!Existing
           /\ \A p, of : Feed!Visible(p, of)' <=> Feed!Visible(p, of)
           /\ \A of : Feed!Listing(of)' = Feed!Listing(of)
           /\ \A p, q, of : Feed!Ahead(p, q, of)' <=> Feed!Ahead(p, q, of)
           /\ \A p, of : Feed!Rank(p, of)' = Feed!Rank(p, of)
<1>1. Feed!Existing' = Feed!Existing
  BY DEF Feed!Existing
<1>2. \A p, of : Feed!CommunityVisible(p, of)' <=> Feed!CommunityVisible(p, of)
  BY DEF Feed!CommunityVisible, Feed!AsMember, Feed!AuthorBlocked
<1>3. \A p : Feed!Mine(p)' <=> Feed!Mine(p)
  BY DEF Feed!Mine
<1>4. \A p, of : Feed!Visible(p, of)' <=> Feed!Visible(p, of)
  BY <1>1, <1>2, <1>3 DEF Feed!Visible
<1>5. \A p, of : Feed!Listed(p, of)' <=> Feed!Listed(p, of)
  BY <1>4 DEF Feed!Listed
<1>6. \A of : Feed!Listing(of)' = Feed!Listing(of)
  BY <1>5 DEF Feed!Listing
<1>7. \A p, q, of : Feed!Ahead(p, q, of)' <=> Feed!Ahead(p, q, of)
  BY DEF Feed!Ahead
<1>8. \A p, of : Feed!Rank(p, of)' = Feed!Rank(p, of)
  BY <1>6, <1>7 DEF Feed!Rank
<1> QED
  BY <1>1, <1>4, <1>6, <1>7, <1>8

\* A step of the reader's: the world stays as it is.
LEMMA FeedReads ==
    ASSUME FeedSetting, Feed!IInv, UNCHANGED Feed!world, fresh' \in BOOLEAN,
           NEW v \in [of: Feed!Listings \cup {"nothing"}, at: {"next", "details", "end"}, pages: Nat,
                 before: 0..FeedTimes + 1, page: SUBSET FeedPosts, shown: SUBSET FeedPosts,
                 again: SUBSET FeedPosts, lasting: SUBSET FeedPosts, left: BOOLEAN, came: BOOLEAN],
           view' = v
    PROVE  /\ Feed!TypeOK' /\ Feed!TimesApart'
           /\ Feed!Existing' = Feed!Existing
           /\ \A p, of : Feed!Visible(p, of)' <=> Feed!Visible(p, of)
           /\ \A of : Feed!Listing(of)' = Feed!Listing(of)
           /\ \A p, of : Feed!Rank(p, of)' = Feed!Rank(p, of)
           /\ dated' = dated
<1>1. /\ kind' = kind /\ status' = status /\ dated' = dated /\ reader' = reader /\ member' = member
      /\ barred' = barred /\ open' = open /\ saved' = saved /\ changes' = changes
  BY DEF Feed!world
<1>2. Feed!TypeOK'
  BY <1>1 DEF Feed!IInv, Feed!TypeOK
<1>3. Feed!TimesApart'
  BY <1>1 DEF Feed!IInv, Feed!TimesApart
<1> QED
  BY <1>1, <1>2, <1>3, FeedSame

LEMMA FeedOpens ==
    ASSUME FeedSetting, Feed!IInv, NEW of \in Feed!Listings, Feed!Open(of)
    PROVE  Feed!IInv'
<1> DEFINE v == [Feed!NoView EXCEPT !.of = of, !.at = "next", !.lasting = Feed!Listing(of)]
<1>1. /\ view' = v /\ of # "detail" /\ fresh' = FALSE /\ UNCHANGED Feed!world
  BY DEF Feed!Open
<1>2. /\ v.of = of /\ v.at = "next" /\ v.pages = 0 /\ v.before = FeedTimes + 1 /\ v.page = {} /\ v.shown = {}
      /\ v.again = {} /\ v.lasting = Feed!Listing(of) /\ v.left = FALSE /\ v.came = FALSE
  BY DEF Feed!NoView
<1>3. v \in [of: Feed!Listings \cup {"nothing"}, at: {"next", "details", "end"}, pages: Nat,
             before: 0..FeedTimes + 1, page: SUBSET FeedPosts, shown: SUBSET FeedPosts,
             again: SUBSET FeedPosts, lasting: SUBSET FeedPosts, left: BOOLEAN, came: BOOLEAN]
  <2>1. Feed!Listing(of) \subseteq FeedPosts /\ FeedTimes + 1 \in 0..FeedTimes + 1
    BY DEF Feed!Listing, FeedSetting
  <2> QED
    BY <2>1 DEF Feed!NoView
<1> HIDE DEF v
<1>4. /\ Feed!TypeOK' /\ Feed!TimesApart' /\ \A o : Feed!Listing(o)' = Feed!Listing(o)
      /\ \A p, o : Feed!Rank(p, o)' = Feed!Rank(p, o)
      /\ dated' = dated
  BY <1>1, <1>3, FeedReads
<1>5. of \in Feed!Paged \cup {"timeline"}
  BY <1>1 DEF Feed!Listings
<1>6. Feed!PageListed' /\ Feed!LastingListed'
  BY <1>1, <1>2, <1>4, <1>5 DEF Feed!PageListed, Feed!LastingListed, Feed!Paged
<1>7. \A p : Feed!Rank(p, of) \in Nat
  BY FeedRanks
<1>8. Feed!PagesShown'
  BY <1>1, <1>2, <1>4, <1>7 DEF Feed!PagesShown
<1>9. \A p \in Feed!Listing(of) : dated[p] \in 0..FeedTimes
  BY DEF Feed!Listing, Feed!IInv, Feed!TypeOK
<1>10. Feed!CursorShown'
  BY <1>1, <1>2, <1>4, <1>9 DEF Feed!CursorShown, FeedSetting
<1>11. Feed!PagesComplete'
  BY <1>1, <1>2 DEF Feed!PagesComplete
<1> QED
  BY <1>4, <1>6, <1>8, <1>10, <1>11 DEF Feed!IInv

LEMMA FeedOpensDetail ==
    ASSUME FeedSetting, Feed!IInv, NEW p \in FeedPosts, Feed!OpenDetail(p)
    PROVE  Feed!IInv'
<1> DEFINE v == [Feed!NoView EXCEPT !.of = "detail", !.page = {p}, !.shown = {p}]
<1>1. /\ view' = v /\ Feed!Visible(p, "detail") /\ fresh' = TRUE /\ UNCHANGED Feed!world
  BY DEF Feed!OpenDetail
<1>2. /\ v.of = "detail" /\ v.at = "end" /\ v.page = {p} /\ v.again = {}
  BY DEF Feed!NoView
<1>3. v \in [of: Feed!Listings \cup {"nothing"}, at: {"next", "details", "end"}, pages: Nat,
             before: 0..FeedTimes + 1, page: SUBSET FeedPosts, shown: SUBSET FeedPosts,
             again: SUBSET FeedPosts, lasting: SUBSET FeedPosts, left: BOOLEAN, came: BOOLEAN]
  <2>1. FeedTimes + 1 \in 0..FeedTimes + 1
    BY DEF FeedSetting
  <2> QED
    BY <2>1 DEF Feed!NoView, Feed!Listings
<1> HIDE DEF v
<1>4. /\ Feed!TypeOK' /\ Feed!TimesApart' /\ \A q, o : Feed!Visible(q, o)' <=> Feed!Visible(q, o)
  BY <1>1, <1>3, FeedReads
<1> QED
  BY <1>1, <1>2, <1>4
     DEF Feed!IInv, Feed!PageListed, Feed!LastingListed, Feed!PagesShown, Feed!CursorShown, Feed!PagesComplete,
         Feed!Paged, Feed!Listings

LEMMA FeedBegins == FeedSetting /\ Feed!Init => Feed!IInv
<1> SUFFICES ASSUME FeedSetting, Feed!Init PROVE Feed!IInv
  OBVIOUS
<1>1. /\ view = Feed!NoView /\ fresh = FALSE /\ changes = 0 /\ saved = [p \in FeedPosts |-> 0]
      /\ dated = [p \in FeedPosts |-> IF status[p] = "published" THEN p ELSE 0]
      /\ status \in [FeedPosts -> {"absent", "published"}]
  BY DEF Feed!Init
<1>2. FeedPosts \subseteq 1..FeedTimes /\ FeedTimes \in Nat /\ FeedChanges \in Nat
  BY DEF FeedSetting
<1>3. /\ view.of = "nothing" /\ view.at = "end" /\ view.page = {} /\ view.shown = {} /\ view.again = {} /\ view.lasting = {}
  BY <1>1 DEF Feed!NoView
<1>4. Feed!TypeOK
  <2>1. view \in [of: Feed!Listings \cup {"nothing"}, at: {"next", "details", "end"}, pages: Nat,
             before: 0..FeedTimes + 1, page: SUBSET FeedPosts, shown: SUBSET FeedPosts,
             again: SUBSET FeedPosts, lasting: SUBSET FeedPosts, left: BOOLEAN, came: BOOLEAN]
    <3>1. FeedTimes + 1 \in 0..FeedTimes + 1
      BY <1>2
    <3> QED
      BY <1>1, <3>1 DEF Feed!NoView
  <2>2. dated \in [FeedPosts -> 0..FeedTimes] /\ saved \in [FeedPosts -> 0..FeedChanges]
    BY <1>1, <1>2
  <2>3. member \in {"none", "active", "blocked"}
    BY DEF Feed!Init
  <2>4. kind \in [FeedPosts -> Kinds] /\ reader \in Readers /\ barred = FALSE /\ open = TRUE
    BY DEF Feed!Init
  <2>5. status \in [FeedPosts -> {"absent", "draft", "published", "blocked", "deleted"}]
    BY <1>1
  <2>6. fresh \in BOOLEAN /\ barred \in BOOLEAN /\ open \in BOOLEAN
    BY <1>1, <2>4
  <2>7. changes \in 0..FeedChanges
    BY <1>1, <1>2
  <2> QED
    BY <2>1, <2>2, <2>3, <2>4, <2>5, <2>6, <2>7 DEF Feed!TypeOK
<1>5. Feed!TimesApart
  <2>1. \A p \in FeedPosts : p > 0 /\ p \in Nat
    BY <1>2
  <2> QED
    BY <1>1, <2>1 DEF Feed!TimesApart
<1> QED
  BY <1>1, <1>3, <1>4, <1>5 
     DEF Feed!IInv, Feed!PageListed, Feed!LastingListed, Feed!PagesShown, Feed!CursorShown, Feed!PagesComplete,
         Feed!Paged, Feed!Listings

LEMMA FeedShowing ==
    ASSUME view \in [of: Feed!Listings \cup {"nothing"}, at: {"next", "details", "end"}, pages: Nat,
             before: 0..FeedTimes + 1, page: SUBSET FeedPosts, shown: SUBSET FeedPosts,
             again: SUBSET FeedPosts, lasting: SUBSET FeedPosts, left: BOOLEAN, came: BOOLEAN],
           NEW page \in SUBSET FeedPosts
    PROVE  Feed!Showing(page) \in
           [of: Feed!Listings \cup {"nothing"}, at: {"next", "details", "end"}, pages: Nat,
             before: 0..FeedTimes + 1, page: SUBSET FeedPosts, shown: SUBSET FeedPosts,
             again: SUBSET FeedPosts, lasting: SUBSET FeedPosts, left: BOOLEAN, came: BOOLEAN]
<1>1. Feed!Showing(page) = [view EXCEPT !.page = page, !.shown = view.shown \cup page,
                                        !.again = view.again \cup (view.shown \cap page)]
  BY DEF Feed!Showing
<1>2. view.shown \cup page \in SUBSET FeedPosts /\ view.again \cup (view.shown \cap page) \in SUBSET FeedPosts
  OBVIOUS
<1> DEFINE s == view.shown \cup page
<1> DEFINE a == view.again \cup (view.shown \cap page)
<1> HIDE DEF s, a
<1>3. [view EXCEPT !.page = page, !.shown = s, !.again = a] \in
           [of: Feed!Listings \cup {"nothing"}, at: {"next", "details", "end"}, pages: Nat,
             before: 0..FeedTimes + 1, page: SUBSET FeedPosts, shown: SUBSET FeedPosts,
             again: SUBSET FeedPosts, lasting: SUBSET FeedPosts, left: BOOLEAN, came: BOOLEAN]
  BY <1>2 DEF s, a
<1> QED
  BY <1>1, <1>3 DEF s, a

\* The next page: the row of that rank, which was not shown before unless rows came.
LEMMA FeedNextPage ==
    ASSUME FeedSetting, Feed!IInv, Feed!NextPage
    PROVE  Feed!IInv'
<1> DEFINE of == view.of
<1> DEFINE page == {p \in Feed!Listing(of) : Feed!Rank(p, of) = view.pages}
<1> DEFINE v == [Feed!Showing(page) EXCEPT !.pages = @ + 1, !.at = IF page = {} THEN "end" ELSE "next"]
<1>1. /\ view' = v /\ of \in Feed!Paged /\ view.at = "next" /\ fresh' = TRUE /\ UNCHANGED Feed!world
  BY DEF Feed!NextPage
<1>2. Feed!TypeOK /\ Feed!TimesApart
  BY DEF Feed!IInv
<1>3. view \in [of: Feed!Listings \cup {"nothing"}, at: {"next", "details", "end"}, pages: Nat,
             before: 0..FeedTimes + 1, page: SUBSET FeedPosts, shown: SUBSET FeedPosts,
             again: SUBSET FeedPosts, lasting: SUBSET FeedPosts, left: BOOLEAN, came: BOOLEAN]
  BY <1>2 DEF Feed!TypeOK
<1>4. page \subseteq Feed!Listing(of) /\ Feed!Listing(of) \subseteq FeedPosts
  BY DEF Feed!Listing
<1>5. /\ v.of = of /\ v.pages = view.pages + 1 /\ v.at = (IF page = {} THEN "end" ELSE "next") /\ v.page = page
      /\ v.shown = view.shown \cup page /\ v.again = view.again \cup (view.shown \cap page)
      /\ v.lasting = view.lasting /\ v.left = view.left /\ v.came = view.came
  <2> HIDE DEF page
  <2> QED
    BY <1>3 DEF Feed!Showing
<1>6. v \in [of: Feed!Listings \cup {"nothing"}, at: {"next", "details", "end"}, pages: Nat,
             before: 0..FeedTimes + 1, page: SUBSET FeedPosts, shown: SUBSET FeedPosts,
             again: SUBSET FeedPosts, lasting: SUBSET FeedPosts, left: BOOLEAN, came: BOOLEAN]
  <2> DEFINE w == Feed!Showing(page)
  <2>1. page \subseteq FeedPosts
    BY <1>4
  <2> HIDE DEF page
  <2>2. w \in [of: Feed!Listings \cup {"nothing"}, at: {"next", "details", "end"}, pages: Nat,
             before: 0..FeedTimes + 1, page: SUBSET FeedPosts, shown: SUBSET FeedPosts,
             again: SUBSET FeedPosts, lasting: SUBSET FeedPosts, left: BOOLEAN, came: BOOLEAN]
    BY <1>3, <2>1, FeedShowing
  <2>3. v = [w EXCEPT !.pages = @ + 1, !.at = IF page = {} THEN "end" ELSE "next"]
    OBVIOUS
  <2>4. w.pages + 1 \in Nat
    BY <2>2
  <2> HIDE DEF w, v
  <2>5. CASE page = {}
    BY <2>2, <2>3, <2>4, <2>5
  <2>6. CASE page # {}
    BY <2>2, <2>3, <2>4, <2>6
  <2> QED
    BY <2>5, <2>6
<1> HIDE DEF v
<1>7. /\ Feed!TypeOK' /\ Feed!TimesApart' /\ \A o : Feed!Listing(o)' = Feed!Listing(o)
      /\ \A p, o : Feed!Visible(p, o)' <=> Feed!Visible(p, o)
      /\ \A p, o : Feed!Rank(p, o)' = Feed!Rank(p, o)
      /\ dated' = dated
  BY <1>1, <1>6, FeedReads
<1>8. of \notin {"nothing", "detail", "timeline"}
  BY <1>1 DEF Feed!Paged
<1>9. Feed!PageListed'
  <2>1. \A p \in page : Feed!Visible(p, of)
    BY DEF Feed!Listing, Feed!Listed
  <2> HIDE DEF page
  <2> QED
    BY <1>1, <1>5, <1>7, <1>8, <2>1 DEF Feed!PageListed
<1>10. Feed!LastingListed'
  <2>1. view.lasting \subseteq Feed!Listing(of)
    BY <1>1 DEF Feed!IInv, Feed!LastingListed
  <2> HIDE DEF page
  <2> QED
    BY <1>1, <1>5, <1>7, <1>8, <2>1 DEF Feed!LastingListed
<1>11. \A p : Feed!Rank(p, of) \in Nat
  BY FeedRanks
<1>12. view.pages \in Nat /\ view.left \in BOOLEAN /\ view.came \in BOOLEAN
  BY <1>3
<1>13. /\ ~view.left => \A p \in view.lasting : Feed!Rank(p, of) < view.pages => p \in view.shown
       /\ ~view.came => /\ view.again = {}
                        /\ \A p \in view.shown \cap Feed!Listing(of) : Feed!Rank(p, of) < view.pages
  BY <1>1 DEF Feed!IInv, Feed!PagesShown
<1>14. view.lasting \subseteq Feed!Listing(of)
  BY <1>1 DEF Feed!IInv, Feed!LastingListed
<1>15. ASSUME ~view.left, NEW p \in view.lasting, Feed!Rank(p, of) < view.pages + 1
       PROVE  p \in view.shown \cup page
  <2>1. p \in Feed!Listing(of) /\ (Feed!Rank(p, of) < view.pages => p \in view.shown)
    BY <1>13, <1>14, <1>15
  <2>2. Feed!Rank(p, of) < view.pages \/ Feed!Rank(p, of) = view.pages
    BY <1>11, <1>12, <1>15
  <2> QED
    BY <2>1, <2>2
<1>16. ASSUME ~view.came PROVE view.shown \cap page = {}
  <2> SUFFICES ASSUME NEW p \in view.shown, p \in page PROVE FALSE
    OBVIOUS
  <2>1. Feed!Rank(p, of) < view.pages /\ Feed!Rank(p, of) = view.pages
    BY <1>4, <1>13, <1>16
  <2> QED
    BY <1>12, <2>1
<1>17. ASSUME ~view.came, NEW p \in (view.shown \cup page) \cap Feed!Listing(of)
       PROVE  Feed!Rank(p, of) < view.pages + 1
  <2>1. Feed!Rank(p, of) < view.pages \/ Feed!Rank(p, of) = view.pages
    BY <1>13, <1>17
  <2> QED
    BY <1>11, <1>12, <2>1
<1>18. ASSUME ~view.left, page = {}, NEW p \in view.lasting PROVE p \in view.shown
  <2>1. ASSUME Feed!Rank(p, of) >= view.pages PROVE FALSE
    <3>1. p \in Feed!Listing(of) /\ view.pages \in Nat /\ of \in Feed!Paged
      BY <1>1, <1>12, <1>14, <1>18
    <3> HIDE DEF of
    <3>2. \E q \in Feed!Listing(of) : Feed!Rank(q, of) = view.pages
      BY <1>2, <2>1, <3>1, FeedNoGap
    <3> QED
      BY <1>18, <3>2
  <2>2. Feed!Rank(p, of) < view.pages
    BY <1>11, <1>12, <2>1
  <2> QED
    BY <1>13, <1>18, <2>2
<1> HIDE DEF page
<1>19. Feed!PagesShown'
  <2>1. ~v.left => \A p \in v.lasting : Feed!Rank(p, v.of) < v.pages => p \in v.shown
    BY <1>5, <1>15
  <2>2. ~v.came => /\ v.again = {}
                   /\ \A p \in v.shown \cap Feed!Listing(v.of) : Feed!Rank(p, v.of) < v.pages
    BY <1>5, <1>13, <1>16, <1>17
  <2> QED
    BY <1>1, <1>7, <2>1, <2>2 DEF Feed!PagesShown
<1>20. Feed!CursorShown'
  BY <1>1, <1>5, <1>8 DEF Feed!CursorShown
<1>21. Feed!PagesComplete'
  <2>1. (view'.at = "end" /\ ~view'.left) => view'.lasting \subseteq view'.shown
    BY <1>1, <1>5, <1>18
  <2>2. ~view'.came => view'.again = {}
    BY <1>1, <1>5, <1>13, <1>16
  <2>3. view'.of # "timeline"
    BY <1>1, <1>5, <1>8
  <2> QED
    BY <2>1, <2>2, <2>3 DEF Feed!PagesComplete
<1> QED
  BY <1>7, <1>9, <1>10, <1>19, <1>20, <1>21 DEF Feed!IInv

\* The timeline's next: the last published of those before the cursor.
LEMMA FeedTimelineIds ==
    ASSUME FeedSetting, Feed!IInv, Feed!TimelineIds
    PROVE  Feed!IInv'
<1> DEFINE older == {p \in Feed!Listing("timeline") : dated[p] < view.before}
<1>1. view.of = "timeline" /\ view.at = "next" /\ fresh' = TRUE /\ UNCHANGED Feed!world
  BY DEF Feed!TimelineIds
<1>2. Feed!TypeOK /\ Feed!TimesApart /\ view \in FeedView
  BY DEF Feed!IInv, Feed!TypeOK, FeedView
<1>3. /\ \A p \in view.lasting : dated[p] >= view.before => p \in view.shown
      /\ \A p \in view.shown : dated[p] >= view.before
      /\ view.again = {}
  BY <1>1 DEF Feed!IInv, Feed!CursorShown
<1>4. view.lasting \subseteq Feed!Listing("timeline")
  BY <1>1 DEF Feed!IInv, Feed!LastingListed
<1>5. \A p \in Feed!Listing("timeline") : p \in FeedPosts /\ dated[p] \in 1..FeedTimes /\ Feed!Visible(p, "timeline")
  <2> SUFFICES ASSUME NEW p \in Feed!Listing("timeline")
               PROVE  p \in FeedPosts /\ dated[p] \in 1..FeedTimes /\ Feed!Visible(p, "timeline")
    OBVIOUS
  <2>1. p \in FeedPosts /\ status[p] = "published" /\ Feed!Visible(p, "timeline")
    BY DEF Feed!Listing, Feed!Listed
  <2>2. dated[p] \in 0..FeedTimes /\ dated[p] > 0
    BY <1>2, <2>1 DEF Feed!TypeOK, Feed!TimesApart
  <2> QED
    BY <2>1, <2>2
<1>6. view.before \in Nat /\ view.before <= FeedTimes + 1 /\ FeedTimes \in Nat
  BY <1>2 DEF FeedView, FeedSetting
<1>7. \A p \in FeedPosts : dated[p] \in Nat
  BY <1>2 DEF Feed!TypeOK
<1>8. CASE older = {}
  <2> DEFINE v == [view EXCEPT !.at = "end", !.page = {}]
  <2>1. view' = v
    BY <1>8 DEF Feed!TimelineIds
  <2>2. v \in FeedView
    BY <1>2 DEF FeedView
  <2>3. /\ v.of = "timeline" /\ v.at = "end" /\ v.page = {} /\ v.before = view.before /\ v.shown = view.shown
        /\ v.again = view.again /\ v.lasting = view.lasting
    BY <1>1, <1>2 DEF FeedView
  <2> HIDE DEF v
  <2>4. /\ Feed!TypeOK' /\ Feed!TimesApart' /\ \A o : Feed!Listing(o)' = Feed!Listing(o) /\ dated' = dated
    BY <1>1, <2>1, <2>2, FeedReads DEF FeedView
  <2>5. v.lasting \subseteq v.shown
    <3> SUFFICES ASSUME NEW p \in view.lasting PROVE p \in view.shown
      BY <2>3
    <3>1. p \notin older /\ dated[p] \in Nat
      BY <1>4, <1>5, <1>8
    <3>2. dated[p] >= view.before
      BY <1>4, <1>6, <3>1
    <3> QED
      BY <1>3, <3>2
  <2> HIDE DEF older
  <2>6. Feed!PageListed' /\ Feed!LastingListed' /\ Feed!PagesShown'
    BY <1>4, <2>1, <2>3, <2>4 DEF Feed!PageListed, Feed!LastingListed, Feed!PagesShown, Feed!Paged
  <2>7. Feed!CursorShown'
    BY <1>3, <2>1, <2>3, <2>4 DEF Feed!CursorShown
  <2>8. Feed!PagesComplete'
    BY <1>3, <2>1, <2>3, <2>5 DEF Feed!PagesComplete
  <2> QED
    BY <2>4, <2>6, <2>7, <2>8 DEF Feed!IInv
<1>9. CASE older # {}
  <2>1. PICK p \in older : /\ \A q \in older : dated[q] <= dated[p]
                           /\ view' = [view EXCEPT !.at = "details", !.page = {p}, !.before = dated[p]]
    BY <1>9 DEF Feed!TimelineIds
  <2> DEFINE v == [view EXCEPT !.at = "details", !.page = {p}, !.before = dated[p]]
  <2>2. p \in FeedPosts /\ dated[p] \in 1..FeedTimes /\ dated[p] < view.before /\ Feed!Visible(p, "timeline")
    BY <1>5
  <2>3. v \in FeedView
    <3>1. dated[p] \in 0..FeedTimes + 1 /\ {p} \in SUBSET FeedPosts
      BY <1>6, <2>2
    <3> QED
      BY <1>2, <3>1 DEF FeedView
  <2>4. /\ v.of = "timeline" /\ v.at = "details" /\ v.page = {p} /\ v.before = dated[p] /\ v.shown = view.shown
        /\ v.again = view.again /\ v.lasting = view.lasting
    BY <1>1, <1>2 DEF FeedView
  <2>5. view' = v
    BY <2>1
  <2> HIDE DEF v
  <2>6. /\ Feed!TypeOK' /\ Feed!TimesApart' /\ \A o : Feed!Listing(o)' = Feed!Listing(o) /\ dated' = dated
        /\ \A q, o : Feed!Visible(q, o)' <=> Feed!Visible(q, o)
    BY <1>1, <2>3, <2>5, FeedReads DEF FeedView
  <2>7. ASSUME NEW q \in view.lasting, dated[q] >= dated[p] PROVE q \in view.shown \cup {p}
    <3>1. q \in Feed!Listing("timeline") /\ q \in FeedPosts /\ dated[q] \in Nat /\ p \in FeedPosts /\ dated[p] \in 1..FeedTimes
      BY <1>4, <1>5, <1>7, <2>2
    <3>2. CASE dated[q] >= view.before
      BY <1>3, <3>2
    <3>3. CASE dated[q] < view.before
      <4>1. q \in older
        BY <3>1, <3>3
      <4> HIDE DEF older
      <4>2. dated[q] = dated[p] /\ dated[p] # 0
        BY <2>1, <2>7, <3>1, <4>1
      <4> QED
        BY <1>2, <3>1, <4>2 DEF Feed!TimesApart
    <3> QED
      BY <1>6, <3>1, <3>2, <3>3
  <2>8. ASSUME NEW q \in view.shown PROVE dated[q] > dated[p]
    <3>1. q \in FeedPosts
      BY <1>2 DEF FeedView
    <3> QED
      BY <1>3, <1>6, <1>7, <2>2, <3>1
  <2>9. view.shown \cap {p} = {}
    BY <1>7, <2>2, <2>8
  <2>10. Feed!PageListed'
    BY <1>1, <2>2, <2>4, <2>5, <2>6 DEF Feed!PageListed
  <2>11. Feed!LastingListed' /\ Feed!PagesShown'
    BY <1>4, <2>4, <2>5, <2>6 DEF Feed!LastingListed, Feed!PagesShown, Feed!Paged
  <2>12. Feed!CursorShown'
    <3>1. \A q \in v.lasting : dated[q] >= v.before => q \in v.shown \cup v.page
      BY <2>4, <2>7
    <3>2. \A q \in v.shown \cup v.page : dated[q] >= v.before
      <4> TAKE q \in v.shown \cup v.page
      <4>1. CASE q = p
        BY <1>7, <2>2, <2>4, <4>1
      <4>2. CASE q \in view.shown
        <5>1. q \in FeedPosts /\ dated[q] \in Nat /\ dated[p] \in Nat
          BY <1>2, <1>7, <2>2, <4>2 DEF FeedView
        <5> QED
          BY <2>4, <2>8, <4>2, <5>1
      <4> QED
        BY <2>4, <4>1, <4>2
    <3>3. v.again = {} /\ v.shown \cap v.page = {}
      BY <1>3, <2>4, <2>9
    <3> QED
      BY <2>4, <2>5, <2>6, <3>1, <3>2, <3>3 DEF Feed!CursorShown
  <2>13. Feed!PagesComplete'
    BY <1>3, <2>4, <2>5 DEF Feed!PagesComplete
  <2> QED
    BY <2>6, <2>10, <2>11, <2>12, <2>13 DEF Feed!IInv
<1> QED
  BY <1>8, <1>9

\* Its details: those of the selected that are still there.
LEMMA FeedTimelineDetails ==
    ASSUME FeedSetting, Feed!IInv, Feed!TimelineDetails
    PROVE  Feed!IInv'
<1> DEFINE page == view.page \cap Feed!Existing
<1> DEFINE v == [Feed!Showing(page) EXCEPT !.at = "next"]
<1>1. view' = v /\ view.at = "details" /\ fresh' = fresh /\ UNCHANGED Feed!world
  BY DEF Feed!TimelineDetails
<1>2. Feed!TypeOK /\ Feed!TimesApart /\ view \in FeedView /\ view.of = "timeline" /\ fresh \in BOOLEAN
  BY <1>1 DEF Feed!IInv, Feed!TypeOK, Feed!PageListed, FeedView
<1>3. page \subseteq FeedPosts
  BY DEF Feed!Existing
<1>4. /\ v.of = "timeline" /\ v.at = "next" /\ v.page = page /\ v.shown = view.shown \cup page /\ v.before = view.before
      /\ v.again = view.again \cup (view.shown \cap page) /\ v.lasting = view.lasting
  <2> HIDE DEF page
  <2> QED
    BY <1>2 DEF Feed!Showing, FeedView
<1>5. v \in FeedView
  <2> DEFINE w == Feed!Showing(page)
  <2> HIDE DEF page
  <2>1. w \in FeedView
    BY <1>2, <1>3, FeedShowing DEF FeedView
  <2>2. v = [w EXCEPT !.at = "next"]
    OBVIOUS
  <2> HIDE DEF w, v
  <2> QED
    BY <2>1, <2>2 DEF FeedView
<1> HIDE DEF v
<1>6. /\ Feed!TypeOK' /\ Feed!TimesApart' /\ \A o : Feed!Listing(o)' = Feed!Listing(o) /\ dated' = dated
      /\ \A q, o : Feed!Visible(q, o)' <=> Feed!Visible(q, o)
  BY <1>1, <1>2, <1>5, FeedReads DEF FeedView
<1>7. /\ \A p \in view.lasting : dated[p] >= view.before => p \in view.shown \cup view.page
      /\ \A p \in view.shown \cup view.page : dated[p] >= view.before
      /\ view.again = {} /\ view.shown \cap view.page = {}
  BY <1>1, <1>2 DEF Feed!IInv, Feed!CursorShown
<1>8. view.lasting \subseteq Feed!Listing("timeline")
  BY <1>2 DEF Feed!IInv, Feed!LastingListed
<1>9. Feed!Listing("timeline") \subseteq Feed!Existing
  BY DEF Feed!Listing, Feed!Listed, Feed!Visible
<1>10. \A p \in view.lasting : dated[p] >= view.before => p \in view.shown \cup page
  BY <1>7, <1>8, <1>9
<1>11. v.again = {} /\ \A p \in v.shown : dated[p] >= v.before
  BY <1>4, <1>7
<1>12. Feed!PageListed'
  <2>1. fresh => \A p \in page : Feed!Visible(p, "timeline")
    BY <1>2 DEF Feed!IInv, Feed!PageListed
  <2> HIDE DEF page
  <2> QED
    BY <1>1, <1>4, <1>6, <2>1 DEF Feed!PageListed
<1> HIDE DEF page
<1>13. Feed!LastingListed' /\ Feed!PagesShown'
  BY <1>1, <1>4, <1>6, <1>8 DEF Feed!LastingListed, Feed!PagesShown, Feed!Paged
<1>14. Feed!CursorShown'
  BY <1>1, <1>4, <1>6, <1>10, <1>11 DEF Feed!CursorShown
<1>15. Feed!PagesComplete'
  BY <1>1, <1>4, <1>11 DEF Feed!PagesComplete
<1> QED
  BY <1>6, <1>12, <1>13, <1>14, <1>15 DEF Feed!IInv

LEMMA FeedRanksMove ==
    ASSUME FeedSetting, NEW of,
           \A p, q \in Feed!Listing(of) \cap Feed!Listing(of)' : Feed!Ahead(p, q, of)' <=> Feed!Ahead(p, q, of),
           NEW p \in Feed!Listing(of) \cap Feed!Listing(of)'
    PROVE  /\ Feed!Rank(p, of) \in Nat /\ Feed!Rank(p, of)' \in Nat
           /\ Feed!Listing(of) \subseteq Feed!Listing(of)' => Feed!Rank(p, of) <= Feed!Rank(p, of)'
           /\ Feed!Listing(of)' \subseteq Feed!Listing(of) => Feed!Rank(p, of)' <= Feed!Rank(p, of)
<1> DEFINE W == Feed!Listing(of)
<1> DEFINE N == Feed!Listing(of)'
<1> DEFINE A == {q \in W : Feed!Ahead(q, p, of)}
<1> DEFINE B == {q \in N : Feed!Ahead(q, p, of)'}
<1>1. Feed!Rank(p, of) = Cardinality(A)
  BY FeedByCardinality DEF Feed!Rank
<1>2. Feed!Rank(p, of)' = Cardinality(B)
  BY FeedByCardinality DEF Feed!Rank
<1>3. W \subseteq FeedPosts /\ N \subseteq FeedPosts
  BY DEF Feed!Listing
<1>4. A \subseteq FeedPosts /\ B \subseteq FeedPosts
  BY <1>3
<1>5. W \subseteq N => A \subseteq B
  OBVIOUS
<1>6. N \subseteq W => B \subseteq A
  OBVIOUS
<1> HIDE DEF A, B
<1>7. IsFiniteSet(A) /\ IsFiniteSet(B)
  BY <1>4, FeedFinite, FS_Subset
<1>8. Cardinality(A) \in Nat /\ Cardinality(B) \in Nat
  BY <1>7, FS_CardinalityType
<1>9. W \subseteq N => Cardinality(A) <= Cardinality(B)
  BY <1>5, <1>7, FS_Subset
<1>10. N \subseteq W => Cardinality(B) <= Cardinality(A)
  BY <1>6, <1>7, FS_Subset
<1> HIDE DEF W, N
<1>11. /\ W \subseteq N => Feed!Rank(p, of) <= Feed!Rank(p, of)'
       /\ N \subseteq W => Feed!Rank(p, of)' <= Feed!Rank(p, of)
  BY <1>1, <1>2, <1>9, <1>10
<1>12. Feed!Rank(p, of) \in Nat /\ Feed!Rank(p, of)' \in Nat
  BY <1>1, <1>2, <1>8
<1> QED
  BY <1>11, <1>12 DEF W, N

\* A change between two pages, whatever it is.
LEMMA FeedChanged ==
    ASSUME FeedSetting, Feed!IInv, Feed!Changed,
           kind' = kind, reader' = reader,
           status' \in [FeedPosts -> {"absent", "draft", "published", "blocked", "deleted"}],
           dated' \in [FeedPosts -> 0..FeedTimes], member' \in {"none", "active", "blocked"},
           barred' \in BOOLEAN, open' \in BOOLEAN, saved' \in [FeedPosts -> 0..FeedChanges],
           Feed!TimesApart',
           \A p \in FeedPosts : dated'[p] >= dated[p] /\ (p \in Feed!Listing("timeline") => dated'[p] = dated[p]),
           \A of \in Feed!Paged : \A p, q \in Feed!Listing(of) \cap Feed!Listing(of)' :
               Feed!Ahead(p, q, of)' <=> Feed!Ahead(p, q, of)
    PROVE  Feed!IInv'
<1> DEFINE of == view.of
<1> DEFINE was == Feed!Listing(of)
<1>1. Feed!TypeOK /\ view \in FeedView /\ view.of \in Feed!Listings \cup {"nothing"}
  BY DEF Feed!IInv, Feed!TypeOK, FeedView
<1>2. /\ view.at = "end" => of = "nothing"
      /\ changes < FeedChanges /\ changes' = changes + 1 /\ fresh' = FALSE
  BY DEF Feed!Changed
<1>3. kind' \in [FeedPosts -> Kinds] /\ reader' \in Readers /\ changes' \in 0..FeedChanges /\ fresh' \in BOOLEAN
  <2>1. changes \in 0..FeedChanges /\ kind \in [FeedPosts -> Kinds] /\ reader \in Readers
    BY <1>1 DEF Feed!TypeOK
  <2>2. changes' \in 0..FeedChanges
    BY <1>2, <2>1 DEF FeedSetting
  <2>3. fresh' \in BOOLEAN
    BY <1>2
  <2> QED
    BY <2>1, <2>2, <2>3
<1>4. view' \in FeedView => Feed!TypeOK'
  BY <1>3 DEF Feed!TypeOK, FeedView
<1>5. CASE of = "nothing"
  <2>1. view' = view
    BY <1>5 DEF Feed!Changed
  <2>2. view.page = {} /\ view.at = "end" /\ view.again = {}
    BY <1>5 DEF Feed!IInv, Feed!PageListed
  <2>3. Feed!TypeOK'
    BY <1>1, <1>4, <2>1
  <2>4. Feed!PageListed' /\ Feed!LastingListed' /\ Feed!PagesShown' /\ Feed!CursorShown' /\ Feed!PagesComplete'
    BY <1>2, <1>5, <2>1, <2>2
       DEF Feed!PageListed, Feed!LastingListed, Feed!PagesShown, Feed!CursorShown, Feed!PagesComplete,
           Feed!Paged, Feed!Listings
  <2> QED
    BY <2>3, <2>4 DEF Feed!IInv
<1>6. CASE of # "nothing"
  <2>1. PICK o \in {view.of} : view' = [view EXCEPT !.lasting = view.lasting \cap Feed!Listing(o)',
                                       !.left = view.left \/ Feed!Listing(o) \ Feed!Listing(o)' # {},
                                       !.came = view.came \/ Feed!Listing(o)' \ Feed!Listing(o) # {}]
    BY <1>6 DEF Feed!Changed
  <2> DEFINE then == Feed!Listing(o)'
  <2> DEFINE before == Feed!Listing(o)
  <2> DEFINE v == [view EXCEPT !.lasting = view.lasting \cap then, !.left = view.left \/ before \ then # {},
                               !.came = view.came \/ then \ before # {}]
  <2>2. o = view.of /\ o \in Feed!Listings /\ view.at # "end" /\ o # "detail"
    BY <1>1, <1>2, <1>6 DEF Feed!IInv, Feed!PageListed
  <2>3. o \in Feed!Paged \cup {"timeline"}
    BY <2>2 DEF Feed!Listings
  <2>4. view' = v
    BY <2>1
  <2>5. then \subseteq FeedPosts /\ before \subseteq FeedPosts
    BY DEF Feed!Listing
  <2>6. /\ v.of = o /\ v.at = view.at /\ v.pages = view.pages /\ v.before = view.before /\ v.page = view.page
        /\ v.shown = view.shown /\ v.again = view.again /\ v.lasting = view.lasting \cap then
    <3> HIDE DEF then, before
    <3> QED
      BY <1>1, <2>2 DEF FeedView
  <2>7. (v.left <=> (view.left \/ before \ then # {})) /\ (v.came <=> (view.came \/ then \ before # {}))
    <3> HIDE DEF then, before
    <3> QED
      BY <1>1 DEF FeedView
  <2>8. v \in FeedView
    <3>1. view.lasting \cap then \in SUBSET FeedPosts
      BY <2>5
    <3>2. (view.left \/ before \ then # {}) \in BOOLEAN /\ (view.came \/ then \ before # {}) \in BOOLEAN
      OBVIOUS
    <3> DEFINE l == view.left \/ before \ then # {}
    <3> DEFINE c == view.came \/ then \ before # {}
    <3> DEFINE k == view.lasting \cap then
    <3> HIDE DEF l, c, k
    <3>3. [view EXCEPT !.lasting = k, !.left = l, !.came = c] \in FeedView
      BY <1>1, <3>1, <3>2 DEF FeedView, l, c, k
    <3>4. v = [view EXCEPT !.lasting = k, !.left = l, !.came = c]
      BY DEF l, c, k
    <3> QED
      BY <3>3, <3>4
  <2> HIDE DEF v
  <2>9. Feed!TypeOK'
    BY <1>4, <2>4, <2>8
  <2>10. view.lasting \subseteq before
    BY <2>2, <2>3 DEF Feed!IInv, Feed!LastingListed
  <2>11. Feed!LastingListed'
    BY <2>3, <2>4, <2>6 DEF Feed!LastingListed
  <2>12. Feed!PageListed'
    <3>1. view.at = "details" => view.of = "timeline"
      BY DEF Feed!IInv, Feed!PageListed
    <3> QED
      BY <1>2, <1>6, <2>2, <2>4, <2>6, <3>1 DEF Feed!PageListed
  <2>13. ASSUME o \in Feed!Paged
         PROVE  /\ ~v.left => \A p \in v.lasting : Feed!Rank(p, o)' < v.pages => p \in v.shown
                /\ ~v.came => /\ v.again = {}
                              /\ \A p \in v.shown \cap then : Feed!Rank(p, o)' < v.pages
    <3>1. /\ ~view.left => \A p \in view.lasting : Feed!Rank(p, o) < view.pages => p \in view.shown
          /\ ~view.came => /\ view.again = {}
                           /\ \A p \in view.shown \cap before : Feed!Rank(p, o) < view.pages
      BY <2>2, <2>13 DEF Feed!IInv, Feed!PagesShown
    <3>2. view.pages \in Nat
      BY <1>1 DEF FeedView
    <3>3. ASSUME NEW p \in before \cap then
          PROVE  /\ Feed!Rank(p, o) \in Nat /\ Feed!Rank(p, o)' \in Nat
                 /\ before \subseteq then => Feed!Rank(p, o) <= Feed!Rank(p, o)'
                 /\ then \subseteq before => Feed!Rank(p, o)' <= Feed!Rank(p, o)
      BY <2>13, FeedRanksMove
    <3> HIDE DEF then, before
    <3>4. ASSUME ~v.left, NEW p \in v.lasting, Feed!Rank(p, o)' < v.pages PROVE p \in v.shown
      <4>1. ~view.left /\ before \subseteq then /\ p \in view.lasting /\ p \in before \cap then
        BY <2>6, <2>7, <2>10, <3>4
      <4>2. Feed!Rank(p, o) < view.pages
        BY <2>6, <3>2, <3>3, <3>4, <4>1
      <4> QED
        BY <2>6, <3>1, <4>1, <4>2
    <3>5. ASSUME ~v.came, NEW p \in v.shown \cap then PROVE Feed!Rank(p, o)' < v.pages
      <4>1. ~view.came /\ then \subseteq before /\ p \in before \cap then /\ p \in view.shown
        BY <2>6, <2>7, <3>5
      <4>2. Feed!Rank(p, o) < view.pages
        BY <3>1, <4>1
      <4> QED
        BY <2>6, <3>2, <3>3, <4>1, <4>2
    <3>6. ~v.came => v.again = {}
      BY <2>6, <2>7, <3>1
    <3> QED
      BY <3>4, <3>5, <3>6
  <2>14. Feed!PagesShown'
    BY <2>4, <2>6, <2>13 DEF Feed!PagesShown
  <2>15. ASSUME o = "timeline"
         PROVE  LET selected == IF v.at = "details" THEN v.page ELSE {} IN
                /\ \A p \in v.lasting : dated'[p] >= v.before => p \in v.shown \cup selected
                /\ \A p \in v.shown \cup selected : dated'[p] >= v.before
                /\ v.again = {} /\ v.shown \cap selected = {}
    <3> DEFINE selected == IF view.at = "details" THEN view.page ELSE {}
    <3>1. /\ \A p \in view.lasting : dated[p] >= view.before => p \in view.shown \cup selected
          /\ \A p \in view.shown \cup selected : dated[p] >= view.before
          /\ view.again = {} /\ view.shown \cap selected = {}
      BY <2>2, <2>15 DEF Feed!IInv, Feed!CursorShown
    <3>2. \A p \in view.lasting : dated'[p] = dated[p]
      BY <2>5, <2>10, <2>15
    <3>3. view.shown \cup selected \subseteq FeedPosts /\ view.before \in Nat
      BY <1>1 DEF FeedView, FeedSetting
    <3>4. \A p \in FeedPosts : dated'[p] \in Nat /\ dated[p] \in Nat /\ dated'[p] >= dated[p]
      BY <1>1 DEF Feed!TypeOK
    <3> HIDE DEF selected, then, before
    <3>5. \A p \in view.shown \cup selected : dated'[p] >= view.before
      <4> TAKE p \in view.shown \cup selected
      <4>1. dated[p] >= view.before /\ dated'[p] \in Nat /\ dated[p] \in Nat /\ dated'[p] >= dated[p]
        BY <3>1, <3>3, <3>4
      <4> QED
        BY <3>3, <4>1
    <3>6. \A p \in v.lasting : dated'[p] >= v.before => p \in v.shown \cup selected
      BY <2>6, <3>1, <3>2
    <3> QED
      BY <2>6, <3>1, <3>5, <3>6 DEF selected
  <2>16. Feed!CursorShown'
    BY <2>4, <2>6, <2>15 DEF Feed!CursorShown
  <2>17. Feed!PagesComplete'
    <3>1. v.at # "end"
      BY <2>2, <2>6
    <3>2. o = "timeline" => v.again = {}
      BY <2>15
    <3>3. ~v.came => v.again = {}
      BY <2>3, <2>13, <3>2
    <3> QED
      BY <2>4, <2>6, <3>1, <3>2, <3>3 DEF Feed!PagesComplete
  <2> QED
    BY <2>9, <2>11, <2>12, <2>14, <2>16, <2>17 DEF Feed!IInv
<1> QED
  BY <1>5, <1>6

LEMMA FeedCounts ==
    ASSUME FeedSetting, Feed!IInv, Feed!Changed
    PROVE  /\ Feed!TypeOK /\ Feed!TimesApart
           /\ changes \in Nat /\ changes + 1 \in 0..FeedChanges /\ changes' = changes + 1
           /\ \A p \in FeedPosts : saved[p] \in 0..changes /\ dated[p] \in 0..FeedTimes
<1>1. Feed!TypeOK /\ Feed!TimesApart
  BY DEF Feed!IInv
<1>2. changes \in 0..FeedChanges /\ changes < FeedChanges /\ changes' = changes + 1
  BY <1>1 DEF Feed!TypeOK, Feed!Changed
<1>3. changes \in Nat /\ changes + 1 \in 0..FeedChanges
  BY <1>2 DEF FeedSetting
<1>4. ASSUME NEW p \in FeedPosts PROVE saved[p] \in 0..changes /\ dated[p] \in 0..FeedTimes
  <2>1. saved[p] \in 0..FeedChanges /\ saved[p] <= changes /\ dated[p] \in 0..FeedTimes
    BY <1>1, <1>4 DEF Feed!TypeOK, Feed!TimesApart
  <2> QED
    BY <1>3, <2>1 DEF FeedSetting
<1> QED
  BY <1>1, <1>2, <1>3, <1>4

\* Publishing again dates a post after all others; only then does its date change.
LEMMA FeedChangesPost ==
    ASSUME FeedSetting, Feed!IInv, NEW p \in FeedPosts, Feed!ChangePost(p)
    PROVE  Feed!IInv'
<1>1. Feed!Changed /\ UNCHANGED <<kind, reader, member, barred, open, saved>>
  BY DEF Feed!ChangePost
<1>2. Feed!TypeOK /\ Feed!TimesApart
  BY DEF Feed!IInv
<1>3. PICK to \in Feed!NextStatus[status[p]] :
        /\ status' = [status EXCEPT ![p] = to]
        /\ IF to = "published" /\ status[p] # "blocked"
           THEN \E t \in 1..FeedTimes : /\ \A q \in FeedPosts : dated[q] < t
                                        /\ dated' = [dated EXCEPT ![p] = t]
           ELSE UNCHANGED dated
  BY DEF Feed!ChangePost
<1>4. status[p] \in {"absent", "draft", "published", "blocked", "deleted"}
  BY <1>2 DEF Feed!TypeOK
<1>5. /\ to \in {"draft", "published", "blocked", "deleted"}
      /\ to = "published" => status[p] # "published"
      /\ to = "blocked" => status[p] = "published"
  BY <1>3, <1>4 DEF Feed!NextStatus
<1>6. status' \in [FeedPosts -> {"absent", "draft", "published", "blocked", "deleted"}]
  BY <1>2, <1>3, <1>5 DEF Feed!TypeOK
<1>7. /\ changes \in Nat /\ changes + 1 \in 0..FeedChanges /\ changes' = changes + 1
      /\ \A q \in FeedPosts : saved[q] \in 0..changes /\ dated[q] \in 0..FeedTimes
  BY <1>1, FeedCounts
<1>8. saved' = saved /\ saved \in [FeedPosts -> 0..FeedChanges] /\ FeedTimes \in Nat
  BY <1>1, <1>2 DEF Feed!TypeOK, FeedSetting
<1>9. \A q \in FeedPosts : saved'[q] <= changes'
  BY <1>7, <1>8
<1>10. \A q, r \in FeedPosts : q # r /\ saved'[q] = saved'[r] => saved'[q] = 0
  BY <1>2, <1>8 DEF Feed!TimesApart
<1>11. \A q \in FeedPosts : q # p => status'[q] = status[q]
  BY <1>2, <1>3 DEF Feed!TypeOK
<1>12. status'[p] = to
  BY <1>2, <1>3 DEF Feed!TypeOK
<1>13. CASE to = "published" /\ status[p] # "blocked"
  <2>1. PICK t \in 1..FeedTimes : /\ \A q \in FeedPosts : dated[q] < t
                                  /\ dated' = [dated EXCEPT ![p] = t]
    BY <1>3, <1>13
  <2>2. dated \in [FeedPosts -> 0..FeedTimes]
    BY <1>2 DEF Feed!TypeOK
  <2>3. t \in 0..FeedTimes /\ t \in Nat /\ t > 0
    BY <1>8
  <2>4. dated'[p] = t /\ \A q \in FeedPosts : q # p => dated'[q] = dated[q]
    BY <2>1, <2>2
  <2>5. dated' \in [FeedPosts -> 0..FeedTimes]
    BY <2>1, <2>2, <2>3
  <2>6. \A q \in FeedPosts : status'[q] \in {"published", "blocked"} => dated'[q] > 0
    <3> TAKE q \in FeedPosts
    <3>1. CASE q = p
      BY <2>3, <2>4, <3>1
    <3>2. CASE q # p
      BY <1>2, <1>11, <2>4, <3>2 DEF Feed!TimesApart
    <3> QED
      BY <3>1, <3>2
  <2>7. \A q, r \in FeedPosts : q # r /\ dated'[q] = dated'[r] => dated'[q] = 0
    <3> SUFFICES ASSUME NEW q \in FeedPosts, NEW r \in FeedPosts, q # r, dated'[q] = dated'[r]
                 PROVE  dated'[q] = 0
      OBVIOUS
    <3>1. dated[q] < t /\ dated[r] < t /\ dated[q] \in Nat /\ dated[r] \in Nat
      BY <1>7, <2>1
    <3>2. q # p /\ r # p
      BY <2>3, <2>4, <3>1
    <3> QED
      BY <1>2, <2>4, <3>2 DEF Feed!TimesApart
  <2>8. Feed!TimesApart'
    BY <1>9, <1>10, <2>6, <2>7 DEF Feed!TimesApart
  <2>9. \A q \in FeedPosts : dated'[q] >= dated[q] /\ (q \in Feed!Listing("timeline") => dated'[q] = dated[q])
    <3> TAKE q \in FeedPosts
    <3>1. CASE q = p
      <4>1. p \notin Feed!Listing("timeline")
        BY <1>5, <1>13 DEF Feed!Listing, Feed!Listed
      <4>2. dated[p] < t /\ dated[p] \in Nat
        BY <1>7, <2>1
      <4> QED
        BY <2>3, <2>4, <3>1, <4>1, <4>2
    <3>2. CASE q # p
      BY <1>7, <2>4, <3>2
    <3> QED
      BY <3>1, <3>2
  <2>10. \A of \in Feed!Paged : \A q, r : Feed!Ahead(q, r, of)' <=> Feed!Ahead(q, r, of)
    BY <1>8 DEF Feed!Ahead, Feed!Paged
  <2>11. kind' = kind /\ reader' = reader /\ member' \in {"none", "active", "blocked"} /\ barred' \in BOOLEAN /\ open' \in BOOLEAN
    BY <1>1, <1>2 DEF Feed!TypeOK
  <2> QED
    BY <1>1, <1>6, <1>8, <2>5, <2>8, <2>9, <2>10, <2>11, FeedChanged
<1>14. CASE ~(to = "published" /\ status[p] # "blocked")
  <2>1. dated' = dated /\ dated \in [FeedPosts -> 0..FeedTimes]
    BY <1>2, <1>3, <1>14 DEF Feed!TypeOK
  <2>2. \A q \in FeedPosts : status'[q] \in {"published", "blocked"} => dated'[q] > 0
    <3> TAKE q \in FeedPosts
    <3>1. CASE q = p
      <4>1. status'[p] \in {"published", "blocked"} => status[p] \in {"published", "blocked"}
        BY <1>5, <1>12, <1>14
      <4> QED
        BY <1>2, <2>1, <3>1, <4>1 DEF Feed!TimesApart
    <3>2. CASE q # p
      BY <1>2, <1>11, <2>1, <3>2 DEF Feed!TimesApart
    <3> QED
      BY <3>1, <3>2
  <2>3. \A q, r \in FeedPosts : q # r /\ dated'[q] = dated'[r] => dated'[q] = 0
    BY <1>2, <2>1 DEF Feed!TimesApart
  <2>4. Feed!TimesApart'
    BY <1>9, <1>10, <2>2, <2>3 DEF Feed!TimesApart
  <2>5. \A q \in FeedPosts : dated'[q] >= dated[q] /\ dated'[q] = dated[q]
    BY <1>7, <2>1
  <2>6. \A of \in Feed!Paged : \A q, r : Feed!Ahead(q, r, of)' <=> Feed!Ahead(q, r, of)
    BY <1>8 DEF Feed!Ahead, Feed!Paged
  <2>7. kind' = kind /\ reader' = reader /\ member' \in {"none", "active", "blocked"} /\ barred' \in BOOLEAN /\ open' \in BOOLEAN
    BY <1>1, <1>2 DEF Feed!TypeOK
  <2> QED
    BY <1>1, <1>6, <1>8, <2>1, <2>4, <2>5, <2>6, <2>7, FeedChanged
<1> QED
  BY <1>13, <1>14

\* The reader joins, leaves and is blocked, and the community closes and opens.
LEMMA FeedChangesCommunity ==
    ASSUME FeedSetting, Feed!IInv, Feed!ChangeMembers \/ Feed!CloseCommunity
    PROVE  Feed!IInv'
<1>1. Feed!Changed /\ UNCHANGED <<kind, status, dated, reader, saved>>
  BY DEF Feed!ChangeMembers, Feed!CloseCommunity
<1>2. Feed!TypeOK /\ Feed!TimesApart
  BY DEF Feed!IInv
<1>3. member' \in {"none", "active", "blocked"} /\ barred' \in BOOLEAN
  BY <1>2 DEF Feed!TypeOK, Feed!ChangeMembers, Feed!CloseCommunity
<1>4. open' \in BOOLEAN
  BY <1>2 DEF Feed!TypeOK, Feed!ChangeMembers, Feed!CloseCommunity
<1>5. /\ changes \in Nat /\ changes' = changes + 1
      /\ \A q \in FeedPosts : saved[q] \in 0..changes /\ dated[q] \in 0..FeedTimes
  BY <1>1, FeedCounts
<1>6. /\ status' \in [FeedPosts -> {"absent", "draft", "published", "blocked", "deleted"}]
      /\ dated' \in [FeedPosts -> 0..FeedTimes] /\ saved' \in [FeedPosts -> 0..FeedChanges]
  BY <1>1, <1>2 DEF Feed!TypeOK
<1>7. Feed!TimesApart'
  <2>1. \A q \in FeedPosts : saved'[q] <= changes'
    BY <1>1, <1>5
  <2> QED
    BY <1>1, <1>2, <2>1 DEF Feed!TimesApart
<1>8. \A q \in FeedPosts : dated'[q] >= dated[q] /\ dated'[q] = dated[q]
  BY <1>1, <1>5
<1>9. \A of \in Feed!Paged : \A q, r : Feed!Ahead(q, r, of)' <=> Feed!Ahead(q, r, of)
  BY <1>1 DEF Feed!Ahead, Feed!Paged
<1> QED
  BY <1>1, <1>3, <1>4, <1>6, <1>7, <1>8, <1>9, FeedChanged

\* A post saved comes first among the saved, and one unsaved goes.
LEMMA FeedSaves ==
    ASSUME FeedSetting, Feed!IInv, NEW p \in FeedPosts, Feed!Save(p) \/ Feed!Unsave(p)
    PROVE  Feed!IInv'
<1>1. Feed!Changed /\ UNCHANGED <<kind, status, dated, reader, member, barred, open>>
  BY DEF Feed!Save, Feed!Unsave
<1>2. Feed!TypeOK /\ Feed!TimesApart
  BY DEF Feed!IInv
<1>3. /\ changes \in Nat /\ changes + 1 \in 0..FeedChanges /\ changes' = changes + 1
      /\ \A q \in FeedPosts : saved[q] \in 0..changes /\ dated[q] \in 0..FeedTimes
  BY <1>1, FeedCounts
<1>4. saved \in [FeedPosts -> 0..FeedChanges] /\ FeedChanges \in Nat
  BY <1>2 DEF Feed!TypeOK, FeedSetting
<1>5. PICK n \in {0, changes + 1} : /\ saved' = [saved EXCEPT ![p] = n]
                                    /\ n > 0 => saved[p] = 0
  BY <1>3 DEF Feed!Save, Feed!Unsave
<1>6. saved'[p] = n /\ \A q \in FeedPosts : q # p => saved'[q] = saved[q]
  BY <1>4, <1>5
<1>7. n \in 0..FeedChanges /\ n \in Nat /\ (n = 0 \/ n = changes + 1)
  BY <1>3, <1>4
<1>8. saved' \in [FeedPosts -> 0..FeedChanges]
  BY <1>4, <1>5, <1>7
<1>9. \A q \in FeedPosts : saved'[q] <= changes'
  <2> TAKE q \in FeedPosts
  <2>1. CASE q = p
    BY <1>3, <1>6, <1>7, <2>1
  <2>2. CASE q # p
    BY <1>3, <1>6, <2>2
  <2> QED
    BY <2>1, <2>2
<1>10. \A q, r \in FeedPosts : q # r /\ saved'[q] = saved'[r] => saved'[q] = 0
  <2> SUFFICES ASSUME NEW q \in FeedPosts, NEW r \in FeedPosts, q # r, saved'[q] = saved'[r]
               PROVE  saved'[q] = 0
    OBVIOUS
  <2>1. saved[q] \in 0..changes /\ saved[r] \in 0..changes
    BY <1>3
  <2>2. CASE q = p
    BY <1>3, <1>6, <1>7, <2>1, <2>2
  <2>3. CASE r = p
    BY <1>3, <1>6, <1>7, <2>1, <2>3
  <2>4. CASE q # p /\ r # p
    BY <1>2, <1>6, <2>4 DEF Feed!TimesApart
  <2> QED
    BY <2>2, <2>3, <2>4
<1>11. Feed!TimesApart'
  BY <1>1, <1>2, <1>9, <1>10 DEF Feed!TimesApart
<1>12. \A q \in FeedPosts : dated'[q] >= dated[q] /\ dated'[q] = dated[q]
  BY <1>1, <1>3
<1>13. ASSUME NEW of \in Feed!Paged, NEW q \in Feed!Listing(of) \cap Feed!Listing(of)',
              NEW r \in Feed!Listing(of) \cap Feed!Listing(of)'
       PROVE  Feed!Ahead(q, r, of)' <=> Feed!Ahead(q, r, of)
  <2>1. CASE of = "saved"
    <3>1. q \in FeedPosts /\ r \in FeedPosts /\ saved[q] > 0 /\ saved[r] > 0 /\ saved'[q] > 0 /\ saved'[r] > 0
      BY <1>13, <2>1 DEF Feed!Listing, Feed!Listed
    <3>2. q # p /\ r # p
      BY <1>5, <1>6, <1>7, <3>1
    <3>3. saved'[q] = saved[q] /\ saved'[r] = saved[r]
      BY <1>6, <3>1, <3>2
    <3> QED
      BY <2>1, <3>3 DEF Feed!Ahead
  <2>2. CASE of # "saved"
    BY <1>1, <1>13, <2>2 DEF Feed!Ahead, Feed!Paged
  <2> QED
    BY <2>1, <2>2
<1>14. /\ status' \in [FeedPosts -> {"absent", "draft", "published", "blocked", "deleted"}]
       /\ dated' \in [FeedPosts -> 0..FeedTimes] /\ member' \in {"none", "active", "blocked"}
       /\ barred' \in BOOLEAN /\ open' \in BOOLEAN /\ kind' = kind /\ reader' = reader
  BY <1>1, <1>2 DEF Feed!TypeOK
<1> QED
  BY <1>1, <1>8, <1>11, <1>12, <1>13, <1>14, FeedChanged

LEMMA FeedStep == FeedSetting /\ Feed!IInv /\ Feed!Next => Feed!IInv'
<1> SUFFICES ASSUME FeedSetting, Feed!IInv, Feed!Next PROVE Feed!IInv'
  OBVIOUS
<1>1. CASE \E of \in Feed!Listings : Feed!Open(of)
  BY <1>1, FeedOpens
<1>2. CASE Feed!NextPage \/ Feed!TimelineIds \/ Feed!TimelineDetails
  BY <1>2, FeedNextPage, FeedTimelineIds, FeedTimelineDetails
<1>3. CASE \E p \in FeedPosts : Feed!OpenDetail(p) \/ Feed!ChangePost(p) \/ Feed!Save(p) \/ Feed!Unsave(p)
  BY <1>3, FeedOpensDetail, FeedChangesPost, FeedSaves
<1>4. CASE Feed!ChangeMembers \/ Feed!CloseCommunity
  BY <1>4, FeedChangesCommunity
<1> QED
  BY <1>1, <1>2, <1>3, <1>4 DEF Feed!Next

LEMMA FeedStands ==
    ASSUME Feed!IInv, UNCHANGED <<kind, status, dated, reader, member, barred, open, saved, view, fresh, changes>>
    PROVE  Feed!IInv'
<1>1. /\ Feed!Existing' = Feed!Existing
      /\ \A p, of : Feed!Visible(p, of)' <=> Feed!Visible(p, of)
      /\ \A of : Feed!Listing(of)' = Feed!Listing(of)
      /\ \A p, of : Feed!Rank(p, of)' = Feed!Rank(p, of)
  BY FeedSame
<1>2. Feed!TypeOK' /\ Feed!TimesApart'
  BY DEF Feed!IInv, Feed!TypeOK, Feed!TimesApart
<1>3. Feed!PageListed' /\ Feed!LastingListed' /\ Feed!PagesShown'
  BY <1>1 DEF Feed!IInv, Feed!PageListed, Feed!LastingListed, Feed!PagesShown
<1>4. Feed!CursorShown' /\ Feed!PagesComplete'
  BY DEF Feed!IInv, Feed!CursorShown, Feed!PagesComplete
<1> QED
  BY <1>2, <1>3, <1>4 DEF Feed!IInv

\* Who is visible may be found.
LEMMA FeedAllowed == Feed!IInv => Feed!PageAllowed /\ Feed!PagesComplete
<1> SUFFICES ASSUME Feed!IInv PROVE Feed!PageAllowed /\ Feed!PagesComplete
  OBVIOUS
<1>1. fresh => \A p \in view.page : Feed!Visible(p, view.of)
  BY DEF Feed!IInv, Feed!PageListed
<1>2. Feed!PageAllowed
  BY <1>1 DEF Feed!PageAllowed, Feed!Visible, Feed!Existing, Feed!CommunityVisible, Feed!AsMember, Feed!Mine, Feed!AuthorBlocked
<1> QED
  BY <1>2 DEF Feed!IInv
=============================================================================
