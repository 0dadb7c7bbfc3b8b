--------------------------- MODULE OperatorLogin ---------------------------
(***************************************************************************)
(* Operator login and second-factor management on the controller panel:    *)
(* the login limiter, the password, TOTP and passkey legs of /login, the   *)
(* passwordless begin/finish pair, enrollment and removal of both factors, *)
(* the one-use assertion challenges and the sessions.                      *)
(*                                                                         *)
(* Handlers run concurrently and take no common lock.  Each one is a       *)
(* record of `reqs` that steps from store call to store call (a call of    *)
(* the store or of the limiter is atomic), carrying the clock reading and  *)
(* the account snapshot it took earlier.  One account exists, "op"; any    *)
(* other user name is unknown.  Time is counted in TOTP steps.             *)
(***************************************************************************)
EXTENDS Naturals, FiniteSets, TLC, Functions

CONSTANTS
  Users, IPs,        \* user names and client addresses a login may carry
  Kinds,             \* the handlers this instance exercises
  Accounts,          \* the accounts the controller may start with
  MaxFailures,       \* maxLoginFailures
  LoginWindow,       \* loginWindow
  ChallengeTTL,      \* loginChallengeTTL, webAuthnEnrollmentChallengeTTL
  SessionTTL,        \* DefaultSessionTTL
  ReConfirm,         \* may a confirm request be delivered a second time?
  MaxTime, MaxReqs, MaxOpen   \* bounds: clock, requests, requests at once

BoundsAssumption ==
  /\ MaxFailures \in Nat \ {0} /\ LoginWindow \in Nat \ {0}
  /\ ReConfirm \in BOOLEAN /\ "op" \in Users

VARIABLES
  clock,     \* the controller's clock
  acct,      \* TOTPSecret, TOTPLastUsedStep and LoginCredential (0: unset)
  chals,     \* stored assertion challenges, by number
  sessions,  \* stored sessions: number -> ExpiresAt
  attempts,  \* loginLimiter.attempts
  reqs,      \* handlers in progress, by request number
  ids,       \* how many requests, challenges, secrets, credentials exist,
             \* and the secrets a confirm has been sent for
  ghost      \* what the properties remember: sessions granted, challenges
             \* spent, lockouts and their audit entries, account versions

vars == <<clock, acct, chals, sessions, attempts, reqs, ids, ghost>>

NoProof == [type |-> "none", a |-> 0, b |-> 0]
Code(secret, step) == [type |-> "code", a |-> secret, b |-> step]
Assertion(chal, cred) == [type |-> "assert", a |-> chal, b |-> cred]

LoginKinds == {"login", "begin", "finish"}
ManageKinds == {"confirm", "disable", "register", "pkdisable", "enrollLogin",
                "enrollKeystone", "logout"}

\* The subject a challenge is scoped to: logins and the removal of a passkey
\* use the account itself, an enrollment its purpose.
Subject(kind) == CASE kind = "register" -> "enrollLogin"
                   [] kind \in {"enrollLogin", "enrollKeystone"} -> kind
                   [] OTHER -> "login"

-----------------------------------------------------------------------------
(* loginratelimit.go *)

Live(k, now) == k \in DOMAIN attempts /\ now < attempts[k].start + LoginWindow

Blocked(keys, now) ==
  \E k \in keys : Live(k, now) /\ attempts[k].count >= MaxFailures

Counted(k, now) ==
  IF Live(k, now) THEN [attempts[k] EXCEPT !.count = @ + 1]
                  ELSE [count |-> 1, start |-> now]

\* registerAttempt: one critical section rejects without counting while a key
\* is locked, and otherwise counts the attempt against every key.
registerAttempt(keys, now) ==
  [allowed    |-> ~Blocked(keys, now),
   attempts   |-> IF Blocked(keys, now) THEN attempts
                  ELSE [k \in keys |-> Counted(k, now)] @@ attempts,
   justLocked |-> /\ ~Blocked(keys, now)
                  /\ \E k \in keys : Counted(k, now).count = MaxFailures]

Keys(r) == {<<"user", r.user>>, <<"ip", r.ip>>}
succeed(r) == Restrict(attempts, DOMAIN attempts \ Keys(r))

-----------------------------------------------------------------------------
(* totp.go and the store's account and challenge calls *)

TotpSkew == 1

\* VerifyTOTP: the code of a step next to the current one that is later than
\* the last used step.
VerifyTOTP(secret, p, now, last) ==
  /\ p.type = "code" /\ p.a = secret
  /\ p.b \in (now - TotpSkew)..(now + TotpSkew)
  /\ p.b > last

\* createAssertionChallenge: drops expired records and, for an enrollment,
\* the subject's earlier one, then stores the new one.
Created(subject, now, replace) ==
  LET kept == {c \in DOMAIN chals : /\ now < chals[c].expires
                                    /\ replace => chals[c].subject # subject}
  IN  ((ids.chals + 1) :> [subject |-> subject, expires |-> now + ChallengeTTL])
        @@ Restrict(chals, kept)

\* ConsumeAssertionChallenge: whether it succeeds ...
Consumes(c, subject, now) ==
  /\ c \in DOMAIN chals /\ now < chals[c].expires
  /\ chals[c].subject = subject

\* ... and what it leaves: a spent or expired record is deleted, one of
\* another subject is not.
Consumed(c, subject, now) ==
  IF c \in DOMAIN chals /\ (now >= chals[c].expires \/ chals[c].subject = subject)
  THEN Restrict(chals, DOMAIN chals \ {c}) ELSE chals

\* The factor an account demands after the password: a passkey takes
\* precedence over a TOTP secret.
Demand(a) == CASE a.cred # 0 -> "assert" [] a.secret # 0 -> "code"
               [] OTHER -> "none"

-----------------------------------------------------------------------------
Init ==
  /\ clock = 1
  /\ acct \in Accounts
  /\ chals = <<>> /\ attempts = <<>> /\ reqs = <<>>
  /\ sessions = (0 :> 1 + SessionTTL)
  /\ ids = [reqs |-> 0, chals |-> 0, secrets |-> acct.secret,
            creds |-> acct.cred, sessions |-> 0, sent |-> {acct.secret}]
  /\ ghost = [granted |-> {}, spent |-> {}, locked |-> 0, audited |-> 0,
              admitted |-> {}, version |-> 0]

Finish(n) == reqs' = Restrict(reqs, DOMAIN reqs \ {n})
Goto(n, r) == reqs' = (n :> r) @@ reqs

\* Every open request notes the account values that were current during it.
Noting(rs, a) == [n \in DOMAIN rs |-> [rs[n] EXCEPT !.seen = @ \cup {a}]]

\* auditLockout
auditLockout(r, g) == [g EXCEPT !.audited = @ + (IF r.jl THEN 1 ELSE 0)]

New(kind, user, ip, pw, p, jl) ==
  [kind |-> kind, pc |-> "read", now |-> clock, user |-> user, ip |-> ip,
   pw |-> pw, proof |-> p, jl |-> jl, snap |-> acct, seen |-> {acct},
   version |-> ghost.version]

MayArrive == ids.reqs < MaxReqs /\ Cardinality(DOMAIN reqs) < MaxOpen

\* Codes the operator's authenticator has shown and assertions their passkey
\* can make, those already submitted once included.
Codes == {Code(s, t) : s \in 1..ids.secrets, t \in (clock - 1)..(clock + 1)}
Assertions == {Assertion(c, k) : c \in 1..ids.chals, k \in 1..ids.creds}

Admit(kind, user, ip, pw, p) ==
  LET keys == {<<"user", user>>, <<"ip", ip>>}
      gate == registerAttempt(keys, clock)
      n == ids.reqs + 1
  IN  /\ attempts' = gate.attempts
      /\ ids' = [ids EXCEPT !.reqs = n]
      /\ \/ /\ gate.allowed
            /\ Goto(n, New(kind, user, ip, pw, p, gate.justLocked))
            /\ ghost' = [ghost EXCEPT
                 !.admitted = @ \cup {[req |-> n, key |-> k, at |-> clock] : k \in keys},
                 !.locked = @ + (IF gate.justLocked THEN 1 ELSE 0)]
         \/ ~gate.allowed /\ UNCHANGED <<reqs, ghost>>
      /\ UNCHANGED <<clock, acct, chals, sessions>>

\* The first step of HandleLogin, HandlePasskeyLoginBegin and
\* HandlePasskeyLoginFinish: read the clock, pass the limiter.
ArriveLogin ==
  /\ MayArrive
  /\ \E kind \in Kinds \cap LoginKinds, user \in Users, ip \in IPs,
        pw \in BOOLEAN, p \in {NoProof} \cup Codes \cup Assertions :
       /\ kind # "login" => ~pw
       /\ user # "op" => ~pw /\ p = NoProof
       /\ kind = "login" /\ ~pw => p = NoProof
       /\ kind = "begin" => p = NoProof
       /\ kind = "finish" => p.type # "code"
       /\ Admit(kind, user, ip, pw, p)

\* operatorAuth before a handler that manages the account: LookupSession
\* deletes an expired session and refuses the request.
ArriveManage ==
  /\ MayArrive
  /\ \E kind \in Kinds \cap ManageKinds, s \in DOMAIN sessions,
        p \in {NoProof} \cup Codes \cup Assertions :
       /\ kind \in {"confirm", "disable"} => p.type = "code"
       /\ kind = "pkdisable" => p.type # "code"
       /\ kind = "register" => p.type = "assert"
       /\ kind \in {"enrollLogin", "enrollKeystone", "logout"} => p = NoProof
       /\ kind = "confirm" /\ ~ReConfirm => p.a \notin ids.sent
       /\ ids' = [ids EXCEPT !.reqs = @ + 1,
                             !.sent = IF kind = "confirm" THEN @ \cup {p.a} ELSE @]
       /\ \/ /\ clock >= sessions[s]
             /\ sessions' = Restrict(sessions, DOMAIN sessions \ {s})
             /\ UNCHANGED reqs
          \/ /\ clock < sessions[s] /\ kind = "logout"
             /\ sessions' = Restrict(sessions, DOMAIN sessions \ {s})
             /\ UNCHANGED reqs
          \/ /\ clock < sessions[s] /\ kind # "logout"
             /\ Goto(ids.reqs + 1, New(kind, "op", "", TRUE, p, FALSE))
             /\ UNCHANGED sessions
  /\ UNCHANGED <<clock, acct, chals, attempts, ghost>>

\* HandleTOTPEnroll mints a secret for the client to echo in its confirm;
\* a new passkey is made in the browser.  Neither changes the controller.
NewFactor ==
  /\ \/ "confirm" \in Kinds /\ ids.secrets < 2
        /\ ids' = [ids EXCEPT !.secrets = @ + 1]
     \/ "register" \in Kinds /\ ids.creds < 2
        /\ ids' = [ids EXCEPT !.creds = @ + 1]
  /\ UNCHANGED <<clock, acct, chals, sessions, attempts, reqs, ghost>>

Tick ==
  /\ clock < MaxTime /\ clock' = clock + 1
  /\ UNCHANGED <<acct, chals, sessions, attempts, reqs, ids, ghost>>

-----------------------------------------------------------------------------
(* The handlers after their first step.  n is the request, r its record.   *)

\* A failed login leg: the lockout it may have caused is audited; an account
\* with a passkey is sent a new challenge (writePasskeyChallenge).
Refuse(n, r, challenge, cs) ==
  /\ Finish(n)
  /\ ghost' = auditLockout(r, ghost)
  /\ IF challenge
     THEN /\ chals' = cs
          /\ ids' = [ids EXCEPT !.chals = @ + 1]
     ELSE chals' = cs /\ UNCHANGED ids

Reissued(r, cs) ==
  LET kept == {c \in DOMAIN cs : r.now < cs[c].expires}
  IN  ((ids.chals + 1) :> [subject |-> "login", expires |-> r.now + ChallengeTTL])
        @@ Restrict(cs, kept)

Snap(r) == [r EXCEPT !.pc = "factor", !.snap = acct, !.version = ghost.version]

\* HandleLogin up to the second factor: GetOperator and the password.
ReadLogin(n) ==
  LET r == reqs[n] IN
  /\ r.kind = "login" /\ r.pc = "read"
  /\ \/ /\ r.user # "op" \/ ~r.pw
        /\ Refuse(n, r, FALSE, chals)
     \/ /\ r.user = "op" /\ r.pw /\ Demand(acct) = "none"
        /\ Goto(n, [Snap(r) EXCEPT !.pc = "mint"])
        /\ UNCHANGED <<chals, ids, ghost>>
     \/ /\ r.user = "op" /\ r.pw /\ Demand(acct) # "none"
        /\ Goto(n, Snap(r))
        /\ UNCHANGED <<chals, ids, ghost>>
  /\ UNCHANGED <<clock, acct, sessions, attempts>>

Spent(n, r, g) ==
  [g EXCEPT !.spent = @ \cup {[chal |-> r.proof.a, req |-> n, kind |-> r.kind,
                              subject |-> chals[r.proof.a].subject,
                              late |-> r.now >= chals[r.proof.a].expires]}]

\* verifyLoginAssertion: burns the challenge, then verifies the signature
\* against the credential of the snapshot.
BurnsChallenge(r) ==
  r.proof.type = "assert" /\ Consumes(r.proof.a, Subject(r.kind), r.now)
Burnt(r) ==
  IF r.proof.type = "assert" THEN Consumed(r.proof.a, Subject(r.kind), r.now) ELSE chals

verifyLoginAssertion(r) == BurnsChallenge(r) /\ r.proof.b = r.snap.cred

\* The passkey leg of HandleLogin.
LoginPasskey(n) ==
  LET r == reqs[n] IN
  /\ r.kind = "login" /\ r.pc = "factor" /\ Demand(r.snap) = "assert"
  /\ \/ /\ verifyLoginAssertion(r)
        /\ chals' = Burnt(r)
        /\ Goto(n, [r EXCEPT !.pc = "mint"])
        /\ ghost' = Spent(n, r, ghost)
        /\ UNCHANGED ids
     \/ /\ ~verifyLoginAssertion(r)
        /\ Refuse(n, r, TRUE, Reissued(r, Burnt(r)))
  /\ UNCHANGED <<clock, acct, sessions, attempts>>

\* Mutant: an off-by-one in the compare-and-set lets a step win twice.
AdvancesAgain(step) == step >= acct.last

\* AdvanceTOTPStep: compare-and-set of the watermark, whatever the secret.
Advances(step) == step > acct.last

SetAcct(a, rs) ==
  /\ acct' = a
  /\ reqs' = Noting(rs, a)

Others(n) == Restrict(reqs, DOMAIN reqs \ {n})

\* The TOTP leg of HandleLogin: verify against the snapshot, then win the
\* store's compare-and-set, which may fail with a storage error (500).
LoginTOTP(n) ==
  LET r == reqs[n]
      ok == VerifyTOTP(r.snap.secret, r.proof, r.now, r.snap.last)
  IN
  /\ r.kind = "login" /\ r.pc = "factor" /\ Demand(r.snap) = "code"
  /\ \/ /\ ok /\ Advances(r.proof.b)
        /\ SetAcct([acct EXCEPT !.last = r.proof.b],
                   (n :> [r EXCEPT !.pc = "mint"]) @@ reqs)
        /\ ghost' = [ghost EXCEPT !.version = @ + 1]
        /\ UNCHANGED <<chals, ids>>
     \/ /\ ~(ok /\ Advances(r.proof.b))
        /\ Refuse(n, r, FALSE, chals) /\ UNCHANGED acct
  /\ UNCHANGED <<clock, sessions, attempts>>

\* mintSessionResponse: store the session, clear both limiter records.  The
\* store may fail (500); the attempt then stays counted.
mintSessionResponse(n) ==
  LET r == reqs[n] IN
  /\ r.pc = "mint"
  /\ \/ /\ sessions' = ((ids.sessions + 1) :> r.now + SessionTTL) @@ sessions
        /\ ids' = [ids EXCEPT !.sessions = @ + 1]
        /\ attempts' = succeed(r)
        /\ ghost' = [ghost EXCEPT
             !.granted = @ \cup {[req |-> n, kind |-> r.kind, seen |-> r.seen,
                proof |-> IF Demand(r.snap) = "none" THEN NoProof ELSE r.proof]},
             !.admitted = {e \in @ : e.key \notin Keys(r)},
             !.locked = @ - (IF r.jl THEN 1 ELSE 0)]
     \/ UNCHANGED <<sessions, ids, attempts, ghost>>
  /\ Finish(n)
  /\ UNCHANGED <<clock, acct, chals>>

\* HandlePasskeyLoginBegin after the gate: a stored challenge for an account
\* with a passkey, otherwise a decoy that is not stored.  justLocked is dropped.
LoginBegin(n) ==
  LET r == reqs[n] IN
  /\ r.kind = "begin" /\ r.pc = "read"
  /\ Finish(n)
  /\ ids' = [ids EXCEPT !.chals = @ + 1]
  /\ chals' = IF r.user = "op" /\ acct.cred # 0
              THEN Created("login", r.now, FALSE) ELSE chals
  /\ UNCHANGED <<clock, acct, sessions, attempts, ghost>>

\* HandlePasskeyLoginFinish after the gate.
ReadFinish(n) ==
  LET r == reqs[n] IN
  /\ r.kind = "finish" /\ r.pc = "read"
  /\ \/ /\ r.user # "op" \/ acct.cred = 0 \/ r.proof = NoProof
        /\ Refuse(n, r, FALSE, chals)
     \/ /\ r.user = "op" /\ acct.cred # 0 /\ r.proof # NoProof
        /\ Goto(n, Snap(r))
        /\ UNCHANGED <<chals, ids, ghost>>
  /\ UNCHANGED <<clock, acct, sessions, attempts>>

LoginFinish(n) ==
  LET r == reqs[n] IN
  /\ r.kind = "finish" /\ r.pc = "factor"
  /\ \/ /\ verifyLoginAssertion(r)
        /\ chals' = Burnt(r)
        /\ Goto(n, [r EXCEPT !.pc = "mint"])
        /\ ghost' = Spent(n, r, ghost)
        /\ UNCHANGED ids
     \/ ~verifyLoginAssertion(r) /\ Refuse(n, r, FALSE, Burnt(r))
  /\ UNCHANGED <<clock, acct, sessions, attempts>>

\* HandleWebAuthnEnrollmentBegin: one live challenge per actor and purpose.
EnrollmentBegin(n) ==
  LET r == reqs[n] IN
  /\ r.kind \in {"enrollLogin", "enrollKeystone"}
  /\ chals' = Created(Subject(r.kind), clock, TRUE)
  /\ ids' = [ids EXCEPT !.chals = @ + 1]
  /\ Finish(n)
  /\ UNCHANGED <<clock, acct, sessions, attempts, ghost>>

\* currentOperatorAccount and the checks of HandleTOTPConfirm, which verifies
\* the submitted secret's own code with no last step, and HandleTOTPDisable.
ReadTOTPChange(n) ==
  LET r == reqs[n]
      ok == IF r.kind = "confirm"
            THEN VerifyTOTP(r.proof.a, r.proof, clock, 0)
            ELSE acct.secret # 0 /\ VerifyTOTP(acct.secret, r.proof, clock, acct.last)
  IN
  /\ r.kind \in {"confirm", "disable"} /\ r.pc = "read"
  /\ IF ok THEN Goto(n, [Snap(r) EXCEPT !.pc = "cas"]) ELSE Finish(n)
  /\ UNCHANGED <<clock, acct, chals, sessions, attempts, ids, ghost>>

SameTOTP(a, b) == a.secret = b.secret /\ a.last = b.last

\* CompareAndSetTOTPState, the last step of both handlers.
CompareAndSetTOTPState(n) ==
  LET r == reqs[n]
      next == IF r.kind = "confirm"
              THEN [acct EXCEPT !.secret = r.proof.a, !.last = r.proof.b]
              ELSE [acct EXCEPT !.secret = 0, !.last = 0]
  IN
  /\ r.kind \in {"confirm", "disable"} /\ r.pc = "cas"
  /\ \/ /\ SameTOTP(acct, r.snap)
        /\ SetAcct(next, Others(n))
        /\ ghost' = [ghost EXCEPT !.version = @ + 1]
     \/ /\ ~SameTOTP(acct, r.snap)
        /\ Finish(n) /\ UNCHANGED <<acct, ghost>>
  /\ UNCHANGED <<clock, chals, sessions, attempts, ids>>

\* HandlePasskeyRegister reads the account; HandlePasskeyDisable answers at
\* once when there is no passkey, and issues a challenge on its first leg.
ReadPasskeyChange(n) ==
  LET r == reqs[n] IN
  /\ r.kind \in {"register", "pkdisable"} /\ r.pc = "read"
  /\ \/ /\ r.kind = "register" \/ (acct.cred # 0 /\ r.proof # NoProof)
        /\ Goto(n, Snap(r)) /\ UNCHANGED <<chals, ids>>
     \/ /\ r.kind = "pkdisable" /\ acct.cred = 0
        /\ Finish(n) /\ UNCHANGED <<chals, ids>>
     \/ /\ r.kind = "pkdisable" /\ acct.cred # 0 /\ r.proof = NoProof
        /\ chals' = Created("login", clock, FALSE)
        /\ ids' = [ids EXCEPT !.chals = @ + 1]
        /\ Finish(n)
  /\ UNCHANGED <<clock, acct, sessions, attempts, ghost>>

\* verifyWebAuthnEnrollmentProof (the candidate's own signature, so the
\* challenge alone decides) or verifyLoginAssertion.
ProvePasskeyChange(n) ==
  LET r == [reqs[n] EXCEPT !.now = clock]
      ok == BurnsChallenge(r) /\ (r.kind = "register" \/ r.proof.b = r.snap.cred)
  IN
  /\ r.kind \in {"register", "pkdisable"} /\ r.pc = "factor"
  /\ chals' = Burnt(r)
  /\ \/ ok /\ Goto(n, [r EXCEPT !.pc = "cas"]) /\ ghost' = Spent(n, r, ghost)
     \/ ~ok /\ Finish(n) /\ UNCHANGED ghost
  /\ UNCHANGED <<clock, acct, sessions, attempts, ids>>

sameLoginCredential(a, b) == a = b

\* CompareAndSetLoginCredential, the last step of both handlers.
CompareAndSetLoginCredential(n) ==
  LET r == reqs[n] IN
  /\ r.kind \in {"register", "pkdisable"} /\ r.pc = "cas"
  /\ \/ /\ sameLoginCredential(acct.cred, r.snap.cred)
        /\ SetAcct([acct EXCEPT !.cred = IF r.kind = "register" THEN r.proof.b ELSE 0],
                   Others(n))
     \/ /\ ~sameLoginCredential(acct.cred, r.snap.cred)
        /\ Finish(n) /\ UNCHANGED acct
  /\ UNCHANGED <<clock, chals, sessions, attempts, ids, ghost>>

Step(n) ==
  \/ ReadLogin(n) \/ LoginPasskey(n) \/ LoginTOTP(n) \/ mintSessionResponse(n)
  \/ LoginBegin(n) \/ ReadFinish(n) \/ LoginFinish(n) \/ EnrollmentBegin(n)
  \/ ReadTOTPChange(n) \/ CompareAndSetTOTPState(n)
  \/ ReadPasskeyChange(n) \/ ProvePasskeyChange(n) \/ CompareAndSetLoginCredential(n)

Next ==
  \/ ArriveLogin \/ ArriveManage \/ NewFactor \/ Tick
  \/ \E n \in DOMAIN reqs : Step(n)

Spec == Init /\ [][Next]_vars

-----------------------------------------------------------------------------
(* Properties *)

\* A session is granted only on the proof that some account value, current at
\* a moment of that very request, asked for: HandleLogin decides the factor on
\* a snapshot and verifies the proof later, while confirm, disable, register
\* and passkey removal change the account underneath it.
FactorHeld ==
  \A g \in ghost.granted : \E a \in g.seen :
    CASE g.proof.type = "none" -> Demand(a) = "none"
      [] g.proof.type = "code" -> Demand(a) = "code" /\ a.secret = g.proof.a
      [] OTHER -> a.cred = g.proof.b

\* One TOTP code opens at most one session while its secret is in force:
\* concurrent logins that carry the same code all pass VerifyTOTP on their
\* snapshots, and AdvanceTOTPStep lets one of them through.  (A login that
\* overlaps the removal of the secret needs no code any more.)
CodeUsedOnce ==
  \A g, h \in ghost.granted :
    /\ g.proof.type = "code" /\ g.proof = h.proof
    /\ \A a \in g.seen \cup h.seen : a.secret = g.proof.a
    => g.req = h.req

\* A stored challenge approves at most one login, registration or removal, in
\* time, and only for the subject it was issued to: enrollment proofs never
\* open a session and login challenges never enroll a passkey.
ChallengeUsedOnce ==
  \A e, f \in ghost.spent :
    /\ e.chal = f.chal => e.req = f.req
    /\ e.subject = Subject(e.kind) /\ ~e.late

\* The limiter bounds concurrent guessing: in any stretch of LoginWindow ticks
\* a key is admitted at most twice the limit less one times without a success
\* (two adjacent fixed windows, the attempt that opened the first left out).
AdmittedBounded ==
  \A k \in {e.key : e \in ghost.admitted}, t \in 1..MaxTime :
    Cardinality({e \in ghost.admitted : e.key = k /\ e.at \in t..(t + LoginWindow - 1)})
      <= 2 * MaxFailures - 1

\* What a login promises: the factor asked for, each proof once, bounded guessing.
LoginHeld == FactorHeld /\ CodeUsedOnce /\ ChallengeUsedOnce /\ AdmittedBounded
=============================================================================
