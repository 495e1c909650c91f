------------------------------- MODULE SignIn -------------------------------
(***************************************************************************)
(* Signing one user in by an emailed link or six-digit code.  A request    *)
(* reads rows, and commits at its end what it decided from them; nothing   *)
(* locks the rows in between, so what two requests that overlap leave      *)
(* behind is part of the model.                                            *)
(***************************************************************************)
EXTENDS Integers, FiniteSets

CONSTANTS
    SignInRequests,   \* requests that may be under way at once
    MaxTokens,        \* bound on the rows ever made
    PerEmail,         \* magic_link_rate_limit_max_per_email
    MaxAttempts       \* login_code_max_attempts

ASSUME SignInAssumption ==
    /\ MaxTokens \in Nat /\ PerEmail \in Nat /\ MaxAttempts \in Nat \ {0}
    /\ IsFiniteSet(SignInRequests)

VARIABLES
    tokens,       \* MagicLinkToken rows, in the order they were made
    signing,      \* what a request decided from what it read
    past,         \* history: sign-ins with each row, and wrong codes compared with it
    met           \* history: rows two requests dealt with at once, whose past is moot

signInVars == <<tokens, signing, past, met>>

Row == 1 .. MaxTokens
NoRequest == [op |-> "none", row |-> 0, failed |-> 0]
SignInOps == {"none", "link", "code", "redeem", "right", "wrong", "refused"}

Token == [kind : {"none", "link", "code"}, unused : BOOLEAN, fresh : BOOLEAN,
          recent : BOOLEAN, failed : Nat]
NoToken == [kind |-> "none", unused |-> FALSE, fresh |-> FALSE, recent |-> FALSE, failed |-> 0]

NoPast == [ins |-> 0, wrong |-> 0]

SignInTypeOK ==
    /\ tokens \in [Row -> Token]
    /\ signing \in [SignInRequests -> [op : SignInOps, row : Row \union {0}, failed : Nat]]
    /\ past \in [Row -> [ins : Nat, wrong : Nat]]
    /\ met \subseteq Row

SignInInit ==
    /\ tokens = [r \in Row |-> NoToken]
    /\ signing = [q \in SignInRequests |-> NoRequest]
    /\ past = [r \in Row |-> NoPast]
    /\ met = {}

Issued == {r \in Row : tokens[r].kind # "none"}
Unused == {r \in Issued : tokens[r].unused}

\* A request that starts beside another one: every row there is, and those
\* that the requests may make, may be dealt with twice.
Overlaps(q) ==
    IF \E p \in SignInRequests \ {q} : signing[p] # NoRequest
    THEN met \union {r \in Row : r <= Cardinality(Issued) + Cardinality(SignInRequests)}
    ELSE met

\* What a request leaves of the past: nothing of rows that are met.
Past(r, ins, wrong) ==
    past' = [x \in Row |->
                IF x \in met' THEN NoPast
                ELSE IF x = r THEN [ins |-> past[r].ins + ins, wrong |-> past[r].wrong + wrong]
                ELSE past[x]]

Decides(q, op, r, failed) ==
    /\ signing[q] = NoRequest
    /\ signing' = [signing EXCEPT ![q] = [op |-> op, row |-> r, failed |-> failed]]
    /\ met' = Overlaps(q)
    /\ Past(r, 0, IF op = "wrong" THEN 1 ELSE 0)
    /\ UNCHANGED tokens

-----------------------------------------------------------------------------
(* Asking for a link or a code.                                            *)

\* enforce_magic_link_rate_limit, of this user's rows.
WithinRate == Cardinality({r \in Issued : tokens[r].recent}) < PerEmail

AskFor(q, kind) ==
    /\ WithinRate
    /\ Decides(q, kind, Cardinality(Issued), 0)

\* A code retires what was there, unused, when it was asked for; a link
\* leaves the others as they are.
Issue(q) ==
    LET kind == signing[q].op
        next == Cardinality(Issued) + 1
        kept == [r \in Row |-> IF kind = "code" /\ r <= signing[q].row
                               THEN [tokens[r] EXCEPT !.unused = FALSE] ELSE tokens[r]]
    IN  /\ kind \in {"link", "code"}
        /\ next \in Row
        /\ tokens' = [kept EXCEPT ![next] = [kind |-> kind, unused |-> TRUE, fresh |-> TRUE,
                                             recent |-> TRUE, failed |-> 0]]
        /\ signing' = [signing EXCEPT ![q] = NoRequest]
        /\ UNCHANGED <<past, met>>

-----------------------------------------------------------------------------
(* Typing a code, and following a link.                                    *)

\* verify_login_code: one unused row, whichever comes first.  What it has
\* read decides: refused, wrong, or right.
VerifyCode(q, right) ==
    \E r \in Unused :
        LET t == tokens[r]
            op == IF ~t.fresh \/ t.failed >= MaxAttempts THEN "refused"
                  ELSE IF right /\ t.kind = "code" THEN "right" ELSE "wrong"
        IN  Decides(q, op, r, t.failed)

\* Mutant: the request is rolled back with the error it raises.
CountWrongLost(q) ==
    /\ signing[q].op = "wrong"
    /\ signing' = [signing EXCEPT ![q] = NoRequest]
    /\ UNCHANGED <<tokens, past, met>>

\* The route commits also when the code was wrong, or the count would be lost.
CountWrong(q) ==
    LET s == signing[q]
    IN  /\ s.op = "wrong"
        /\ tokens' = [tokens EXCEPT ![s.row].failed = s.failed + 1]
        /\ signing' = [signing EXCEPT ![q] = NoRequest]
        /\ UNCHANGED <<past, met>>

Refuse(q) ==
    /\ signing[q].op = "refused"
    /\ signing' = [signing EXCEPT ![q] = NoRequest]
    /\ UNCHANGED <<tokens, past, met>>

\* redeem_magic_link.
RedeemLink(q, r) ==
    /\ tokens[r].kind = "link"
    /\ Decides(q, IF tokens[r].unused /\ tokens[r].fresh THEN "redeem" ELSE "refused", r, 0)

\* The row is used up with the commit that stores the session.
StartSession(q) ==
    LET s == signing[q]
    IN  /\ s.op \in {"right", "redeem"}
        /\ tokens' = [tokens EXCEPT ![s.row].unused = FALSE]
        /\ signing' = [signing EXCEPT ![q] = NoRequest]
        /\ UNCHANGED met
        /\ Past(s.row, 1, 0)

\* The mail is sent, or the session stored, in the request: an error in
\* either rolls back what the request did.
RollBackSignIn(q) ==
    /\ signing[q].op \in {"link", "code", "right", "redeem"}
    /\ signing' = [signing EXCEPT ![q] = NoRequest]
    /\ UNCHANGED <<tokens, past, met>>

\* A row's time is up, then it leaves the window of the rate limit.
TokenAges(r) ==
    /\ tokens[r].kind # "none" /\ tokens[r].recent
    /\ tokens' = [tokens EXCEPT ![r].recent = tokens[r].fresh, ![r].fresh = FALSE]
    /\ UNCHANGED <<signing, past, met>>

SignInNext ==
    \/ \E q \in SignInRequests :
          \/ \E kind \in {"link", "code"} : AskFor(q, kind)
          \/ Issue(q)
          \/ \E right \in BOOLEAN : VerifyCode(q, right)
          \/ CountWrong(q) \/ Refuse(q)
          \/ \E r \in Row : RedeemLink(q, r)
          \/ StartSession(q) \/ RollBackSignIn(q)
    \/ \E r \in Row : TokenAges(r)

SignInSpec == SignInInit /\ [][SignInNext]_signInVars

-----------------------------------------------------------------------------
(* Properties.                                                             *)

\* "A one-time" link or code, and failed_attempts "caps how many guesses
\* one gets" (models/auth.py:19-25): unless requests overlapped on it, a row
\* signs in once, and no more codes are compared with it than are allowed;
\* and once a code is made, nothing made before it signs in ("only the
\* newest works", services/auth.py:117-121).
CodesSpent ==
    /\ \A r \in Row \ met : past[r].ins <= 1 /\ past[r].wrong <= MaxAttempts
    /\ \A old, new \in Issued \ met :
          old < new /\ tokens[new].kind = "code" => old \notin Unused
=============================================================================
