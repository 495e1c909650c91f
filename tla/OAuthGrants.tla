---------------------------- MODULE OAuthGrants ----------------------------
(***************************************************************************)
(* One authorization request of the OAuth server, and the pairs of tokens  *)
(* that come of it.  Each endpoint reads a row, and commits at its end     *)
(* what it decided; rows are not locked in between.                        *)
(***************************************************************************)
EXTENDS Integers, FiniteSets

CONSTANTS
    GrantRequests,    \* requests that may be under way at once
    MaxPairs,         \* bound on the pairs of tokens ever minted
    MaxCodes          \* bound on the approvals, of which more than one overlap

ASSUME GrantAssumption == MaxPairs \in Nat /\ MaxCodes \in Nat

VARIABLES
    grant,        \* OAuthAuthorizationRequest: the code it stands for, if used, if in time
    pairs,        \* an OAuthRefreshToken and the PersonalAccessToken it came with
    granting,     \* what a request decided from what it read
    crossed       \* history: some request overlapped another

grantVars == <<grant, pairs, granting, crossed>>

Pair == 1 .. MaxPairs
NoCall == [op |-> "none", of |-> 0]
GrantOps == {"none", "approve", "deny", "exchange", "rotate", "revoke pair", "revoke access"}
TokenStates == {"none", "live", "expired", "revoked"}
NoPair == [refresh |-> "none", access |-> "none"]

GrantTypeOK ==
    /\ grant \in [code : 0 .. MaxCodes, denied : BOOLEAN, used : BOOLEAN, fresh : BOOLEAN]
    /\ pairs \in [Pair -> [refresh : TokenStates, access : TokenStates]]
    /\ granting \in [GrantRequests -> [op : GrantOps, of : Nat]]
    /\ crossed \in BOOLEAN

GrantInit ==
    /\ grant = [code |-> 0, denied |-> FALSE, used |-> FALSE, fresh |-> TRUE]
    /\ pairs = [p \in Pair |-> NoPair]
    /\ granting = [q \in GrantRequests |-> NoCall]
    /\ crossed = FALSE

Minted == {p \in Pair : pairs[p] # NoPair}
Standing == {p \in Pair : pairs[p].refresh = "live"}

BeginCall(q, op, of) ==
    /\ granting[q] = NoCall
    /\ granting' = [granting EXCEPT ![q] = [op |-> op, of |-> of]]
    /\ crossed' = (crossed \/ \E o \in GrantRequests \ {q} : granting[o] # NoCall)
    /\ UNCHANGED <<grant, pairs>>

EndCall(q) == granting' = [granting EXCEPT ![q] = NoCall]

\* Nothing decided, or in time: get_authorization_request, load_authorization_code.
Pending == ~grant.used /\ grant.fresh

-----------------------------------------------------------------------------
(* The consent page.                                                       *)

BeginApprove(q) == Pending /\ grant.code = 0 /\ BeginCall(q, "approve", 0)

\* Each approval makes a code of its own; the row remembers the last.
Approve(q) ==
    /\ granting[q].op = "approve"
    /\ grant.code < MaxCodes
    /\ grant' = [grant EXCEPT !.code = @ + 1, !.fresh = TRUE]
    /\ EndCall(q)
    /\ UNCHANGED <<pairs, crossed>>

\* Also an approved request can be denied, while its code is unused.
BeginDeny(q) == Pending /\ BeginCall(q, "deny", 0)

Deny(q) ==
    /\ granting[q].op = "deny"
    /\ grant' = [grant EXCEPT !.used = TRUE, !.denied = TRUE]
    /\ EndCall(q)
    /\ UNCHANGED <<pairs, crossed>>

-----------------------------------------------------------------------------
(* The token endpoint.                                                     *)

Mint(held) ==
    LET next == Cardinality(Minted) + 1
    IN  /\ next \in Pair
        /\ pairs' = [held EXCEPT ![next] = [refresh |-> "live", access |-> "live"]]

BeginExchange(q, code) == Pending /\ code = grant.code /\ BeginCall(q, "exchange", code)

ExchangeCode(q) ==
    /\ granting[q].op = "exchange"
    /\ grant' = [grant EXCEPT !.used = TRUE]
    /\ Mint(pairs)
    /\ EndCall(q)
    /\ UNCHANGED crossed

\* peek_refresh_token, then exchange_refresh_token.
BeginRotate(q, p) == p \in Standing /\ BeginCall(q, "rotate", p)

\* Mutant: revoking does not reach the paired access token.
OneRevoked(held, p) == [held EXCEPT ![p].refresh = "revoked"]

BothRevoked(held, p) ==
    [held EXCEPT ![p] = [refresh |-> "revoked", access |-> "revoked"]]

Rotate(q) ==
    /\ granting[q].op = "rotate"
    /\ Mint(BothRevoked(pairs, granting[q].of))
    /\ EndCall(q)
    /\ UNCHANGED <<grant, crossed>>

\* revoke_oauth_token, by either token, of any state.
BeginRevoke(q, p) == p \in Minted /\ BeginCall(q, "revoke pair", p)

\* revoke_personal_access_token, from the user's list of tokens.
BeginRevokeAccess(q, p) == p \in Minted /\ BeginCall(q, "revoke access", p)

Revoke(q) ==
    LET p == granting[q].of
    IN  /\ \/ granting[q].op = "revoke pair" /\ pairs' = BothRevoked(pairs, p)
           \/ granting[q].op = "revoke access" /\ pairs' = [pairs EXCEPT ![p].access = "revoked"]
        /\ EndCall(q)
        /\ UNCHANGED <<grant, crossed>>

RollBackCall(q) ==
    /\ granting[q] # NoCall
    /\ EndCall(q)
    /\ UNCHANGED <<grant, pairs, crossed>>

\* PENDING_REQUEST_TTL_MINUTES, or AUTHORIZATION_CODE_TTL_SECONDS, are over.
GrantExpires ==
    /\ grant.fresh
    /\ grant' = [grant EXCEPT !.fresh = FALSE]
    /\ UNCHANGED <<pairs, granting, crossed>>

\* ACCESS_TOKEN_TTL and REFRESH_TOKEN_TTL; the access token's is over first.
PairExpires(p) ==
    /\ \/ pairs[p].access = "live" /\ pairs' = [pairs EXCEPT ![p].access = "expired"]
       \/ /\ pairs[p].access # "live" /\ pairs[p].refresh = "live"
          /\ pairs' = [pairs EXCEPT ![p].refresh = "expired"]
    /\ UNCHANGED <<grant, granting, crossed>>

GrantNext ==
    \/ \E q \in GrantRequests :
          \/ BeginApprove(q) \/ Approve(q) \/ BeginDeny(q) \/ Deny(q)
          \/ \E code \in 1 .. MaxCodes : BeginExchange(q, code)
          \/ ExchangeCode(q)
          \/ \E p \in Pair : BeginRotate(q, p) \/ BeginRevoke(q, p) \/ BeginRevokeAccess(q, p)
          \/ Rotate(q) \/ Revoke(q) \/ RollBackCall(q)
    \/ GrantExpires
    \/ \E p \in Pair : PairExpires(p)

GrantSpec == GrantInit /\ [][GrantNext]_grantVars

-----------------------------------------------------------------------------
(* Properties.                                                             *)

\* A refresh token never ends without its access token, in whatever order
\* exchanges and revocations commit (oauth.py:188-258); and unless requests
\* overlapped, an approval stands for one usable pair at a time, and for
\* none when it was denied.
GrantsEnd ==
    /\ \A p \in Pair : pairs[p].refresh = "revoked" => pairs[p].access = "revoked"
    /\ ~crossed => Cardinality(Standing) <= 1 /\ (grant.denied => Minted = {})
=============================================================================
