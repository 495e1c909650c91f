----------------------------- MODULE MCAccounts -----------------------------
(***************************************************************************)
(* Small instances, for TLC, of the parts that keep what belongs to a user *)
(* or to a company, its board among it.  They share no state: a behaviour  *)
(* is one part's, the others stay as they begin.                           *)
(***************************************************************************)
EXTENDS AiCredits, Billing, ResumeVersions, ResumeResults, AlertSweep, SignIn,
        OAuthGrants, CompanyLogos, SourceRegistry, BoardKeys, TLC

CONSTANTS own, rival     \* the companies

VARIABLE part     \* whose behaviour this is

Init ==
    /\ CreditsInit /\ BillingInit /\ ResumesInit /\ ResultsInit /\ AlertInit
    /\ SignInInit /\ GrantInit /\ LogosInit /\ RegistryInit
    /\ part \in {"credits", "billing", "resumes", "results", "alerts", "sign-in", "grants",
                 "logos", "registry"}
    /\ part # "registry" => keyed = lever

Next ==
    /\ UNCHANGED part
    /\ \/ /\ part = "credits" /\ CreditsNext
          /\ UNCHANGED <<billingVars, resumeVars, resultVars, alertVars, signInVars,
                         grantVars, logoVars, registryVars>>
       \/ /\ part = "billing" /\ BillingNext
          /\ UNCHANGED <<creditsVars, resumeVars, resultVars, alertVars, signInVars,
                         grantVars, logoVars, registryVars>>
       \/ /\ part = "resumes" /\ ResumesNext
          /\ UNCHANGED <<creditsVars, billingVars, resultVars, alertVars, signInVars,
                         grantVars, logoVars, registryVars>>
       \/ /\ part = "results" /\ ResultsNext
          /\ UNCHANGED <<creditsVars, billingVars, resumeVars, alertVars, signInVars,
                         grantVars, logoVars, registryVars>>
       \/ /\ part = "alerts" /\ AlertNext
          /\ UNCHANGED <<creditsVars, billingVars, resumeVars, resultVars, signInVars,
                         grantVars, logoVars, registryVars>>
       \/ /\ part = "sign-in" /\ SignInNext
          /\ UNCHANGED <<creditsVars, billingVars, resumeVars, resultVars, alertVars,
                         grantVars, logoVars, registryVars>>
       \/ /\ part = "grants" /\ GrantNext
          /\ UNCHANGED <<creditsVars, billingVars, resumeVars, resultVars, alertVars,
                         signInVars, logoVars, registryVars>>
       \/ /\ part = "logos" /\ LogosNext
          /\ UNCHANGED <<creditsVars, billingVars, resumeVars, resultVars, alertVars,
                         signInVars, grantVars, registryVars>>
       \/ /\ part = "registry" /\ RegistryNext
          /\ UNCHANGED <<creditsVars, billingVars, resumeVars, resultVars, alertVars,
                         signInVars, grantVars, logoVars>>

Spec ==
    Init /\ [][Next]_<<part, creditsVars, billingVars, resumeVars, resultVars, alertVars,
                    signInVars, grantVars, logoVars, registryVars>>

-----------------------------------------------------------------------------
\* Every part's variables keep to their types; no counter exceeds its limit,
\* however requests overlap; a resume's root is one of its family.
AccountsTypeOK ==
    CreditsTypeOK /\ BillingTypeOK /\ ResumesTypeOK /\ ResultsTypeOK /\ AlertTypeOK
    /\ SignInTypeOK /\ GrantTypeOK /\ LogosTypeOK /\ RegistryTypeOK

\* A charge that is not a job's ends the behaviour, and so does a count begun
\* again in a period, once the requests have ended; it is about the trial, or
\* about a plan that does not lapse; one request at a time is of another plan
\* than the row's; and they take turns once one of them was, or an older period
\* was put back.
FewCredits ==
    /\ counter["requests"].used + counter["free restructures"].used <= 0
    /\ \A period \in Periods :
          countsBegun[period] <= 1 \/ \A q \in AiRequests : aiRequest[q].pc = "idle"
    /\ freeJobs # {} => planJobs = {} /\ plan.period = NoPeriod
    /\ planJobs # {} => plan.active
    /\ stale => Cardinality({q \in AiRequests : aiRequest[q].pc # "idle"}) <= 1
    /\ Cardinality({q \in AiRequests : aiRequest[q].pc # "idle" /\ aiRequest[q].plan # plan}) <= 1

\* At most two mishaps, and one of them an overlap only while it is about
\* two resumes, or goes on; the others happen to two resumes.
FewMishaps ==
    /\ Cardinality(wanted) <= 1
    /\ created > 2 => halfDeleted \union editedUnder = {}
    /\ Cardinality(overlapped) + Cardinality(editedUnder) + 2 * Cardinality(halfDeleted) <= 2
    /\ overlapped # {} => created <= 2 \/ Running # {}

\* The rival's rows only contend for a host; a company in doubt is followed
\* while no sync and no page is about.
OneLogo ==
    /\ row[rival].source \in {"none", "site_host", "shared"}
    /\ row[rival].status = "untried" /\ alias[rival] = "absent"
    /\ placeholder # rival
    /\ sync.phase # "idle" => sync.company # rival
    /\ doubt # {} => sync.phase = "idle" /\ placeholder = NoCompany

\* Results made side by side, or of a deleted resume, are two.
FewResults == entangled => begun <= 2

HeldNew == {q \in Registrars : registering[q] # NothingHeld /\ registering[q].row = 0}

\* Something is done to a source that is there.
Naming ==
    \/ confirming # NothingHeld
    \/ \E q \in Registrars : registering[q] # NothingHeld /\ registering[q].row # 0
    \/ \E i \in SourceIds : There(i) /\ (source[i].from # "placeholder" \/ source[i].by = "admin")

\* Either two URLs become sources, for every adapter, or one source gets
\* its name, under one URL of one adapter: names do not depend on them.
FewSources ==
    /\ Cardinality({i \in SourceIds : There(i)}) + Cardinality(HeldNew) <= MaxSources
    /\ Naming =>
          /\ keyed = Spelled /\ HeldNew = {} /\ \A i \in SourceIds \ {1} : ~There(i)
          /\ There(1) => source[1].url = [host |-> "board", odd |-> FALSE, page |-> "board"]

Bounded == FewCredits /\ FewMishaps /\ OneLogo /\ FewResults /\ FewSources

\* Jobs, sources and postings are named alike, and so are requests: in a
\* behaviour of one part each name has one meaning.  Two names are
\* interchangeable.
Symmetry == Permutations(CreditJobs) \union Permutations(AiRequests)
=============================================================================
