------------------------------ MODULE TokenSecret ------------------------------
(***************************************************************************)
(* The secret getter: the token and the CA certificate of a service        *)
(* account, from a secret that the getter creates when there is none and   *)
(* that Kubernetes fills.  Several callers ask for the same account.       *)
(***************************************************************************)
EXTENDS Naturals

CONSTANTS
    TokenCallers,     \* who calls Get
    TokenSteps,       \* the steps of the backoff: polls after a creation
    MaxUpheavals,     \* bound: changes of the account and deletions of secrets
    MaxTokenFaults    \* bound: failed API calls

ASSUME TokenStepsAssumption == TokenSteps \in Nat \ {0}
ASSUME TokenBoundsAssumption == MaxUpheavals \in Nat /\ MaxTokenFaults \in Nat

\* The secret that an account lists first, and the one named after an account that lists none.
SecretNames == {"listed", "own"}
\* What a secret may hold: nothing yet, a token, a token and a certificate; one that is not annotated
\* with the account is nobody's.
Contents == {"no", "empty", "token", "complete", "nobodys"}
Held(content) == IF content \in {"token", "complete"} THEN content ELSE "empty"

VARIABLES
    account,       \* the service account: none, or the secret whose name it leads to
    secrets,       \* per name, the secret's content
    get,           \* per caller, its Get
    got,           \* per caller, how its last Get ended: an error, or what was in the secret
    upheavals, tokenFaults

tokenVars == <<account, secrets, get, got, upheavals, tokenFaults>>
tokenWorld == <<account, secrets, upheavals>>

\* The secret's name, whether this call has created it, and the polls left.
Get == [at : {"idle", "account", "fetch", "create", "wait"}, name : SecretNames, created : BOOLEAN,
        left : 0 .. TokenSteps]
Asleep == [at |-> "idle", name |-> "own", created |-> FALSE, left |-> 0]

TokenFault == tokenFaults < MaxTokenFaults /\ tokenFaults' = tokenFaults + 1
NoTokenFault == UNCHANGED tokenFaults

EndGet(c, result) == get' = [get EXCEPT ![c] = Asleep] /\ got' = [got EXCEPT ![c] = result]
Step(c, changed) == get' = [get EXCEPT ![c] = changed] /\ UNCHANGED got

-----------------------------------------------------------------------------
StartGet(c) ==
    /\ get[c].at = "idle" /\ Step(c, [Asleep EXCEPT !.at = "account"])
    /\ UNCHANGED tokenWorld /\ NoTokenFault

\* getReaderSecretServiceAccount
ReadAccount(c) ==
    /\ get[c].at = "account"
    /\ \/ account = "none" /\ EndGet(c, "error") /\ NoTokenFault
       \/ account # "none" /\ Step(c, [get[c] EXCEPT !.at = "fetch", !.name = account]) /\ NoTokenFault
       \/ TokenFault /\ EndGet(c, "error")
    /\ UNCHANGED tokenWorld

\* A secret that is found is the answer, whatever is in it, and so is an empty one when it cannot be read.
FetchSecret(c) ==
    /\ get[c].at = "fetch"
    /\ \/ secrets[get[c].name] = "no" /\ Step(c, [get[c] EXCEPT !.at = "create"]) /\ NoTokenFault
       \/ secrets[get[c].name] # "no" /\ EndGet(c, Held(secrets[get[c].name])) /\ NoTokenFault
       \/ TokenFault /\ EndGet(c, "empty")
    /\ UNCHANGED tokenWorld

\* Mutant: the secret is not annotated with the account.
NewSecretBug == "nobodys"

NewSecret == "empty"

StoreSecret(name) == secrets[name] = "no" /\ secrets' = [secrets EXCEPT ![name] = NewSecret]

\* Somebody else may have created it meanwhile: an error.  So is an answer that is lost.
CreateSecret(c) ==
    /\ get[c].at = "create"
    /\ \/ /\ StoreSecret(get[c].name) /\ NoTokenFault
          /\ Step(c, [get[c] EXCEPT !.at = "wait", !.created = TRUE, !.left = TokenSteps])
       \/ secrets[get[c].name] # "no" /\ EndGet(c, "error") /\ UNCHANGED secrets /\ NoTokenFault
       \/ TokenFault /\ EndGet(c, "error") /\ (StoreSecret(get[c].name) \/ UNCHANGED secrets)
    /\ UNCHANGED <<account, upheavals>>

\* Mutant: a token is enough.
SatisfiesBug(content) == content \in {"token", "complete"}

Satisfies(content) == content = "complete"

\* waitAndGetReaderSecret: a secret that is not there is waited for, any other error ends the wait.
PollSecret(c) ==
    /\ get[c].at = "wait"
    /\ \/ /\ NoTokenFault
          /\ LET content == secrets[get[c].name] IN
             IF Satisfies(content) THEN EndGet(c, Held(content))
             ELSE IF get[c].left = 1 THEN EndGet(c, "error")
             ELSE Step(c, [get[c] EXCEPT !.left = @ - 1])
       \/ TokenFault /\ EndGet(c, "error")
    /\ UNCHANGED tokenWorld

-----------------------------------------------------------------------------
\* Kubernetes fills a secret of an account that exists; its certificate may come later.
FillSecret(name) ==
    /\ account # "none" /\ secrets[name] \in {"empty", "token"}
    /\ \E more \in {"token", "complete"} :
          more # secrets[name] /\ secrets' = [secrets EXCEPT ![name] = more]
    /\ UNCHANGED <<account, get, got, upheavals>> /\ NoTokenFault

Upheaval == upheavals < MaxUpheavals /\ upheavals' = upheavals + 1

\* The account is deleted and its secrets with it, comes, or lists another secret.
ChangeAccount ==
    /\ Upheaval
    /\ account' \in (SecretNames \cup {"none"}) \ {account}
    /\ secrets' = [n \in SecretNames |-> IF account' = "none" /\ secrets[n] # "nobodys" THEN "no" ELSE secrets[n]]
    /\ UNCHANGED <<get, got>> /\ NoTokenFault

DeleteSecret ==
    /\ Upheaval
    /\ \E n \in SecretNames : secrets[n] # "no" /\ secrets' = [secrets EXCEPT ![n] = "no"]
    /\ UNCHANGED <<account, get, got>> /\ NoTokenFault

TokenInit ==
    /\ account \in SecretNames \cup {"none"}
    /\ secrets = [n \in SecretNames |-> "no"]
    /\ get = [c \in TokenCallers |-> Asleep]
    /\ got = [c \in TokenCallers |-> "error"]
    /\ upheavals = 0 /\ tokenFaults = 0

TokenStep(c) == StartGet(c) \/ ReadAccount(c) \/ FetchSecret(c) \/ CreateSecret(c) \/ PollSecret(c)

TokenNext == (\E c \in TokenCallers : TokenStep(c)) \/ (\E n \in SecretNames : FillSecret(n))
             \/ ChangeAccount \/ DeleteSecret

\* Callers call again and again; Kubernetes fills secrets.
TokenFairness ==
    /\ \A c \in TokenCallers : WF_tokenVars(TokenStep(c))
    /\ \A n \in SecretNames : WF_tokenVars(FillSecret(n))

TokenSpec == TokenInit /\ [][TokenNext]_tokenVars /\ TokenFairness

-----------------------------------------------------------------------------
(* Correctness *)

\* A caller that has created the secret never succeeds with less than a token and a certificate; only
\* one that found it, or could not read it, may (waitAndGetReaderSecret).
CreatorsWait ==
    [][\A c \in TokenCallers :
          get[c].at # "idle" /\ get'[c].at = "idle" /\ get[c].created =>
              got'[c] \in {"error", "complete"}]_tokenVars

\* As long as the account stays, callers that ask again get the token and the certificate in the end,
\* whoever wins the race to create the secret (Get).
TokensArrive == <>[](account # "none" => \A c \in TokenCallers : got[c] = "complete")
=============================================================================
