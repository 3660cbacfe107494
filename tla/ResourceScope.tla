----------------------------- MODULE ResourceScope -----------------------------
(***************************************************************************)
(* Whether objects are namespaced or cluster scoped: the two process-wide  *)
(* maps of resource scopes, one registered by the operator and one that is *)
(* discovered from the API server when a kind is missing, and their use by *)
(* the inventories, which drop or add the namespaces of desired objects.   *)
(***************************************************************************)
EXTENDS Naturals

CONSTANTS
    ScopeUsers,      \* the inventories in use at the same time
    ScopeKinds,      \* the kinds of objects (group and kind)
    StaticScopes,    \* what AddStaticResourceScope registers: partial function to scopes
    MaxServed,       \* bound: changes of what the API server serves
    MaxDiscoveryFaults  \* bound: failed discoveries

Scopes == {"namespaced", "cluster"}
Unknown == "unknown"

ASSUME StaticAssumption == DOMAIN StaticScopes \subseteq ScopeKinds /\ \A k \in DOMAIN StaticScopes : StaticScopes[k] \in Scopes
ASSUME ScopeNamesAssumption == ScopeKinds # {} /\ "none" \notin ScopeUsers
ASSUME ScopeBoundsAssumption == MaxServed \in Nat /\ MaxDiscoveryFaults \in Nat

VARIABLES
    served,       \* per kind, the scope it is served with, or Unknown
    dynamic,      \* dynamicResourceScope
    writer,       \* who holds the mutex to write, or "none"
    user,         \* per inventory, the object it works on
    steady,       \* history: whether the kind in question has been served since the question was asked
    truths,       \* history: the scopes each kind has ever been served with
    servedSpent, discoverySpent

scopeVars == <<served, dynamic, writer, user, steady, truths, servedSpent, discoverySpent>>
scopeWorld == <<served, truths, servedSpent>>

\* Where IsClusterScoped is; the object, its kind and whether it has a namespace; which of the two
\* passes it is in; whether the API has just been discovered; this pass's answer, the first one's, and
\* whether it stands for a discovery that failed.
User == [at : {"idle", "ask", "discover", "again", "answered"}, kind : ScopeKinds, named : BOOLEAN,
         pass : {"sanitize", "ensure"}, fresh : BOOLEAN, answer : Scopes \cup {Unknown},
         said : Scopes \cup {Unknown}, failed : BOOLEAN]
Resting(u) == user[u].at = "idle"

Move(u, at) == user' = [user EXCEPT ![u].at = at]
Answer(u, scope) == user' = [user EXCEPT ![u].at = "answered", ![u].answer = scope]

-----------------------------------------------------------------------------
(* IsClusterScoped *)

\* PrepareDesiredObjects takes up a desired object.
TakeObject(u) ==
    /\ Resting(u)
    /\ \E kind \in ScopeKinds, named \in BOOLEAN :
          /\ user' = [user EXCEPT ![u] = [at |-> "ask", kind |-> kind, named |-> named, pass |-> "sanitize",
                                       fresh |-> FALSE, answer |-> Unknown, said |-> Unknown,
                                       failed |-> FALSE]]
          /\ steady' = [steady EXCEPT ![u] = served[kind] # Unknown]
    /\ UNCHANGED <<scopeWorld, dynamic, writer, discoverySpent>>

\* A registered scope is never looked up.  Otherwise the API is discovered if the map is empty; this is
\* read without the mutex, and while somebody writes the map it may look either way.
Ask(u) ==
    /\ user[u].at = "ask"
    /\ IF user[u].kind \in DOMAIN StaticScopes THEN Answer(u, StaticScopes[user[u].kind])
       ELSE \E empty \in BOOLEAN :
              /\ writer = "none" => empty = (\A k \in ScopeKinds : dynamic[k] = Unknown)
              /\ user' = [user EXCEPT ![u].at = IF empty THEN "discover" ELSE "again", ![u].fresh = empty]
    /\ UNCHANGED <<scopeWorld, dynamic, writer, steady, discoverySpent>>

\* Mutant: a kind that is missing is not looked for again.
RediscoversBug(u) == FALSE

\* A kind that is missing is discovered, unless the API has been discovered just now.
Rediscovers(u) == ~user[u].fresh

\* getDynamicResourceScope waits for a writer.
Lookup(u) ==
    /\ user[u].at = "again" /\ writer = "none"
    /\ LET scope == dynamic[user[u].kind] IN
       IF scope = Unknown /\ Rediscovers(u)
       THEN user' = [user EXCEPT ![u].at = "discover", ![u].fresh = TRUE]
       ELSE Answer(u, scope)
    /\ UNCHANGED <<scopeWorld, dynamic, writer, steady, discoverySpent>>

LockScopes(u) ==
    /\ user[u].at = "discover" /\ writer = "none"
    /\ writer' = u
    /\ UNCHANGED <<scopeWorld, dynamic, user, steady, discoverySpent>>

\* A discovery adds to the map and overwrites; what is no longer served stays.
Discovered == [k \in ScopeKinds |-> IF served[k] # Unknown THEN served[k] ELSE dynamic[k]]

DiscoverScopes(u) ==
    /\ writer = u
    /\ dynamic' = Discovered /\ writer' = "none"
    /\ Move(u, "again")
    /\ UNCHANGED <<scopeWorld, steady, discoverySpent>>

\* The error is IsClusterScoped's; the object is passed over.
DiscoverFails(u) ==
    /\ writer = u
    /\ discoverySpent < MaxDiscoveryFaults /\ discoverySpent' = discoverySpent + 1
    /\ writer' = "none"
    /\ user' = [user EXCEPT ![u].at = "answered", ![u].failed = TRUE]
    /\ UNCHANGED <<scopeWorld, dynamic, steady>>

-----------------------------------------------------------------------------
(* sanitizeDesiredObjects, then ensureNamespace *)

\* Mutant: the second pass is forgotten.
NamedBug(u) == IF user[u].answer = "cluster" THEN FALSE ELSE user[u].named

\* Whether the object has a namespace after a pass: one is dropped from cluster scoped objects, then one
\* is given to namespaced objects; an unknown scope changes nothing.
Named(u) == CASE user[u].pass = "sanitize" /\ user[u].answer = "cluster" -> FALSE
              [] user[u].pass = "ensure" /\ user[u].answer = "namespaced" -> TRUE
              [] OTHER -> user[u].named

Adjust(u) ==
    /\ user[u].at = "answered"
    /\ LET again == user[u].pass = "sanitize" IN
       /\ user' = [user EXCEPT ![u].named = Named(u), ![u].at = IF again THEN "ask" ELSE "idle",
                     ![u].pass = "ensure", ![u].fresh = FALSE, ![u].answer = Unknown,
                     ![u].said = IF again THEN user[u].answer ELSE Unknown, ![u].failed = FALSE]
       /\ steady' = [steady EXCEPT ![u] = IF again THEN served[user[u].kind] # Unknown ELSE FALSE]
    /\ UNCHANGED <<scopeWorld, dynamic, writer, discoverySpent>>

-----------------------------------------------------------------------------
\* A definition is installed, removed, or installed again with another scope.
Serve ==
    /\ servedSpent < MaxServed /\ servedSpent' = servedSpent + 1
    /\ \E k \in ScopeKinds, scope \in Scopes \cup {Unknown} :
          /\ served' = [served EXCEPT ![k] = scope]
          /\ truths' = [truths EXCEPT ![k] = @ \cup {scope}]
          /\ steady' = [u \in ScopeUsers |-> steady[u] /\ (user[u].kind = k => scope # Unknown)]
    /\ UNCHANGED <<dynamic, writer, user, discoverySpent>>

ScopeInit ==
    /\ served = [k \in ScopeKinds |-> Unknown]
    /\ dynamic = [k \in ScopeKinds |-> Unknown]
    /\ writer = "none"
    /\ user = [u \in ScopeUsers |-> [at |-> "idle", kind |-> CHOOSE k \in ScopeKinds : TRUE,
                  named |-> FALSE, pass |-> "ensure", fresh |-> FALSE, answer |-> Unknown,
                  said |-> Unknown, failed |-> FALSE]]
    /\ steady = [u \in ScopeUsers |-> FALSE]
    /\ truths = [k \in ScopeKinds |-> {Unknown}]
    /\ servedSpent = 0 /\ discoverySpent = 0

UserNext(u) == TakeObject(u) \/ Ask(u) \/ Lookup(u) \/ LockScopes(u) \/ DiscoverScopes(u)
               \/ DiscoverFails(u) \/ Adjust(u)

ScopeNext == Serve \/ \E u \in ScopeUsers : UserNext(u)

ScopeSpec == ScopeInit /\ [][ScopeNext]_scopeVars

-----------------------------------------------------------------------------
(* Correctness *)

\* Every variable has its type; who writes has the mutex for a discovery of its own.
ScopeTypeOK ==
    /\ served \in [ScopeKinds -> Scopes \cup {Unknown}] /\ dynamic \in [ScopeKinds -> Scopes \cup {Unknown}]
    /\ writer \in ScopeUsers \cup {"none"} /\ user \in [ScopeUsers -> User]
    /\ steady \in [ScopeUsers -> BOOLEAN]
    /\ truths \in [ScopeKinds -> SUBSET (Scopes \cup {Unknown})]
    /\ servedSpent \in 0 .. MaxServed /\ discoverySpent \in 0 .. MaxDiscoveryFaults
    /\ \A u \in ScopeUsers : writer = u => user[u].at = "discover"

\* The answer is a scope the operator registered or the kind has been served with.
OnceTrue(u) == user[u].kind \in DOMAIN StaticScopes \/ user[u].answer \in truths[user[u].kind]

\* A discovery has failed, or the kind has not been served all the time since the question was asked.
MayBeUnknown(u) == user[u].failed \/ ~steady[u]

\* Whoever discovers what in between, an answer has been true once, if not now, and a kind that is
\* served is found (IsClusterScoped, initializeAPIResources, discoverAPIResources).
ScopesFound == \A u \in ScopeUsers : user[u].at = "answered" =>
                  IF user[u].answer = Unknown THEN MayBeUnknown(u) ELSE OnceTrue(u)

\* When both passes are told the truth, the object ends with a namespace if and only if its kind is
\* namespaced (sanitizeDesiredObjects and ensureNamespace).
WellPlaced == [][\A u \in ScopeUsers :
                    /\ user[u].at = "answered" /\ user'[u].at = "idle"
                    /\ user[u].said = user[u].answer /\ user[u].answer = served[user[u].kind]
                    /\ user[u].answer # Unknown
                    => user'[u].named = (served[user[u].kind] = "namespaced")]_scopeVars
=============================================================================
