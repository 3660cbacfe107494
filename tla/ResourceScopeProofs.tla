-------------------------- MODULE ResourceScopeProofs --------------------------
(***************************************************************************)
(* Proofs about ResourceScope, for any inventories and kinds, whatever is  *)
(* registered, served and discovered, and however often.                   *)
(***************************************************************************)
EXTENDS ResourceScope, TLAPS

-----------------------------------------------------------------------------
(* Types *)

LEMMA ScopeTypeInit == ScopeInit => ScopeTypeOK
  <1> SUFFICES ASSUME ScopeInit PROVE ScopeTypeOK
    OBVIOUS
  <1>1. (CHOOSE k \in ScopeKinds : TRUE) \in ScopeKinds
    BY ScopeNamesAssumption
  <1>2. user \in [ScopeUsers -> User]
    BY <1>1 DEF ScopeInit, User
  <1> QED BY <1>2, ScopeNamesAssumption, ScopeBoundsAssumption DEF ScopeInit, ScopeTypeOK, Unknown

LEMMA ScopeTypeNext == ScopeTypeOK /\ [ScopeNext]_scopeVars => ScopeTypeOK'
  <1> SUFFICES ASSUME ScopeTypeOK, [ScopeNext]_scopeVars PROVE ScopeTypeOK'
    OBVIOUS
  <1> USE DEF ScopeTypeOK, scopeWorld
  <1>1. CASE UNCHANGED scopeVars
    BY <1>1 DEF scopeVars
  <1>2. CASE Serve
    BY <1>2, ScopeBoundsAssumption DEF Serve, Scopes
  <1>3. ASSUME NEW u \in ScopeUsers, TakeObject(u) PROVE ScopeTypeOK'
    <2> PICK kind \in ScopeKinds, named \in BOOLEAN :
           /\ user' = [user EXCEPT ![u] = [at |-> "ask", kind |-> kind, named |-> named, pass |-> "sanitize",
                                           fresh |-> FALSE, answer |-> Unknown, said |-> Unknown, failed |-> FALSE]]
           /\ steady' = [steady EXCEPT ![u] = served[kind] # Unknown]
      BY <1>3 DEF TakeObject
    <2>1. user' \in [ScopeUsers -> User]
      BY DEF User
    <2>2. writer # u
      BY <1>3 DEF TakeObject, Resting
    <2> QED BY <2>1, <2>2, <1>3 DEF TakeObject
  <1>4. ASSUME NEW u \in ScopeUsers, Ask(u) PROVE ScopeTypeOK'
    <2>1. user' \in [ScopeUsers -> User]
      <3>1. CASE user[u].kind \in DOMAIN StaticScopes
        <4>1. StaticScopes[user[u].kind] \in Scopes
          BY <3>1, StaticAssumption
        <4>2. user' = [user EXCEPT ![u].at = "answered", ![u].answer = StaticScopes[user[u].kind]]
          BY <3>1, <1>4 DEF Ask, Answer
        <4>3. [user[u] EXCEPT !.at = "answered", !.answer = StaticScopes[user[u].kind]] \in User
          BY <4>1, ZenonT(60) DEF User
        <4>4. user' = [user EXCEPT ![u] = [user[u] EXCEPT !.at = "answered", !.answer = StaticScopes[user[u].kind]]]
          BY <4>2
        <4> QED BY <4>3, <4>4
      <3>2. CASE user[u].kind \notin DOMAIN StaticScopes
        <4>1. PICK empty \in BOOLEAN :
                 user' = [user EXCEPT ![u].at = IF empty THEN "discover" ELSE "again", ![u].fresh = empty]
          BY <3>2, <1>4 DEF Ask
        <4>2. PICK at \in {"discover", "again"} : at = IF empty THEN "discover" ELSE "again"
          OBVIOUS
        <4>3. [user[u] EXCEPT !.at = at, !.fresh = empty] \in User
          BY ZenonT(60) DEF User
        <4>4. user' = [user EXCEPT ![u] = [user[u] EXCEPT !.at = at, !.fresh = empty]]
          BY <4>1, <4>2
        <4> QED BY <4>3, <4>4
      <3> QED BY <3>1, <3>2
    <2>2. writer # u
      BY <1>4 DEF Ask
    <2>3. \A v \in ScopeUsers : v # u => user'[v] = user[v]
      BY <1>4 DEF Ask, Answer
    <2> QED BY <2>1, <2>2, <2>3, <1>4 DEF Ask
  <1>5. ASSUME NEW u \in ScopeUsers, Lookup(u) PROVE ScopeTypeOK'
    <2>1. user' \in [ScopeUsers -> User]
      BY <1>5 DEF Lookup, Answer, User
    <2> QED BY <2>1, <1>5, ScopeNamesAssumption DEF Lookup
  <1>6. ASSUME NEW u \in ScopeUsers, LockScopes(u) PROVE ScopeTypeOK'
    BY <1>6 DEF LockScopes
  <1>7. ASSUME NEW u \in ScopeUsers, DiscoverScopes(u) PROVE ScopeTypeOK'
    <2>1. user' \in [ScopeUsers -> User]
      BY <1>7 DEF DiscoverScopes, Move, User
    <2>2. dynamic' \in [ScopeKinds -> Scopes \cup {Unknown}]
      BY <1>7 DEF DiscoverScopes, Discovered
    <2> QED BY <2>1, <2>2, <1>7, ScopeNamesAssumption DEF DiscoverScopes
  <1>8. ASSUME NEW u \in ScopeUsers, DiscoverFails(u) PROVE ScopeTypeOK'
    <2>1. user' \in [ScopeUsers -> User]
      <3>1. [user[u] EXCEPT !.at = "answered", !.failed = TRUE] \in User
        BY ZenonT(60) DEF User
      <3>2. user' = [user EXCEPT ![u] = [user[u] EXCEPT !.at = "answered", !.failed = TRUE]]
        BY <1>8 DEF DiscoverFails
      <3> QED BY <3>1, <3>2
    <2> QED BY <2>1, <1>8, ScopeNamesAssumption, ScopeBoundsAssumption DEF DiscoverFails
  <1>9. ASSUME NEW u \in ScopeUsers, Adjust(u) PROVE ScopeTypeOK'
    <2>1. Named(u) \in BOOLEAN
      BY DEF Named, User
    <2>2. user' \in [ScopeUsers -> User]
      BY <1>9, <2>1, SMTT(60) DEF Adjust, User
    <2>3. writer # u
      BY <1>9 DEF Adjust
    <2>4. \A v \in ScopeUsers : v # u => user'[v] = user[v]
      BY <1>9 DEF Adjust
    <2> QED BY <2>2, <2>3, <2>4, <1>9 DEF Adjust
  <1> QED BY <1>1, <1>2, <1>3, <1>4, <1>5, <1>6, <1>7, <1>8, <1>9 DEF ScopeNext, UserNext

\* Every reachable state of the scope maps and of the inventories that use them is well-typed, and
\* only an inventory that is discovering holds the mutex (initializeAPIResources, discoverAPIResources).
THEOREM ScopeTypeCorrect == ScopeSpec => []ScopeTypeOK
  BY ScopeTypeInit, ScopeTypeNext, PTL DEF ScopeSpec

-----------------------------------------------------------------------------
(* Answers *)

\* What the map says has been true.
MapSound == \A k \in ScopeKinds : served[k] \in truths[k] /\ dynamic[k] \in truths[k]

\* An inventory that asks for a kind that stays served finds it once it has discovered the API.
Finds(u) ==
    /\ steady[u] => served[user[u].kind] # Unknown
    /\ user[u].at = "discover" => user[u].fresh
    /\ user[u].at = "again" /\ user[u].fresh /\ steady[u] => dynamic[user[u].kind] # Unknown
    /\ user[u].at # "answered" => user[u].answer = Unknown

ScopesInv == ScopeTypeOK /\ MapSound /\ (\A u \in ScopeUsers : Finds(u)) /\ ScopesFound

LEMMA ScopesInvInit == ScopeInit => ScopesInv
  <1> SUFFICES ASSUME ScopeInit PROVE ScopesInv
    OBVIOUS
  <1>1. ScopeTypeOK
    BY ScopeTypeInit
  <1>2. MapSound
    BY DEF ScopeInit, MapSound
  <1>3. \A u \in ScopeUsers : user[u].at = "idle" /\ user[u].answer = Unknown /\ ~steady[u]
    BY DEF ScopeInit
  <1> QED BY <1>1, <1>2, <1>3 DEF ScopesInv, Finds, ScopesFound

\* Whoever does something to the map, it stays sound, and what it knows it does not forget.
LEMMA MapSoundNext == ScopesInv /\ ScopeNext => MapSound' /\ (\A k \in ScopeKinds : dynamic[k] # Unknown => dynamic'[k] # Unknown)
                                                /\ (\A k \in ScopeKinds : truths[k] \subseteq truths'[k])
  <1> SUFFICES ASSUME ScopesInv, ScopeNext
               PROVE MapSound' /\ (\A k \in ScopeKinds : dynamic[k] # Unknown => dynamic'[k] # Unknown)
                     /\ (\A k \in ScopeKinds : truths[k] \subseteq truths'[k])
    OBVIOUS
  <1> USE DEF ScopesInv, ScopeTypeOK, MapSound, scopeWorld
  <1>1. CASE Serve
    <2> PICK k \in ScopeKinds, scope \in Scopes \cup {Unknown} :
           /\ served' = [served EXCEPT ![k] = scope]
           /\ truths' = [truths EXCEPT ![k] = @ \cup {scope}]
      BY <1>1 DEF Serve
    <2> QED BY <1>1 DEF Serve
  <1>2. ASSUME NEW u \in ScopeUsers, DiscoverScopes(u)
        PROVE MapSound' /\ (\A k \in ScopeKinds : dynamic[k] # Unknown => dynamic'[k] # Unknown)
              /\ (\A k \in ScopeKinds : truths[k] \subseteq truths'[k])
    BY <1>2 DEF DiscoverScopes, Discovered
  <1>3. ASSUME NEW u \in ScopeUsers,
               TakeObject(u) \/ Ask(u) \/ Lookup(u) \/ LockScopes(u) \/ DiscoverFails(u) \/ Adjust(u)
        PROVE UNCHANGED <<served, truths, dynamic>>
    BY <1>3 DEF TakeObject, Ask, Lookup, LockScopes, DiscoverFails, Adjust
  <1> QED BY <1>1, <1>2, <1>3 DEF ScopeNext, UserNext

\* An inventory that does nothing keeps what it has, whatever the others do.
LEMMA Rests ==
  ASSUME ScopesInv, ScopeNext, NEW v \in ScopeUsers,
         user'[v] = user[v], steady'[v] => steady[v] /\ served'[user[v].kind] # Unknown
  PROVE  Finds(v)' /\ (user'[v].at = "answered" =>
                          IF user'[v].answer = Unknown THEN MayBeUnknown(v)' ELSE OnceTrue(v)')
  <1> user[v].kind \in ScopeKinds
    BY DEF ScopesInv, ScopeTypeOK, User
  <1>1. Finds(v)'
    BY MapSoundNext DEF ScopesInv, Finds
  <1>2. ASSUME user'[v].at = "answered"
        PROVE IF user'[v].answer = Unknown THEN MayBeUnknown(v)' ELSE OnceTrue(v)'
    BY <1>2, MapSoundNext DEF ScopesInv, ScopesFound, MayBeUnknown, OnceTrue
  <1> QED BY <1>1, <1>2

LEMMA ScopesInvNext == ScopesInv /\ [ScopeNext]_scopeVars => ScopesInv'
  <1> SUFFICES ASSUME ScopesInv, [ScopeNext]_scopeVars PROVE ScopesInv'
    OBVIOUS
  <1> DEFINE Right(v) == user[v].at = "answered" =>
                            IF user[v].answer = Unknown THEN MayBeUnknown(v) ELSE OnceTrue(v)
  <1>1. CASE UNCHANGED scopeVars
    BY <1>1 DEF scopeVars, ScopesInv, ScopeTypeOK, MapSound, Finds, ScopesFound, MayBeUnknown, OnceTrue
  <1>2. ASSUME ScopeNext, \A v \in ScopeUsers : Finds(v)' /\ Right(v)' PROVE ScopesInv'
    BY <1>2, ScopeTypeNext, MapSoundNext DEF ScopesInv, ScopesFound
  <1>3. CASE Serve
    <2>1. ASSUME NEW v \in ScopeUsers PROVE Finds(v)' /\ Right(v)'
      <3> PICK k \in ScopeKinds, scope \in Scopes \cup {Unknown} :
             /\ served' = [served EXCEPT ![k] = scope]
             /\ steady' = [u \in ScopeUsers |-> steady[u] /\ (user[u].kind = k => scope # Unknown)]
        BY <1>3 DEF Serve
      <3> user[v].kind \in ScopeKinds
        BY DEF ScopesInv, ScopeTypeOK, User
      <3>1. user'[v] = user[v] /\ (steady'[v] => steady[v] /\ served'[user[v].kind] # Unknown)
        BY <1>3 DEF Serve, ScopesInv, ScopeTypeOK, Finds
      <3> QED BY <3>1, <1>3, Rests DEF ScopeNext
    <2> QED BY <2>1, <1>2, <1>3 DEF ScopeNext
  <1>4. ASSUME NEW u \in ScopeUsers, UserNext(u) PROVE ScopesInv'
    <2>0. ScopeNext
      BY <1>4 DEF ScopeNext
    <2>1. ASSUME NEW v \in ScopeUsers, v # u PROVE Finds(v)' /\ Right(v)'
      <3>1. user'[v] = user[v] /\ (steady'[v] => steady[v] /\ served'[user[v].kind] # Unknown)
        BY <1>4, <2>1 DEF UserNext, TakeObject, Ask, Answer, Lookup, LockScopes, DiscoverScopes, Move,
                         DiscoverFails, Adjust, ScopesInv, ScopeTypeOK, Finds, scopeWorld
      <3> QED BY <3>1, <2>0, Rests
    <2>2. Finds(u)' /\ Right(u)'
      <3> user[u].kind \in ScopeKinds
        BY DEF ScopesInv, ScopeTypeOK, User
      <3>1. CASE TakeObject(u)
        <4> PICK kind \in ScopeKinds, named \in BOOLEAN :
               /\ user' = [user EXCEPT ![u] = [at |-> "ask", kind |-> kind, named |-> named, pass |-> "sanitize",
                                        fresh |-> FALSE, answer |-> Unknown, said |-> Unknown, failed |-> FALSE]]
               /\ steady' = [steady EXCEPT ![u] = served[kind] # Unknown]
          BY <3>1 DEF TakeObject
        <4>1. user'[u].at = "ask" /\ user'[u].kind = kind /\ steady'[u] = (served[kind] # Unknown) /\ served' = served
              /\ user'[u].answer = Unknown
          BY <3>1 DEF TakeObject, scopeWorld, ScopesInv, ScopeTypeOK
        <4> QED BY <4>1 DEF Finds
      <3>2. CASE Ask(u)
        <4>0. UNCHANGED <<served, truths, steady>>
          BY <3>2 DEF Ask, scopeWorld
        <4>1. CASE user[u].kind \in DOMAIN StaticScopes
          <5>1. user'[u].at = "answered" /\ user'[u].kind = user[u].kind
                /\ user'[u].answer = StaticScopes[user[u].kind]
            BY <3>2, <4>1 DEF Ask, Answer, ScopesInv, ScopeTypeOK, User
          <5>2. user'[u].answer # Unknown
            BY <5>1, <4>1, StaticAssumption DEF Scopes, Unknown
          <5> QED BY <5>1, <5>2, <4>0, <4>1 DEF ScopesInv, Finds, OnceTrue
        <4>2. CASE user[u].kind \notin DOMAIN StaticScopes
          <5> PICK empty \in BOOLEAN :
                 user' = [user EXCEPT ![u].at = IF empty THEN "discover" ELSE "again", ![u].fresh = empty]
            BY <3>2, <4>2 DEF Ask
          <5>1. user'[u].at = (IF empty THEN "discover" ELSE "again") /\ user'[u].fresh = empty
                /\ user'[u].kind = user[u].kind /\ user'[u].answer = user[u].answer
            BY DEF ScopesInv, ScopeTypeOK, User
          <5>2. user[u].answer = Unknown
            BY <3>2 DEF Ask, ScopesInv, Finds
          <5>3. CASE empty
            <6>1. user'[u].at = "discover" /\ user'[u].fresh = TRUE
              BY <5>1, <5>3
            <6> QED BY <6>1, <5>1, <5>2, <4>0 DEF ScopesInv, Finds
          <5>4. CASE ~empty
            BY <5>4, <5>1, <5>2, <4>0 DEF ScopesInv, Finds
          <5> QED BY <5>3, <5>4
        <4> QED BY <4>1, <4>2
      <3>3. CASE Lookup(u)
        <4>0. UNCHANGED <<served, truths, steady, dynamic>> /\ user[u].at = "again"
          BY <3>3 DEF Lookup, scopeWorld
        <4>1. CASE dynamic[user[u].kind] = Unknown /\ Rediscovers(u)
          <5>1. user' = [user EXCEPT ![u].at = "discover", ![u].fresh = TRUE]
            BY <3>3, <4>1 DEF Lookup
          <5>2. user'[u].at = "discover" /\ user'[u].fresh /\ user'[u].kind = user[u].kind
                /\ user'[u].answer = user[u].answer
            BY <5>1 DEF ScopesInv, ScopeTypeOK, User
          <5>3. user[u].answer = Unknown
            BY <4>0 DEF ScopesInv, Finds
          <5> QED BY <5>2, <5>3, <4>0 DEF ScopesInv, Finds
        <4>2. CASE ~(dynamic[user[u].kind] = Unknown /\ Rediscovers(u))
          <5>1. user' = [user EXCEPT ![u].at = "answered", ![u].answer = dynamic[user[u].kind]]
            BY <3>3, <4>2 DEF Lookup, Answer
          <5>2. user'[u].at = "answered" /\ user'[u].answer = dynamic[user[u].kind]
                /\ user'[u].kind = user[u].kind
            BY <5>1 DEF ScopesInv, ScopeTypeOK, User
          <5>3. dynamic[user[u].kind] = Unknown => ~steady[u]
            BY <4>0, <4>2 DEF ScopesInv, Finds, Rediscovers
          <5> QED BY <5>2, <5>3, <4>0 DEF ScopesInv, Finds, MapSound, MayBeUnknown, OnceTrue
        <4> QED BY <4>1, <4>2
      <3>4. CASE LockScopes(u)
        BY <3>4 DEF LockScopes, scopeWorld, ScopesInv, Finds
      <3>5. CASE DiscoverScopes(u)
        <4>1. user'[u].at = "again" /\ user'[u].kind = user[u].kind /\ user'[u].answer = user[u].answer
              /\ UNCHANGED <<served, truths, steady>>
          BY <3>5 DEF DiscoverScopes, Move, scopeWorld, ScopesInv, ScopeTypeOK, User
        <4>2. served[user[u].kind] # Unknown => dynamic'[user[u].kind] # Unknown
          BY <3>5 DEF DiscoverScopes, Discovered
        <4>3. user[u].answer = Unknown
          BY <3>5 DEF DiscoverScopes, ScopesInv, ScopeTypeOK, Finds
        <4> QED BY <4>1, <4>2, <4>3 DEF ScopesInv, Finds
      <3>6. CASE DiscoverFails(u)
        <4>1. user' = [user EXCEPT ![u].at = "answered", ![u].failed = TRUE]
          BY <3>6 DEF DiscoverFails
        <4>2. user'[u].at = "answered" /\ user'[u].failed /\ user'[u].kind = user[u].kind
              /\ user'[u].answer = user[u].answer
          BY <4>1 DEF ScopesInv, ScopeTypeOK, User
        <4>3. user[u].answer = Unknown
          BY <3>6 DEF DiscoverFails, ScopesInv, ScopeTypeOK, Finds
        <4> QED BY <4>2, <4>3, <3>6 DEF DiscoverFails, scopeWorld, ScopesInv, Finds, MayBeUnknown
      <3>7. CASE Adjust(u)
        <4> DEFINE again == user[u].pass = "sanitize"
        <4>1. /\ user' = [user EXCEPT ![u].named = Named(u), ![u].at = IF again THEN "ask" ELSE "idle",
                     ![u].pass = "ensure", ![u].fresh = FALSE, ![u].answer = Unknown,
                     ![u].said = IF again THEN user[u].answer ELSE Unknown, ![u].failed = FALSE]
              /\ steady' = [steady EXCEPT ![u] = IF again THEN served[user[u].kind] # Unknown ELSE FALSE]
              /\ served' = served
          BY <3>7 DEF Adjust, scopeWorld
        <4>2. user'[u].at # "answered" /\ user'[u].at # "discover" /\ user'[u].at # "again"
              /\ user'[u].answer = Unknown /\ user'[u].kind = user[u].kind
              /\ (steady'[u] => served[user[u].kind] # Unknown)
          BY <4>1 DEF ScopesInv, ScopeTypeOK, User
        <4> QED BY <4>1, <4>2 DEF Finds
      <3> QED BY <1>4, <3>1, <3>2, <3>3, <3>4, <3>5, <3>6, <3>7 DEF UserNext
    <2> QED BY <2>0, <2>1, <2>2, <1>2
  <1> QED BY <1>1, <1>3, <1>4 DEF ScopeNext

\* Whoever discovers what in between, an answer has been true once, and a kind that is served is found
\* (IsClusterScoped, initializeAPIResources, discoverAPIResources).
THEOREM ScopesFoundCorrect == ScopeSpec => []ScopesFound
  <1>1. ScopesInv => ScopesFound
    BY DEF ScopesInv
  <1> QED BY <1>1, ScopesInvInit, ScopesInvNext, PTL DEF ScopeSpec

-----------------------------------------------------------------------------
(* Namespaces *)

\* What the first pass of PrepareDesiredObjects did is still there in the second.
Dropped(u) == user[u].pass = "ensure" /\ user[u].said = "cluster" => ~user[u].named

PlacedInv == ScopeTypeOK /\ \A u \in ScopeUsers : Dropped(u)

LEMMA PlacedInvInit == ScopeInit => PlacedInv
  <1> SUFFICES ASSUME ScopeInit PROVE PlacedInv
    OBVIOUS
  <1>1. \A u \in ScopeUsers : user[u].named = FALSE
    BY DEF ScopeInit
  <1> QED BY <1>1, ScopeTypeInit DEF PlacedInv, Dropped

\* An inventory works on its own object only.
LEMMA Alone ==
  ASSUME ScopeTypeOK, NEW u \in ScopeUsers, NEW v \in ScopeUsers, u # v, UserNext(u)
  PROVE  user'[v] = user[v]
  BY DEF UserNext, TakeObject, Ask, Answer, Lookup, LockScopes, DiscoverScopes, Move, DiscoverFails, Adjust,
         ScopeTypeOK

LEMMA PlacedInvNext == PlacedInv /\ [ScopeNext]_scopeVars => PlacedInv'
  <1> SUFFICES ASSUME PlacedInv, [ScopeNext]_scopeVars PROVE PlacedInv'
    OBVIOUS
  <1>1. ScopeTypeOK'
    BY ScopeTypeNext DEF PlacedInv
  <1>2. ASSUME NEW v \in ScopeUsers PROVE Dropped(v)'
    <2>1. CASE user'[v] = user[v]
      BY <2>1 DEF PlacedInv, Dropped
    <2>2. CASE TakeObject(v)
      BY <2>2 DEF TakeObject, PlacedInv, ScopeTypeOK, Dropped, Unknown
    <2>3. CASE Ask(v) \/ Lookup(v) \/ DiscoverScopes(v) \/ DiscoverFails(v)
      <3>1. user'[v].pass = user[v].pass /\ user'[v].said = user[v].said /\ user'[v].named = user[v].named
        <4>1. CASE Ask(v)
          <5>1. CASE user[v].kind \in DOMAIN StaticScopes
            BY <4>1, <5>1 DEF Ask, Answer, PlacedInv, ScopeTypeOK, User
          <5>2. CASE user[v].kind \notin DOMAIN StaticScopes
            <6> PICK empty \in BOOLEAN :
                  user' = [user EXCEPT ![v].at = IF empty THEN "discover" ELSE "again", ![v].fresh = empty]
              BY <4>1, <5>2 DEF Ask
            <6> QED BY DEF PlacedInv, ScopeTypeOK, User
          <5> QED BY <5>1, <5>2
        <4>2. CASE Lookup(v)
          BY <4>2 DEF Lookup, Answer, PlacedInv, ScopeTypeOK, User
        <4>3. CASE DiscoverScopes(v)
          BY <4>3 DEF DiscoverScopes, Move, PlacedInv, ScopeTypeOK, User
        <4>4. CASE DiscoverFails(v)
          BY <4>4 DEF DiscoverFails, PlacedInv, ScopeTypeOK, User
        <4> QED BY <2>3, <4>1, <4>2, <4>3, <4>4
      <3> QED BY <3>1 DEF PlacedInv, Dropped
    <2>4. CASE Adjust(v)
      <3>1. user'[v].said = (IF user[v].pass = "sanitize" THEN user[v].answer ELSE Unknown)
            /\ user'[v].named = Named(v)
        BY <2>4 DEF Adjust, PlacedInv, ScopeTypeOK, User
      <3> QED BY <3>1 DEF Dropped, Named, Unknown
    <2>5. user'[v] = user[v] \/ UserNext(v)
      <3>1. CASE UNCHANGED scopeVars \/ Serve
        BY <3>1 DEF scopeVars, Serve
      <3>2. ASSUME NEW u \in ScopeUsers, UserNext(u), u # v PROVE user'[v] = user[v]
        BY <3>2, Alone DEF PlacedInv
      <3> QED BY <3>1, <3>2 DEF ScopeNext
    <2>6. CASE LockScopes(v)
      BY <2>1, <2>6 DEF LockScopes
    <2> QED BY <2>1, <2>2, <2>3, <2>4, <2>5, <2>6 DEF UserNext
  <1> QED BY <1>1, <1>2 DEF PlacedInv

\* When both passes are told the truth, the object ends with a namespace if and only if its kind is
\* namespaced (sanitizeDesiredObjects and ensureNamespace).
THEOREM WellPlacedCorrect == ScopeSpec => WellPlaced
  <1>1. ASSUME PlacedInv, [ScopeNext]_scopeVars, NEW v \in ScopeUsers,
               user[v].at = "answered", user'[v].at = "idle", user[v].said = user[v].answer,
               user[v].answer = served[user[v].kind], user[v].answer # Unknown
        PROVE  user'[v].named = (served[user[v].kind] = "namespaced")
    <2>1. Adjust(v)
      <3>1. CASE UNCHANGED scopeVars \/ Serve
        BY <1>1, <3>1 DEF scopeVars, Serve
      <3>2. ASSUME NEW u \in ScopeUsers, UserNext(u), u # v PROVE FALSE
        <4>1. user'[v] = user[v]
          BY <3>2, <1>1, Alone DEF PlacedInv
        <4> QED BY <4>1, <1>1
      <3>3. ASSUME UserNext(v) PROVE Adjust(v)
        BY <3>3, <1>1 DEF UserNext, TakeObject, Resting, Ask, Lookup, LockScopes, DiscoverScopes, DiscoverFails,
                          PlacedInv, ScopeTypeOK
      <3> QED BY <1>1, <3>1, <3>2, <3>3 DEF ScopeNext
    <2>2. user'[v].named = Named(v) /\ user[v].pass = "ensure"
      BY <2>1, <1>1 DEF Adjust, PlacedInv, ScopeTypeOK, User
    <2>3. user[v].answer \in Scopes /\ user[v].named \in BOOLEAN
      BY <1>1 DEF PlacedInv, ScopeTypeOK, User
    <2>4. CASE user[v].answer = "cluster"
      <3>1. user'[v].named = user[v].named
        BY <2>2, <2>4 DEF Named
      <3>2. ~user[v].named
        BY <2>2, <2>4, <1>1 DEF PlacedInv, Dropped
      <3> QED BY <3>1, <3>2, <2>3, <2>4, <1>1
    <2>5. CASE user[v].answer = "namespaced"
      BY <2>2, <2>5, <1>1 DEF Named
    <2> QED BY <2>3, <2>4, <2>5 DEF Scopes
  <1>2. PlacedInv /\ [ScopeNext]_scopeVars
        => [\A u \in ScopeUsers :
              /\ user[u].at = "answered" /\ user'[u].at = "idle"
              /\ user[u].said = user[u].answer /\ user[u].answer = served[user[u].kind]
              /\ user[u].answer # Unknown
              => user'[u].named = (served[user[u].kind] = "namespaced")]_scopeVars
    BY <1>1
  <1> QED BY <1>2, PlacedInvInit, PlacedInvNext, PTL DEF ScopeSpec, WellPlaced
=============================================================================
