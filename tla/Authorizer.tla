------------------------------ MODULE Authorizer ------------------------------
(***************************************************************************)
(* Who may use the agent: crates/omdesky-agent/src/authorize.rs.  A        *)
(* request is authorized when the Tailnet identity of its source address   *)
(* has an entry with the required capability in the allowlist.  Both facts *)
(* are cached, and both may change: Tailscale gives an address to another  *)
(* device, the user edits the allowlist with another process.              *)
(*                                                                         *)
(* identify reads the clock, and holds no lock while it waits for a permit *)
(* and for the lookup; allowlist reads the clock again, and holds the      *)
(* cache's mutex while it reads the file.  A request that is refused       *)
(* before it gets there (outside the Tailnet, rate limited) changes        *)
(* nothing here; the rate limiter has a module of its own.                 *)
(***************************************************************************)
EXTENDS Integers, FiniteSets

CONSTANTS Sources,           \* addresses
          Identities,        \* Tailnet node identities
          Handlers,          \* concurrent runs of authorize
          NoCall,            \* a handler that is free; also an empty cache
          IdentityTtl,       \* IDENTITY_CACHE_TTL
          IdentityCapacity,  \* IDENTITY_CACHE_CAPACITY
          AllowlistTtl,      \* ALLOWLIST_CACHE_TTL
          Permits,           \* MAX_CONCURRENT_IDENTITY_LOOKUPS
          MaxWait,           \* bound: from reading a clock to the end of its use
          MaxOutside,        \* bound: changes of the outside world
          MaxTime            \* bound: time

VARIABLES clock,
          whoIs,        \* Tailscale: the identity behind each address
          lastWas,      \* when an address last was an identity's
          allowed,      \* the file: identities granted the required capability
          lastAllowed,  \* when an identity last was in it
          outside,      \* changes of whoIs and allowed so far
          identities,   \* the cache: address -> [id, at]
          allowlist,    \* the cache: NoCall or [entries, at]
          call,         \* what each handler is doing
          decision      \* the last request authorized, and on how old facts

world == <<whoIs, lastWas, allowed, lastAllowed, outside>>
authorizerVars == <<clock, world, identities, allowlist, call, decision>>

Times == 0 .. MaxTime
Never == -1
Steps == {"cache", "queue", "lookup", "remember", "list", "store"}
Call == [step : Steps, source : Sources, now : Times,
         id : Identities \cup {NoCall}, entries : SUBSET Identities]

ASSUME NoCallAssumption ==
    NoCall \notin Call /\ NoCall \notin Identities
        /\ NoCall \notin [entries : SUBSET Identities, at : Times]
ASSUME ParameterAssumption ==
    /\ IsFiniteSet(Sources)
    /\ IdentityTtl \in Nat \ {0} /\ IdentityCapacity \in Nat /\ AllowlistTtl \in Nat \ {0}
    /\ Permits \in Nat /\ MaxWait \in Nat /\ MaxOutside \in Nat /\ MaxTime \in Nat

At(h, step) == call[h] # NoCall /\ call[h].step = step
Working(step, s, now, id, entries) ==
    [step |-> step, source |-> s, now |-> now, id |-> id, entries |-> entries]
Goto(h, c) == call' = [call EXCEPT ![h] = c]
Over(h) == Goto(h, NoCall)

-----------------------------------------------------------------------------
AuthorizerInit ==
    /\ clock = 0
    /\ whoIs \in [Sources -> Identities]
    /\ lastWas = [s \in Sources |-> [i \in Identities |-> Never]]
    /\ allowed \in SUBSET Identities
    /\ lastAllowed = [i \in Identities |-> Never]
    /\ outside = 0
    /\ identities = [s \in {} |-> 0]
    /\ allowlist = NoCall
    /\ call = [h \in Handlers |-> NoCall]
    /\ decision = NoCall

\* An address changes hands.
Reassign(s, i) ==
    /\ outside < MaxOutside /\ i # whoIs[s]
    /\ whoIs' = [whoIs EXCEPT ![s] = i]
    /\ lastWas' = [lastWas EXCEPT ![s][whoIs[s]] = clock]
    /\ outside' = outside + 1
    /\ UNCHANGED <<clock, allowed, lastAllowed, identities, allowlist, call, decision>>

\* `omdesky access allow' or `revoke' in another process.
ChangeEntry(i) ==
    /\ outside < MaxOutside
    /\ allowed' = IF i \in allowed THEN allowed \ {i} ELSE allowed \cup {i}
    /\ lastAllowed' = IF i \in allowed THEN [lastAllowed EXCEPT ![i] = clock]
                                       ELSE lastAllowed
    /\ outside' = outside + 1
    /\ UNCHANGED <<clock, whoIs, lastWas, identities, allowlist, call, decision>>

\* authenticate, past the rate limiter: identify reads the clock.
IdentifyBegin(h, s) ==
    /\ call[h] = NoCall
    /\ Goto(h, Working("cache", s, clock, NoCall, {}))
    /\ UNCHANGED <<clock, world, identities, allowlist, decision>>

CachedFor(s, now) ==
    s \in DOMAIN identities /\ now - identities[s].at < IdentityTtl

\* The cache answers, and allowlist reads the clock, or a lookup is needed.
LookUpCache(h) ==
    /\ At(h, "cache")
    /\ LET s == call[h].source
       IN IF CachedFor(s, call[h].now)
          THEN Goto(h, Working("list", s, clock, identities[s].id, {}))
          ELSE Goto(h, Working("queue", s, call[h].now, NoCall, {}))
    /\ UNCHANGED <<clock, world, identities, allowlist, decision>>

InLookup == {h \in Handlers : At(h, "lookup")}

AcquirePermit(h) ==
    /\ At(h, "queue")
    /\ Cardinality(InLookup) < Permits
    /\ Goto(h, Working("lookup", call[h].source, call[h].now, NoCall, {}))
    /\ UNCHANGED <<clock, world, identities, allowlist, decision>>

\* mesh.identify_source answers.
Resolve(h) ==
    /\ At(h, "lookup")
    /\ LET s == call[h].source
       IN Goto(h, Working("remember", s, call[h].now, whoIs[s], {}))
    /\ UNCHANGED <<clock, world, identities, allowlist, decision>>

(* A wait that takes IDENTITY_LOOKUP_TIMEOUT, a lookup that fails, an      *)
(* address nobody has, or a client that disconnects.                       *)
GiveUp(h) ==
    /\ call[h] # NoCall
    /\ Over(h)
    /\ UNCHANGED <<clock, world, identities, allowlist, decision>>

\* The cache is pruned only when it is full, and left alone when it stays so.
Pruned(now) ==
    IF Cardinality(DOMAIN identities) >= IdentityCapacity
    THEN {s \in DOMAIN identities : now - identities[s].at < IdentityTtl}
    ELSE DOMAIN identities
HasRoom(kept) == Cardinality(kept) < IdentityCapacity
\* An entry is as old as the request that made it, not as its insertion.
BadStamp(h) == clock
Stamp(h) == call[h].now

Remember(h) ==
    /\ At(h, "remember")
    /\ LET s == call[h].source
           kept == Pruned(call[h].now)
           entry == [id |-> call[h].id, at |-> Stamp(h)]
       IN /\ identities' =
                IF HasRoom(kept)
                THEN [t \in kept \cup {s} |-> IF t = s THEN entry ELSE identities[t]]
                ELSE [t \in kept |-> identities[t]]
          /\ Goto(h, Working("list", s, clock, call[h].id, {}))
    /\ UNCHANGED <<clock, world, allowlist, decision>>

-----------------------------------------------------------------------------
(* How long ago it was last true that i was behind s, and that i was       *)
(* allowed.                                                                *)
IdentityAge(s, i) == IF whoIs[s] = i THEN 0 ELSE clock - lastWas[s][i]
AllowedAge(i) == IF i \in allowed THEN 0 ELSE clock - lastAllowed[i]

Decide(h, entries) ==
    LET s == call[h].source
        i == call[h].id
    IN /\ decision' = IF i \in entries
                      THEN [identityAge |-> IdentityAge(s, i),
                            allowedAge |-> AllowedAge(i)]
                      ELSE decision
       /\ Over(h)

\* The mutex of the allowlist is free: nobody reads the file.
ListUnlocked == \A h \in Handlers : ~At(h, "store")

BadListFresh(now) == allowlist # NoCall
ListFresh(now) == allowlist # NoCall /\ now - allowlist.at < AllowlistTtl

AllowlistCached(h) ==
    /\ At(h, "list") /\ ListUnlocked
    /\ ListFresh(call[h].now)
    /\ Decide(h, allowlist.entries)
    /\ UNCHANGED <<clock, world, identities, allowlist>>

\* The file is read with the mutex held (access.list); GiveUp if that fails.
AllowlistRead(h) ==
    /\ At(h, "list") /\ ListUnlocked
    /\ ~ListFresh(call[h].now)
    /\ Goto(h, Working("store", call[h].source, call[h].now, call[h].id, allowed))
    /\ UNCHANGED <<clock, world, identities, allowlist, decision>>

ReadAt(h) == call[h].now

AllowlistStored(h) ==
    /\ At(h, "store")
    /\ allowlist' = [entries |-> call[h].entries, at |-> ReadAt(h)]
    /\ Decide(h, call[h].entries)
    /\ UNCHANGED <<clock, world, identities>>

\* Neither part of a request takes longer than MaxWait.
Tick ==
    /\ clock < MaxTime
    /\ \A h \in Handlers : call[h] # NoCall => clock - call[h].now < MaxWait
    /\ clock' = clock + 1
    /\ UNCHANGED <<world, identities, allowlist, call, decision>>

AuthorizerNext ==
    \/ \E s \in Sources, i \in Identities : Reassign(s, i)
    \/ \E i \in Identities : ChangeEntry(i)
    \/ \E h \in Handlers, s \in Sources : IdentifyBegin(h, s)
    \/ \E h \in Handlers :
          \/ LookUpCache(h) \/ AcquirePermit(h) \/ Resolve(h) \/ Remember(h)
          \/ AllowlistCached(h) \/ AllowlistRead(h) \/ AllowlistStored(h)
          \/ GiveUp(h)
    \/ Tick

AuthorizerSpec == AuthorizerInit /\ [][AuthorizerNext]_authorizerVars

-----------------------------------------------------------------------------
(* Correctness.                                                            *)

(* Types, and no cached fact is from the future.                           *)
AuthorizerTypeOK ==
    /\ clock \in Times
    /\ whoIs \in [Sources -> Identities]
    /\ lastWas \in [Sources -> [Identities -> Times \cup {Never}]]
    /\ allowed \subseteq Identities
    /\ lastAllowed \in [Identities -> Times \cup {Never}]
    /\ outside \in 0 .. MaxOutside
    /\ DOMAIN identities \subseteq Sources
    /\ \A s \in DOMAIN identities :
          identities[s].id \in Identities /\ identities[s].at \in 0 .. clock
    /\ allowlist \in [entries : SUBSET Identities, at : 0 .. clock] \cup {NoCall}
    /\ call \in [Handlers -> Call \cup {NoCall}]
    /\ decision \in [identityAge : Nat, allowedAge : Nat] \cup {NoCall}

(* The identity cache stays within IDENTITY_CACHE_CAPACITY, though many    *)
(* handlers look up concurrently and insert what they find in any order.   *)
IdentityCacheBounded == Cardinality(DOMAIN identities) <= IdentityCapacity

(* A device that has lost its address is authorized by it for no longer    *)
(* than the cache's lifetime and the time the request itself takes, even   *)
(* when slow lookups overwrite what faster ones have cached since.         *)
IdentityRecent ==
    decision # NoCall => decision.identityAge < IdentityTtl + 2 * MaxWait

(* "Changes take effect within a couple of seconds": a revoked device is   *)
(* authorized for no longer than ALLOWLIST_CACHE_TTL and the time the      *)
(* request waits for the allowlist, though the file is read behind the     *)
(* cache's mutex and dated by a clock read before it.                      *)
RevocationTakesEffect ==
    decision # NoCall => decision.allowedAge < AllowlistTtl + MaxWait
=============================================================================
