------------------------------ MODULE CertCache ------------------------------
(***************************************************************************)
(* The leaf certificates of the proxy's CA (mintCert, proxy/main.go) and   *)
(* the record of allowed requests (firstContact), the two maps every       *)
(* connection handler shares.  Neither is behind a lock: mintCert looks    *)
(* up, mints, reads the counter, stores and counts in five steps that      *)
(* other handlers may come between, and only each map operation is atomic. *)
(*                                                                         *)
(* A handler is a slot of the accept loop: it serves one connection after  *)
(* another, for each of which it mints a certificate for the host and      *)
(* then records one request to it.  A certificate is named by the handler  *)
(* that minted it and the host it is for.                                  *)
(***************************************************************************)
EXTENDS Naturals, FiniteSets

CONSTANTS
  Handlers,        \* the connection handlers
  Hosts,           \* the hosts clients connect to
  MaxCachedCerts,  \* maxCachedCerts
  None             \* no certificate, no host

ASSUME HandlersAssumption == IsFiniteSet(Handlers) /\ Handlers # {}
ASSUME HostsAssumption == IsFiniteSet(Hosts)
ASSUME MaxAssumption == MaxCachedCerts \in Nat

Certs == [by : Handlers, for : Hosts]

ASSUME NoneAssumption == None \notin Hosts \cup Certs

VARIABLES
  pc,        \* where each handler is
  host,      \* the host it serves
  leaf,      \* the certificate mintCert gave it
  cache,     \* ca.cache
  cacheSize, \* ca.cacheSize
  allowed,   \* allowedRequests
  lines      \* the "allowed" lines written for each host

cacheVars == <<pc, host, leaf, cache, cacheSize, allowed, lines>>

Points == {"idle", "loading", "minting", "checking", "storing", "counting",
           "serving", "logging"}

(* The most hosts the cache may hold: all the handlers may read the        *)
(* counter at MaxCachedCerts - 1, and each then store a host of its own.   *)
CacheLimit == MaxCachedCerts + Cardinality(Handlers) - 1

CacheTypeOK ==
  /\ pc \in [Handlers -> Points]
  /\ host \in [Handlers -> Hosts \cup {None}]
  /\ \A p \in Handlers : pc[p] # "idle" => host[p] \in Hosts
  /\ leaf \in [Handlers -> Certs \cup {None}]
  /\ cache \in [Hosts -> Certs \cup {None}]
  /\ cacheSize \in 0..CacheLimit
  /\ allowed \subseteq Hosts
  /\ lines \in [Hosts -> Nat]

CacheInit ==
  /\ pc = [p \in Handlers |-> "idle"]
  /\ host = [p \in Handlers |-> None]
  /\ leaf = [p \in Handlers |-> None]
  /\ cache = [h \in Hosts |-> None]
  /\ cacheSize = 0
  /\ allowed = {}
  /\ lines = [h \in Hosts |-> 0]

Move(p, from, to) ==
  /\ pc[p] = from
  /\ pc' = [pc EXCEPT ![p] = to]

(* The connection is over and the slot is another's.                       *)
Finish(p, from) ==
  /\ Move(p, from, "idle")
  /\ host' = [host EXCEPT ![p] = None]
  /\ leaf' = [leaf EXCEPT ![p] = None]

Cached == {h \in Hosts : cache[h] # None}

-----------------------------------------------------------------------------
(* handleMITM calls mintCert for the host of its CONNECT.                  *)
Begin(p) ==
  /\ Move(p, "idle", "loading")
  /\ \E h \in Hosts : host' = [host EXCEPT ![p] = h]
  /\ UNCHANGED <<leaf, cache, cacheSize, allowed, lines>>

(* A hit returns what is cached.                                           *)
Load(p) ==
  /\ \/ /\ Move(p, "loading", "serving")
        /\ cache[host[p]] # None
        /\ leaf' = [leaf EXCEPT ![p] = cache[host[p]]]
     \/ /\ Move(p, "loading", "minting")
        /\ cache[host[p]] = None
        /\ UNCHANGED leaf
  /\ UNCHANGED <<host, cache, cacheSize, allowed, lines>>

(* A key, a serial number and a signature, any of which may fail: the      *)
(* connection is then dropped.                                             *)
Mint(p) ==
  /\ \/ /\ Move(p, "minting", "checking")
        /\ leaf' = [leaf EXCEPT ![p] = [by |-> p, for |-> host[p]]]
        /\ UNCHANGED host
     \/ Finish(p, "minting")
  /\ UNCHANGED <<cache, cacheSize, allowed, lines>>

(* Slip: the bound not tested.                                             *)
CheckNothing(p) ==
  /\ Move(p, "checking", "storing")
  /\ UNCHANGED <<host, leaf, cache, cacheSize, allowed, lines>>

(* The counter is read here, and acted on in the next step.                *)
CheckSize(p) ==
  /\ \/ /\ cacheSize < MaxCachedCerts
        /\ Move(p, "checking", "storing")
     \/ /\ cacheSize >= MaxCachedCerts
        /\ Move(p, "checking", "serving")
  /\ UNCHANGED <<host, leaf, cache, cacheSize, allowed, lines>>

(* Slip: Store for LoadOrStore, and a count either way.                    *)
StoreAndCount(p) ==
  /\ Move(p, "storing", "counting")
  /\ cache' = [cache EXCEPT ![host[p]] = leaf[p]]
  /\ UNCHANGED <<host, leaf, cacheSize, allowed, lines>>

(* LoadOrStore: the first certificate stored for a host stays.  The loser  *)
(* of a race serves its own all the same.                                  *)
Store(p) ==
  /\ \/ /\ Move(p, "storing", "counting")
        /\ cache[host[p]] = None
        /\ cache' = [cache EXCEPT ![host[p]] = leaf[p]]
     \/ /\ Move(p, "storing", "serving")
        /\ cache[host[p]] # None
        /\ UNCHANGED cache
  /\ UNCHANGED <<host, leaf, cacheSize, allowed, lines>>

Count(p) ==
  /\ Move(p, "counting", "serving")
  /\ cacheSize' = cacheSize + 1
  /\ UNCHANGED <<host, leaf, cache, allowed, lines>>

(* Slip: a lookup here, and the store left out.                            *)
ContactUnmarked(p) ==
  /\ \/ /\ Move(p, "serving", "logging")
        /\ host[p] \notin allowed
        /\ UNCHANGED <<host, leaf>>
     \/ /\ Finish(p, "serving")
        /\ host[p] \in allowed
  /\ UNCHANGED <<cache, cacheSize, allowed, lines>>

(* firstContact, called once a request has passed the filters.             *)
FirstContact(p) ==
  /\ \/ /\ Move(p, "serving", "logging")
        /\ host[p] \notin allowed
        /\ UNCHANGED <<host, leaf>>
     \/ /\ Finish(p, "serving")
        /\ host[p] \in allowed
  /\ allowed' = allowed \cup {host[p]}
  /\ UNCHANGED <<cache, cacheSize, lines>>

(* A connection may also end before any request is allowed on it.          *)
RefuseRequest(p) ==
  /\ Finish(p, "serving")
  /\ UNCHANGED <<cache, cacheSize, allowed, lines>>

LogAllowed(p) ==
  /\ Finish(p, "logging")
  /\ lines' = [lines EXCEPT ![host[p]] = @ + 1]
  /\ UNCHANGED <<cache, cacheSize, allowed>>

MintCert(p) ==
  Begin(p) \/ Load(p) \/ Mint(p) \/ CheckSize(p) \/ Store(p) \/ Count(p)

CacheNext ==
  \E p \in Handlers :
    MintCert(p) \/ FirstContact(p) \/ RefuseRequest(p) \/ LogAllowed(p)

CacheSpec == CacheInit /\ [][CacheNext]_cacheVars

-----------------------------------------------------------------------------
At(point) == {p \in Handlers : pc[p] = point}

(* The counter the bound is tested against trails the map by exactly the   *)
(* handlers between their store and their count: it is never ahead, and    *)
(* once they are through it is the number of hosts (main.go:503-507).      *)
SizeTrails == Cardinality(Cached) = cacheSize + Cardinality(At("counting"))

(* maxCachedCerts is not a hard bound: every handler that read the counter *)
(* before another one counted may store.  The excess is at most one less   *)
(* than the handlers there are, which maxConns bounds.                     *)
CacheBounded == Cardinality(Cached) <= CacheLimit

(* The certificate of a host, once cached, is the one every later          *)
(* connection to it is given (LoadOrStore, main.go:504).                   *)
CacheStable ==
  [][\A h \in Hosts : cache[h] # None => cache'[h] = cache[h]]_cacheVars

(* The log has one line for a host however many handlers first contact it  *)
(* at once, and none for one that was only refused (main.go:622-633).      *)
LoggedOnce ==
  \A h \in Hosts :
    lines[h] + Cardinality({p \in At("logging") : host[p] = h})
      = IF h \in allowed THEN 1 ELSE 0

=============================================================================
