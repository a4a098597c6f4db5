----------------------------- MODULE ProxyConfig -----------------------------
(***************************************************************************)
(* loadConfig (proxy/main.go): the table of policies built from the keys   *)
(* and values of allowedDomains.  Go ranges over the map in an order that  *)
(* differs from run to run, so which key is folded into the table next is  *)
(* left open here; the table, and whether there is one, must not depend on *)
(* it.                                                                     *)
(*                                                                         *)
(* A key is the domain and path its text stands for, and a spelling: two   *)
(* texts may differ in case or in redundant slashes and mean one key.      *)
(***************************************************************************)
EXTENDS PolicyTable

CONSTANTS
  Domains,    \* the domains a key may name
  Paths,      \* the paths it may have
  Spellings,  \* the ways to write it
  MaxKeys,    \* bounds the keys of one configuration
  Invalid     \* a value that is neither "*" nor a list of methods

ASSUME NoPolicyAssumption == NoPolicy \notin Policies
ASSUME DomainsAssumption == Domains \subseteq Seq(STRING)

VARIABLES
  raw,        \* the parsed JSON: values by key
  todo,       \* the keys not ranged over yet
  cfg,        \* the table so far
  status

vars == <<raw, todo, cfg, status>>

(* NoPolicy is the path of a key without a "/".                            *)
Keys ==
  [domain : Domains, path : Paths \cup {NoPolicy, Unreadable},
   spelling : Spellings]
    \cup [domain : {Star}, path : {NoPolicy, <<>>}, spelling : {1}]

Values == Policies \cup {Invalid}

Init ==
  /\ \E keys \in SUBSET Keys :
       /\ Cardinality(keys) <= MaxKeys
       /\ raw \in [keys -> Values]
  /\ todo = DOMAIN raw
  /\ cfg = << >>
  /\ status = "loading"

(* cfg[domain] of a Go map: the zero entry where there is none.            *)
EntryOf(table, d) ==
  IF d \in DOMAIN table THEN table[d] ELSE [base |-> NoPolicy, paths |-> << >>]

(* One key folded into the entry of its domain.                            *)
With(table, d, entry) ==
  [e \in DOMAIN table \cup {d} |-> IF e = d THEN entry ELSE table[e]]

WithRule(entry, path, policy) ==
  [entry EXCEPT !.paths =
     [r \in DOMAIN @ \cup {path} |-> IF r = path THEN policy ELSE @[r]]]

(* Slip: the rules of the entry dropped when its base comes after them.    *)
WithBaseOnly(entry, policy) == [base |-> policy, paths |-> << >>]

WithBase(entry, policy) == [entry EXCEPT !.base = policy]

(* A key for the host as a whole: one without a path, or with "/".         *)
IsBase(key) == key.path \in {NoPolicy, <<>>}

(* The keys loadConfig refuses on sight, and those it refuses because of   *)
(* another it has met before.                                              *)
Malformed(key, value) ==
  \/ value = Invalid
  \/ key.domain = Star /\ key.path # NoPolicy
  \/ key.path = Unreadable

Duplicate(key, entry) ==
  IF IsBase(key) THEN entry.base # NoPolicy ELSE key.path \in DOMAIN entry.paths

Refuse ==
  /\ status' = "failed"
  /\ UNCHANGED <<raw, todo, cfg>>

Fold(key) ==
  LET entry == EntryOf(cfg, key.domain)
  IN  /\ cfg' = With(cfg, key.domain,
                     IF IsBase(key) THEN WithBase(entry, raw[key])
                                    ELSE WithRule(entry, key.path, raw[key]))
      /\ todo' = todo \ {key}
      /\ UNCHANGED <<raw, status>>

TakeKey ==
  /\ status = "loading"
  /\ \E key \in todo :
       LET entry == EntryOf(cfg, key.domain)
       IN  IF Malformed(key, raw[key]) \/ Duplicate(key, entry)
             THEN Refuse
             ELSE Fold(key)

Finish ==
  /\ status = "loading"
  /\ todo = {}
  /\ status' = "loaded"
  /\ UNCHANGED <<raw, todo, cfg>>

Next == TakeKey \/ Finish

Spec == Init /\ [][Next]_vars

-----------------------------------------------------------------------------
(* What the keys say, taken together and in no order.                      *)
Meaning(key) == <<key.domain, IF IsBase(key) THEN <<>> ELSE key.path>>

Faulty ==
  \/ \E key \in DOMAIN raw : Malformed(key, raw[key])
  \/ \E k1, k2 \in DOMAIN raw : k1 # k2 /\ Meaning(k1) = Meaning(k2)

ValueOf(d, p) ==
  IF \E key \in DOMAIN raw : Meaning(key) = <<d, p>>
    THEN raw[CHOOSE key \in DOMAIN raw : Meaning(key) = <<d, p>>]
    ELSE NoPolicy

(* Whatever order the map is ranged over in, the same configurations are   *)
(* refused, and an accepted one gives each domain and path the policy of   *)
(* the one key that means it (main.go:219-266).                            *)
OrderImmaterial ==
  /\ status = "failed" => Faulty
  /\ status = "loaded" =>
       /\ ~Faulty
       /\ \A d \in Domains \cup {Star} :
            LET entry == EntryOf(cfg, d)
            IN  /\ entry.base = ValueOf(d, <<>>)
                /\ \A p \in Paths \ {<<>>} :
                     ValueOf(d, p) = IF p \in DOMAIN entry.paths
                                       THEN entry.paths[p] ELSE NoPolicy

-----------------------------------------------------------------------------
(* The lookups, over every table that can be loaded.                       *)

Hosts == Domains \cup {<<"x">> \o d : d \in Domains} \cup {<<"other">>}

(* The CONNECT gate judges the host alone and comes before the filters: it *)
(* turns away no host that some path of would be allowed, so what it lets  *)
(* through is settled per request (main.go:538-539, 827).                  *)
GateCoversFilters ==
  status = "loaded" =>
    \A h \in Hosts : \A p \in Paths \cup {Unreadable} :
      lookupPolicy(h, p, cfg) # NoPolicy => isDomainAllowed(h, cfg)

(* A lookup falls back where nothing more specific is listed, and never    *)
(* further.  A request whose path cannot be read is never given the policy *)
(* of a path rule, nor the base of an entry that has some (main.go:290);   *)
(* a subdomain nobody lists has, for every path, the policy of the domain  *)
(* above it (main.go:296).                                                 *)
FallsBackNoFurther ==
  status = "loaded" =>
    /\ \A h \in Hosts :
         lookupPolicy(h, Unreadable, cfg) # NoPolicy =>
           \E d \in DOMAIN cfg :
             /\ DOMAIN cfg[d].paths = {}
             /\ cfg[d].base = lookupPolicy(h, Unreadable, cfg)
    /\ \A d \in Domains : \A p \in Paths \cup {Unreadable} :
         <<"x">> \o d \notin DOMAIN cfg =>
           lookupPolicy(<<"x">> \o d, p, cfg) = lookupPolicy(d, p, cfg)

=============================================================================
