----------------------------- MODULE PolicyTable -----------------------------
(***************************************************************************)
(* What the proxy allows (proxy/main.go): the table loadConfig builds from *)
(* allowedDomains, how a host and a path are looked up in it, and the      *)
(* filters every request passes.  No state: the operators are those of     *)
(* ProxyConfig, which builds a table, and ProxyExchange, which applies it. *)
(*                                                                         *)
(* A host is the sequence of its labels, already folded to lower case, and *)
(* a suffix of it is a sequence's suffix: HasSuffix(host, "." + d) stops   *)
(* at a label.  A path is the sequence of its segments once normalised,    *)
(* <<>> for "/", or Unreadable when normalisePath cannot settle it.        *)
(***************************************************************************)
EXTENDS Naturals, Sequences, FiniteSets, SequencesExt

CONSTANTS
  Methods,     \* HTTP methods
  Star,        \* the key "*"
  NoPolicy,    \* no policy applies
  Unreadable   \* normalisePath returned false

(* DomainPolicy, without the path rules of its entry: "*", or a list of    *)
(* methods.                                                                *)
Policies ==
  [allowAll : {TRUE}, methods : {{}}]
    \cup [allowAll : {FALSE}, methods : SUBSET Methods]

(* An entry is [base, paths]: the policy of the host listed without a path *)
(* (HasBase), or NoPolicy, and the rules by path.  cfg maps domains to     *)
(* entries.                                                                *)
Named(host, cfg) == {d \in DOMAIN cfg \ {Star} : IsSuffix(d, host)}

Rules(path, entry) == {r \in DOMAIN entry.paths : IsPrefix(r, path)}

Longest(seqs) == CHOOSE s \in seqs : \A t \in seqs : Len(t) <= Len(s)

(* The policy an entry yields: the longest matching rule's, else its base. *)
(* Slip: an unreadable path given the base.                                *)
EntryPolicyOrBase(path, entry) ==
  IF path # Unreadable /\ Rules(path, entry) # {}
    THEN entry.paths[Longest(Rules(path, entry))]
    ELSE entry.base

EntryPolicy(path, entry) ==
  IF path = Unreadable
    THEN IF DOMAIN entry.paths = {} THEN entry.base ELSE NoPolicy
    ELSE IF Rules(path, entry) # {}
           THEN entry.paths[Longest(Rules(path, entry))]
           ELSE entry.base

lookupPolicy(host, path, cfg) ==
  LET yields == {d \in Named(host, cfg) : EntryPolicy(path, cfg[d]) # NoPolicy}
  IN  IF Named(host, cfg) = {}
        THEN IF Star \in DOMAIN cfg THEN cfg[Star].base ELSE NoPolicy
        ELSE IF yields = {} THEN NoPolicy
                            ELSE EntryPolicy(path, cfg[Longest(yields)])

(* Slip: the suffixes forgotten.                                           *)
isDomainListed(host, cfg) == host \in DOMAIN cfg \/ Star \in DOMAIN cfg

isDomainAllowed(host, cfg) == Named(host, cfg) # {} \/ Star \in DOMAIN cfg

(* The address the harness dials in place of the host, by the exact name   *)
(* or the longest suffix, or NoPolicy.                                     *)
lookupRedirect(host, redirects) ==
  LET named == {d \in DOMAIN redirects : IsSuffix(d, host)}
  IN  IF named = {} THEN NoPolicy ELSE redirects[Longest(named)]

(* The filters, in the order they are tried: the status a request is       *)
(* refused with, or 0.  A request is a record: the host its Host header    *)
(* names (<<>> where there is none), its path, its method, and whether     *)
(* its URL is too long, it has a body, and it asks for a WebSocket.        *)
applyFilters(req, host, cfg) ==
  LET policy == lookupPolicy(host, req.path, cfg)
  IN  CASE req.host = <<>> -> 400
        [] req.host # host -> 403
        [] policy = NoPolicy -> 403
        [] ~policy.allowAll /\ req.method \notin policy.methods -> 403
        [] req.long -> 414
        [] req.method \in {"GET", "HEAD"} /\ req.body -> 403
        [] req.websocket /\ ~policy.allowAll -> 403
        [] OTHER -> 0

=============================================================================
