-------------------------- MODULE ProxyConfigProofs --------------------------
(***************************************************************************)
(* The order in which Go ranges over the keys changes neither the table    *)
(* nor whether there is one, and no lookup in the table falls back too     *)
(* far, proved for every set of domains, paths and methods and for         *)
(* configurations of any size.                                             *)
(***************************************************************************)
EXTENDS ProxyConfig, SequenceTheorems, WellFoundedInduction, TLAPS

(* The keys folded into the table so far.                                  *)
Done == DOMAIN raw \ todo

Entries ==
  [base : Policies \cup {NoPolicy},
   paths : UNION {[rules -> Policies] : rules \in SUBSET Paths}]

(* A key is in the table it was folded into.                               *)
InTable(key) ==
  /\ key.domain \in DOMAIN cfg
  /\ IF IsBase(key)
       THEN cfg[key.domain].base = raw[key]
       ELSE /\ key.path \in DOMAIN cfg[key.domain].paths
            /\ cfg[key.domain].paths[key.path] = raw[key]

(* Nothing is in the table but what some key put there.                    *)
NothingElse ==
  \A d \in DOMAIN cfg :
    /\ \E key \in Done : key.domain = d
    /\ cfg[d] \in Entries
    /\ cfg[d].base # NoPolicy => \E key \in Done : Meaning(key) = <<d, <<>>>>
    /\ \A p \in DOMAIN cfg[d].paths :
         \E key \in Done : Meaning(key) = <<d, p>> /\ ~IsBase(key)

ConfigInv ==
  /\ DOMAIN raw \subseteq Keys /\ todo \subseteq DOMAIN raw
  /\ \A key \in DOMAIN raw : raw[key] \in Values
  /\ \A key \in Done : ~Malformed(key, raw[key]) /\ InTable(key)
  /\ \A k1, k2 \in Done : Meaning(k1) = Meaning(k2) => k1 = k2
  /\ NothingElse
  /\ status = "failed" => Faulty
  /\ status = "loaded" => todo = {}

-----------------------------------------------------------------------------
LEMMA InitConfigInv ==
  ASSUME Init
  PROVE  ConfigInv
<1>1. PICK keys \in SUBSET Keys : raw \in [keys -> Values]
  BY DEF Init
<1>2. todo = DOMAIN raw /\ cfg = << >> /\ status = "loading"
  BY DEF Init
<1>3. Done = {} /\ DOMAIN cfg = {}
  BY <1>2 DEF Done
<1> QED BY <1>1, <1>2, <1>3 DEF ConfigInv, NothingElse

(* What a good key stands for.                                             *)
LEMMA GoodKey ==
  ASSUME ConfigInv, NEW key \in DOMAIN raw, ~Malformed(key, raw[key])
  PROVE  /\ raw[key] \in Policies
         /\ ~IsBase(key) => key.path \in Paths /\ key.path # <<>>
         /\ Meaning(key) = <<key.domain, IF IsBase(key) THEN <<>> ELSE key.path>>
<1>1. raw[key] \in Values /\ raw[key] # Invalid /\ key.path # Unreadable
  BY DEF ConfigInv, Malformed
<1>2. key \in Keys
  BY DEF ConfigInv
<1>3. key.path \in Paths \cup {NoPolicy, Unreadable, <<>>}
  BY <1>2 DEF Keys
<1> QED BY <1>1, <1>3 DEF Values, IsBase, Meaning

LEMMA SameMeaning ==
  ASSUME ConfigInv, NEW k1 \in DOMAIN raw, NEW k2 \in DOMAIN raw,
         ~Malformed(k1, raw[k1]), ~Malformed(k2, raw[k2]), Meaning(k1) = Meaning(k2)
  PROVE  /\ k1.domain = k2.domain /\ IsBase(k1) = IsBase(k2)
         /\ ~IsBase(k1) => k1.path = k2.path
<1>1. /\ k1.domain = k2.domain
      /\ (IF IsBase(k1) THEN <<>> ELSE k1.path) = (IF IsBase(k2) THEN <<>> ELSE k2.path)
  BY GoodKey
<1>2. IsBase(k1) \in BOOLEAN /\ IsBase(k2) \in BOOLEAN
  BY DEF IsBase
<1> QED BY <1>1, <1>2, GoodKey

(* A key is refused as a duplicate when, and only when, one that means the *)
(* same has been folded in.                                                *)
LEMMA DuplicateMeans ==
  ASSUME NoPolicyAssumption, ConfigInv, NEW key \in todo, ~Malformed(key, raw[key])
  PROVE  Duplicate(key, EntryOf(cfg, key.domain)) <=>
           \E k \in Done : Meaning(k) = Meaning(key)
<1> DEFINE d == key.domain
           entry == EntryOf(cfg, d)
<1>1. key \in DOMAIN raw
  BY DEF ConfigInv
<1>2. /\ Meaning(key) = <<d, IF IsBase(key) THEN <<>> ELSE key.path>>
      /\ raw[key] \in Policies
  BY <1>1, GoodKey
<1>3. ASSUME Duplicate(key, entry) PROVE \E k \in Done : Meaning(k) = Meaning(key)
  <2>1. d \in DOMAIN cfg
    BY <1>3 DEF Duplicate, EntryOf
  <2>2. entry = cfg[d]
    BY <2>1 DEF EntryOf
  <2>3. CASE IsBase(key)
    <3>1. cfg[d].base # NoPolicy
      BY <1>3, <2>2, <2>3 DEF Duplicate
    <3> QED BY <1>2, <2>1, <2>3, <3>1 DEF ConfigInv, NothingElse
  <2>4. CASE ~IsBase(key)
    <3>1. key.path \in DOMAIN cfg[d].paths
      BY <1>3, <2>2, <2>4 DEF Duplicate
    <3> QED BY <1>2, <2>1, <2>4, <3>1 DEF ConfigInv, NothingElse
  <2> QED BY <2>3, <2>4
<1>4. ASSUME NEW k \in Done, Meaning(k) = Meaning(key) PROVE Duplicate(key, entry)
  <2>1. k \in DOMAIN raw /\ ~Malformed(k, raw[k]) /\ InTable(k)
    BY DEF ConfigInv, Done
  <2>2. /\ k.domain = d /\ IsBase(k) = IsBase(key) /\ raw[k] \in Policies
        /\ ~IsBase(k) => k.path = key.path
    BY <1>1, <1>4, <2>1, SameMeaning, GoodKey
  <2>3. d \in DOMAIN cfg /\ entry = cfg[d]
    BY <2>1, <2>2 DEF InTable, EntryOf
  <2> QED BY <2>1, <2>2, <2>3 DEF InTable, Duplicate, NoPolicyAssumption
<1> QED BY <1>3, <1>4

-----------------------------------------------------------------------------
(* The entry a key is folded into: its own part is new, the rest is as it  *)
(* was.                                                                    *)
LEMMA FoldedEntry ==
  ASSUME ConfigInv, NEW key \in todo, ~Malformed(key, raw[key]),
         NEW entry, entry = EntryOf(cfg, key.domain),
         NEW folded, folded = IF IsBase(key) THEN WithBase(entry, raw[key])
                              ELSE WithRule(entry, key.path, raw[key])
  PROVE  /\ folded \in Entries
         /\ IF IsBase(key)
              THEN folded.base = raw[key] /\ folded.paths = entry.paths
              ELSE /\ folded.base = entry.base
                   /\ DOMAIN folded.paths = DOMAIN entry.paths \cup {key.path}
                   /\ folded.paths[key.path] = raw[key]
                   /\ \A p \in DOMAIN entry.paths \ {key.path} :
                        folded.paths[p] = entry.paths[p]
<1>1. raw[key] \in Policies /\ (~IsBase(key) => key.path \in Paths)
  BY GoodKey DEF ConfigInv
<1>2. entry \in Entries
  <2>1. CASE key.domain \in DOMAIN cfg
    BY <2>1 DEF EntryOf, ConfigInv, NothingElse
  <2>2. CASE key.domain \notin DOMAIN cfg
    <3>1. << >> \in [{} -> Policies]
      OBVIOUS
    <3>2. << >> \in UNION {[rules -> Policies] : rules \in SUBSET Paths}
      BY <3>1
    <3> QED BY <2>2, <3>2 DEF EntryOf, Entries
  <2> QED BY <2>1, <2>2
<1>3. PICK rules \in SUBSET Paths : entry.paths \in [rules -> Policies]
  BY <1>2 DEF Entries
<1>4. CASE IsBase(key)
  BY <1>1, <1>2, <1>4 DEF WithBase, Entries
<1>5. CASE ~IsBase(key)
  <2> DEFINE more == [r \in DOMAIN entry.paths \cup {key.path} |->
                        IF r = key.path THEN raw[key] ELSE entry.paths[r]]
  <2>1. more \in [rules \cup {key.path} -> Policies]
    BY <1>1, <1>3
  <2>2. rules \cup {key.path} \in SUBSET Paths
    BY <1>1, <1>5
  <2>3. more \in UNION {[rs -> Policies] : rs \in SUBSET Paths}
    BY <2>1, <2>2
  <2>4. folded = [entry EXCEPT !.paths = more]
    BY <1>5 DEF WithRule
  <2>5. /\ DOMAIN more = DOMAIN entry.paths \cup {key.path}
        /\ more[key.path] = raw[key]
        /\ \A p \in DOMAIN entry.paths \ {key.path} : more[p] = entry.paths[p]
    OBVIOUS
  <2> HIDE DEF more
  <2>6. folded \in Entries /\ folded.base = entry.base /\ folded.paths = more
    BY <1>2, <2>3, <2>4 DEF Entries
  <2> QED BY <1>5, <2>5, <2>6
<1> QED BY <1>4, <1>5

LEMMA FoldKeeps ==
  ASSUME NoPolicyAssumption, ConfigInv, status = "loading", NEW key \in todo,
         ~Malformed(key, raw[key]), ~Duplicate(key, EntryOf(cfg, key.domain)),
         Fold(key)
  PROVE  ConfigInv'
<1> DEFINE d == key.domain
           entry == EntryOf(cfg, d)
           folded == IF IsBase(key) THEN WithBase(entry, raw[key])
                     ELSE WithRule(entry, key.path, raw[key])
<1>1. /\ cfg' = [e \in DOMAIN cfg \cup {d} |-> IF e = d THEN folded ELSE cfg[e]]
      /\ todo' = todo \ {key} /\ raw' = raw /\ status' = status
  BY DEF Fold, With
<1>2. key \in DOMAIN raw /\ Done' = Done \cup {key} /\ key \notin Done
  BY <1>1 DEF Done, ConfigInv
<1>3. /\ folded \in Entries
      /\ IF IsBase(key)
           THEN folded.base = raw[key] /\ folded.paths = entry.paths
           ELSE /\ folded.base = entry.base
                /\ DOMAIN folded.paths = DOMAIN entry.paths \cup {key.path}
                /\ folded.paths[key.path] = raw[key]
                /\ \A p \in DOMAIN entry.paths \ {key.path} :
                     folded.paths[p] = entry.paths[p]
  BY FoldedEntry
<1> HIDE DEF folded
<1>4. d \in DOMAIN cfg => entry = cfg[d]
  BY DEF EntryOf
<1>5. d \notin DOMAIN cfg => entry.base = NoPolicy /\ DOMAIN entry.paths = {}
  BY DEF EntryOf
<1> HIDE DEF entry
<1>6. \A k \in Done : Meaning(k) # Meaning(key)
  BY DuplicateMeans DEF entry
<1>7. /\ DOMAIN cfg' = DOMAIN cfg \cup {d} /\ cfg'[d] = folded
      /\ \A e \in DOMAIN cfg \ {d} : cfg'[e] = cfg[e]
  BY <1>1
<1>8. \A k \in Done' : ~Malformed(k, raw'[k]) /\ InTable(k)'
  <2>1. InTable(key)'
    BY <1>1, <1>3, <1>7 DEF InTable
  <2>2. ASSUME NEW k \in Done PROVE ~Malformed(k, raw'[k]) /\ InTable(k)'
    <3>1. k \in DOMAIN raw /\ ~Malformed(k, raw[k]) /\ InTable(k)
      BY DEF Done, ConfigInv
    <3>2. CASE k.domain # d
      BY <1>1, <1>7, <3>1, <3>2 DEF InTable
    <3>3. CASE k.domain = d
      <4>1. entry = cfg[d] /\ d \in DOMAIN cfg
        BY <1>4, <3>1, <3>3 DEF InTable
      <4>2. \/ IsBase(k) /\ ~IsBase(key)
            \/ ~IsBase(k) /\ IsBase(key)
            \/ ~IsBase(k) /\ ~IsBase(key) /\ k.path # key.path
        BY <1>2, <1>6, <3>1, <3>3, GoodKey
      <4> QED BY <1>1, <1>3, <1>7, <3>1, <3>3, <4>1, <4>2 DEF InTable
    <3> QED BY <3>2, <3>3
  <2> QED BY <1>1, <1>2, <2>1, <2>2
<1>9. NothingElse'
  <2> SUFFICES ASSUME NEW e \in DOMAIN cfg'
               PROVE  /\ \E k \in Done' : k.domain = e
                      /\ cfg'[e] \in Entries
                      /\ cfg'[e].base # NoPolicy =>
                           \E k \in Done' : Meaning(k) = <<e, <<>>>>
                      /\ \A p \in DOMAIN cfg'[e].paths :
                           \E k \in Done' : Meaning(k) = <<e, p>> /\ ~IsBase(k)
    BY DEF NothingElse
  <2>1. CASE e # d
    BY <1>2, <1>7, <2>1 DEF ConfigInv, NothingElse
  <2>2. CASE e = d
    <3>1. Meaning(key) = <<d, IF IsBase(key) THEN <<>> ELSE key.path>>
      BY <1>2, GoodKey
    <3>2. entry.base # NoPolicy => \E k \in Done : Meaning(k) = <<d, <<>>>>
      BY <1>4, <1>5 DEF ConfigInv, NothingElse
    <3>3. \A p \in DOMAIN entry.paths :
            \E k \in Done : Meaning(k) = <<d, p>> /\ ~IsBase(k)
      BY <1>4, <1>5 DEF ConfigInv, NothingElse
    <3>4. CASE IsBase(key)
      BY <1>2, <1>3, <1>7, <2>2, <3>1, <3>3, <3>4
    <3>5. CASE ~IsBase(key)
      BY <1>2, <1>3, <1>7, <2>2, <3>1, <3>2, <3>3, <3>5
    <3> QED BY <3>4, <3>5
  <2> QED BY <2>1, <2>2
<1>10. \A k1, k2 \in Done' : Meaning(k1) = Meaning(k2) => k1 = k2
  BY <1>2, <1>6 DEF ConfigInv
<1> QED BY <1>1, <1>8, <1>9, <1>10 DEF ConfigInv

LEMMA StepKeepsConfigInv ==
  ASSUME NoPolicyAssumption, ConfigInv, [Next]_vars
  PROVE  ConfigInv'
<1>1. ASSUME NEW key \in todo, status = "loading",
             Malformed(key, raw[key]) \/ Duplicate(key, EntryOf(cfg, key.domain)),
             Refuse
      PROVE  ConfigInv'
  <2>1. Faulty
    <3>1. key \in DOMAIN raw /\ key \notin Done
      BY DEF ConfigInv, Done
    <3>2. CASE Malformed(key, raw[key])
      BY <3>1, <3>2 DEF Faulty
    <3>3. CASE ~Malformed(key, raw[key])
      <4>1. PICK k \in Done : Meaning(k) = Meaning(key)
        BY <1>1, <3>3, DuplicateMeans
      <4> QED BY <3>1, <4>1 DEF Faulty, Done
    <3> QED BY <3>2, <3>3
  <2>2. status' = "failed" /\ raw' = raw /\ todo' = todo /\ cfg' = cfg
    BY <1>1 DEF Refuse
  <2>3. Done' = Done /\ Faulty' /\ NothingElse'
    BY <2>1, <2>2 DEF Done, Faulty, ConfigInv, NothingElse
  <2> QED BY <2>2, <2>3 DEF ConfigInv, InTable
<1>2. CASE TakeKey
  <2>1. PICK key \in todo :
          /\ status = "loading"
          /\ IF Malformed(key, raw[key]) \/ Duplicate(key, EntryOf(cfg, key.domain))
               THEN Refuse ELSE Fold(key)
    BY <1>2 DEF TakeKey
  <2> QED BY <1>1, <2>1, FoldKeeps
<1>3. CASE Finish
  <2>1. /\ status' = "loaded" /\ todo = {}
        /\ raw' = raw /\ todo' = todo /\ cfg' = cfg
    BY <1>3 DEF Finish
  <2> QED BY <2>1 DEF ConfigInv, Done, InTable, NothingElse
<1>4. CASE UNCHANGED vars
  BY <1>4 DEF vars, ConfigInv, Done, InTable, NothingElse, Faulty
<1> QED BY <1>2, <1>3, <1>4 DEF Next

LEMMA ConfigAlways == Spec => []ConfigInv
BY InitConfigInv, StepKeepsConfigInv, NoPolicyAssumption, PTL DEF Spec

-----------------------------------------------------------------------------
(* The key a domain and path are listed by, if there is one.               *)
LEMMA ValueListed ==
  ASSUME ConfigInv, NEW d, NEW p, NEW key \in DOMAIN raw, Meaning(key) = <<d, p>>,
         \A k1, k2 \in DOMAIN raw : Meaning(k1) = Meaning(k2) => k1 = k2
  PROVE  ValueOf(d, p) = raw[key]
<1> DEFINE chosen == CHOOSE k \in DOMAIN raw : Meaning(k) = <<d, p>>
<1>1. chosen \in DOMAIN raw /\ Meaning(chosen) = <<d, p>>
  OBVIOUS
<1> QED BY <1>1 DEF ValueOf

(* Whatever order the map is ranged over in, the same configurations are   *)
(* refused, and an accepted one gives each domain and path the policy of   *)
(* the one key that means it (main.go:219-266).                            *)
THEOREM OrderNeverMatters == Spec => []OrderImmaterial
<1>1. ConfigInv => OrderImmaterial
  <2> SUFFICES ASSUME ConfigInv PROVE OrderImmaterial
    OBVIOUS
  <2>1. status = "failed" => Faulty
    BY DEF ConfigInv
  <2>2. ASSUME status = "loaded" PROVE ~Faulty
    BY <2>2 DEF ConfigInv, Done, Faulty
  <2>3. ASSUME status = "loaded", NEW d \in Domains \cup {Star}
        PROVE  LET entry == EntryOf(cfg, d)
               IN  /\ entry.base = ValueOf(d, <<>>)
                   /\ \A p \in Paths \ {<<>>} :
                        ValueOf(d, p) = IF p \in DOMAIN entry.paths
                                          THEN entry.paths[p] ELSE NoPolicy
    <3> DEFINE entry == EntryOf(cfg, d)
    <3>1. /\ Done = DOMAIN raw
          /\ \A key \in DOMAIN raw : ~Malformed(key, raw[key]) /\ InTable(key)
          /\ \A k1, k2 \in DOMAIN raw : Meaning(k1) = Meaning(k2) => k1 = k2
      BY <2>3 DEF ConfigInv, Done
    <3>2. entry.base = ValueOf(d, <<>>)
      <4>1. ASSUME NEW key \in DOMAIN raw, Meaning(key) = <<d, <<>>>>
            PROVE  entry.base = ValueOf(d, <<>>)
        <5>1. IsBase(key) /\ key.domain = d /\ InTable(key)
          BY <3>1, <4>1, GoodKey
        <5>2. entry.base = raw[key]
          BY <5>1 DEF InTable, EntryOf
        <5> QED BY <3>1, <4>1, <5>2, ValueListed
      <4>2. ASSUME ~\E key \in DOMAIN raw : Meaning(key) = <<d, <<>>>>
            PROVE  entry.base = ValueOf(d, <<>>)
        <5>1. entry.base = NoPolicy
          BY <3>1, <4>2 DEF EntryOf, ConfigInv, NothingElse
        <5> QED BY <4>2, <5>1 DEF ValueOf
      <4> QED BY <4>1, <4>2
    <3>3. ASSUME NEW p \in Paths \ {<<>>}
          PROVE  ValueOf(d, p) = IF p \in DOMAIN entry.paths
                                   THEN entry.paths[p] ELSE NoPolicy
      <4>1. ASSUME NEW key \in DOMAIN raw, Meaning(key) = <<d, p>>
            PROVE  p \in DOMAIN entry.paths /\ entry.paths[p] = ValueOf(d, p)
        <5>1. ~IsBase(key) /\ key.domain = d /\ key.path = p /\ InTable(key)
          BY <3>1, <3>3, <4>1, GoodKey
        <5>2. p \in DOMAIN entry.paths /\ entry.paths[p] = raw[key]
          BY <5>1 DEF InTable, EntryOf
        <5> QED BY <3>1, <4>1, <5>2, ValueListed
      <4>2. ASSUME ~\E key \in DOMAIN raw : Meaning(key) = <<d, p>>
            PROVE  ValueOf(d, p) = NoPolicy /\ p \notin DOMAIN entry.paths
        <5>1. p \notin DOMAIN entry.paths
          BY <3>1, <4>2 DEF EntryOf, ConfigInv, NothingElse
        <5> QED BY <4>2, <5>1 DEF ValueOf
      <4> QED BY <4>1, <4>2
    <3> QED BY <3>2, <3>3
  <2> QED BY <2>1, <2>2, <2>3 DEF OrderImmaterial
<1> QED BY <1>1, ConfigAlways, PTL

(* Every host some path of would be allowed passes the CONNECT gate, so a  *)
(* request is refused by the filters or not at all (main.go:349-361).      *)
THEOREM GateAlwaysCovers == Spec => []GateCoversFilters
<1>1. GateCoversFilters
  BY DEF GateCoversFilters, lookupPolicy, isDomainAllowed
<1> QED BY <1>1, PTL

-----------------------------------------------------------------------------
(* Suffixes and the longest of them.                                       *)

(* The labels the lookups are checked with are named here because the      *)
(* provers do not know a string literal to be one of STRING.               *)
Labels == STRING \cup {"x", "other"}
Names == Seq(Labels)

(* The last names of a host, one by one.                                   *)
LEMMA SuffixByName ==
  ASSUME NEW s \in Names, NEW t \in Names
  PROVE  IsSuffix(s, t) <=>
           /\ Len(s) <= Len(t)
           /\ \A i \in 1..Len(s) : s[(Len(s) - i) + 1] = t[(Len(t) - i) + 1]
<1>1. PICK a \in Nat, b \in Nat : a = Len(s) /\ b = Len(t)
  BY LenProperties DEF Names
<1> DEFINE rs == Reverse(s)
           rt == Reverse(t)
<1>2. /\ rs \in Names /\ Len(rs) = a /\ \A i \in 1..a : rs[i] = s[(a - i) + 1]
  BY <1>1 DEF Reverse, Names
<1>3. /\ rt \in Names /\ Len(rt) = b /\ \A i \in 1..b : rt[i] = t[(b - i) + 1]
  BY <1>1 DEF Reverse, Names
<1> HIDE DEF rs, rt
<1>4. IsSuffix(s, t) <=> a <= b /\ SubSeq(rs, 1, a) = SubSeq(rt, 1, a)
  BY <1>2, <1>3 DEF IsSuffix, IsPrefix, rs, rt
<1>5. SubSeq(rs, 1, a) = rs
  BY <1>2, SubSeqFull DEF Names
<1>6. ASSUME a <= b
      PROVE  SubSeq(rt, 1, a) = rs <=> \A i \in 1..a : s[(a - i) + 1] = t[(b - i) + 1]
  <2>1. SubSeq(rt, 1, a) = [i \in 1..a |-> rt[i]]
    BY <1>3, <1>6 DEF Names
  <2>2. SubSeq(rt, 1, a) \in Names /\ Len(SubSeq(rt, 1, a)) = a
    BY <1>1, <1>3, <1>6, <2>1 DEF Names
  <2>3. \A i \in 1..a : i \in 1..b
    BY <1>1, <1>6
  <2>4. SubSeq(rt, 1, a) = rs <=> \A i \in 1..a : rt[i] = rs[i]
    BY <1>2, <2>1, <2>2, SeqEqual DEF Names
  <2> QED BY <1>2, <1>3, <2>3, <2>4
<1> QED BY <1>1, <1>4, <1>5, <1>6

(* A label in front of a name.                                            *)
LEMMA OneName ==
  ASSUME NEW x \in Labels, NEW d \in Names
  PROVE  /\ <<x>> \in Names /\ <<x>> \o d \in Names
         /\ Len(<<x>> \o d) = Len(d) + 1
         /\ (<<x>> \o d)[1] = x
         /\ \A i \in 1..Len(d) : (<<x>> \o d)[i + 1] = d[i]
<1>1. PICK one \in Names : one = <<x>> /\ Len(one) = 1 /\ one[1] = x
  <2>1. <<x>> \in Seq(Labels)
    OBVIOUS
  <2>2. Len(<<x>>) = 1 /\ <<x>>[1] = x
    OBVIOUS
  <2> QED BY <2>1, <2>2 DEF Names
<1>2. PICK b \in Nat : b = Len(d)
  BY LenProperties DEF Names
<1>3. /\ one \o d \in Names /\ Len(one \o d) = b + 1
      /\ \A i \in 1..(b + 1) : (one \o d)[i] = IF i <= 1 THEN one[i] ELSE d[i - 1]
  BY <1>1, <1>2, ConcatProperties DEF Names
<1>4. \A i \in 1..b : i + 1 \in 1..(b + 1) /\ ~(i + 1 <= 1) /\ (i + 1) - 1 = i
  BY <1>2
<1>5. (one \o d)[1] = x
  BY <1>1, <1>2, <1>3
<1>6. \A i \in 1..b : (one \o d)[i + 1] = d[i]
  BY <1>3, <1>4
<1> QED BY <1>1, <1>2, <1>3, <1>5, <1>6

(* One more name in front makes one more suffix: the host itself.          *)
LEMMA SuffixBelow ==
  ASSUME NEW d \in Names, NEW x \in Labels, NEW e \in Names, e # <<x>> \o d
  PROVE  IsSuffix(e, <<x>> \o d) <=> IsSuffix(e, d)
<1> DEFINE h == <<x>> \o d
<1>1. PICK a \in Nat, b \in Nat : a = Len(e) /\ b = Len(d)
  BY LenProperties DEF Names
<1>2. h \in Names /\ Len(h) = b + 1 /\ h[1] = x /\ \A i \in 1..b : h[i + 1] = d[i]
  BY <1>1, OneName
<1> HIDE DEF h
<1>3. IsSuffix(e, h) <=> /\ a <= b + 1
                         /\ \A i \in 1..a : e[(a - i) + 1] = h[((b + 1) - i) + 1]
  <2>1. IsSuffix(e, h) <=>
          /\ Len(e) <= Len(h)
          /\ \A i \in 1..Len(e) : e[(Len(e) - i) + 1] = h[(Len(h) - i) + 1]
    BY <1>2, SuffixByName
  <2> QED BY <1>1, <1>2, <2>1
<1>4. IsSuffix(e, d) <=> /\ a <= b
                         /\ \A i \in 1..a : e[(a - i) + 1] = d[(b - i) + 1]
  BY <1>1, SuffixByName
<1>5. ASSUME a <= b, NEW i \in 1..a PROVE h[((b + 1) - i) + 1] = d[(b - i) + 1]
  <2>1. (b - i) + 1 \in 1..b /\ ((b - i) + 1) + 1 = ((b + 1) - i) + 1
    BY <1>1, <1>5
  <2> QED BY <1>2, <2>1
<1>6. a = b + 1 => ~IsSuffix(e, h)
  <2> SUFFICES ASSUME a = b + 1, IsSuffix(e, h) PROVE FALSE
    OBVIOUS
  <2>1. ASSUME NEW j \in 1..a PROVE e[j] = h[j]
    <3>1. (a - j) + 1 \in 1..a /\ (a - ((a - j) + 1)) + 1 = j
          /\ ((b + 1) - ((a - j) + 1)) + 1 = j
      BY <1>1
    <3> QED BY <1>3, <3>1
  <2>2. e = h
    BY <1>1, <1>2, <2>1, SeqEqual DEF Names
  <2> QED BY <2>2 DEF h
<1>7. a <= b + 1 => a <= b \/ a = b + 1
  OBVIOUS
<1>8. IsSuffix(e, h) <=> IsSuffix(e, d)
  BY <1>3, <1>4, <1>5, <1>6, <1>7
<1> QED BY <1>8 DEF h

(* A set of names no longer than some bound has a longest one.             *)
LEMMA LongestIsOne ==
  ASSUME NEW S \in SUBSET Names, S # {}, NEW bound \in Nat, \A s \in S : Len(s) <= bound
  PROVE  Longest(S) \in S
<1> DEFINE less == OpToRel(<, Nat)
           Short == {bound - Len(s) : s \in S}
<1>1. IsWellFoundedOn(less, Nat)
  BY NatLessThanWellFounded, Zenon
<1>2. less = {pair \in Nat \X Nat : pair[1] < pair[2]}
  BY Zenon DEF OpToRel
<1>3. Short \in SUBSET Nat /\ Short # {}
  <2>1. \A s \in S : Len(s) \in Nat
    BY LenProperties DEF Names
  <2> QED BY <2>1
<1> HIDE DEF less
<1>4. PICK n \in Short : \A m \in Short : <<m, n>> \notin less
  <2> HIDE DEF Short
  <2> QED BY <1>1, <1>3, WFMin, Zenon
<1>5. PICK s \in S : n = bound - Len(s)
  BY <1>4
<1>6. \A t \in S : Len(t) <= Len(s)
  <2> TAKE t \in S
  <2>1. PICK a \in Nat, b \in Nat : a = Len(s) /\ b = Len(t)
    BY LenProperties DEF Names
  <2>2. bound - b \in Nat /\ bound - a \in Nat /\ <<bound - b, bound - a>> \notin less
    BY <1>3, <1>4, <1>5, <2>1
  <2>3. ~(bound - b < bound - a)
    BY <1>2, <2>2
  <2> QED BY <2>1, <2>3
<1> QED BY <1>5, <1>6 DEF Longest

-----------------------------------------------------------------------------
LEMMA DomainNames == Domains \subseteq Names
<1>1. STRING \subseteq Labels
  BY DEF Labels
<1>2. \A S, T : S \subseteq T => Seq(S) \subseteq Seq(T)
  OBVIOUS
<1> QED BY <1>1, <1>2, DomainsAssumption DEF Names

(* What the table is looked up by are names.                               *)
LEMMA TableDomains ==
  ASSUME ConfigInv, NEW d \in DOMAIN cfg, d # Star
  PROVE  d \in Names
<1>1. PICK key \in Done : key.domain = d
  BY DEF ConfigInv, NothingElse
<1>2. key \in Keys
  BY DEF ConfigInv, Done
<1>3. d \in Domains
  BY <1>1, <1>2 DEF Keys
<1> QED BY <1>3, DomainNames

LEMMA HostNames ==
  ASSUME NEW h \in Hosts
  PROVE  h \in Names
<1>1. "x" \in Labels /\ "other" \in Labels
  BY DEF Labels
<1>2. \A d \in Domains : d \in Names /\ <<"x">> \o d \in Names
  BY <1>1, DomainNames, OneName
<1>3. <<"other">> \in Names
  <2>1. << >> \in Names
    BY EmptySeq DEF Names
  <2> QED BY <1>1, <2>1, OneName
<1> QED BY <1>2, <1>3 DEF Hosts

(* The entry for every host has no path rules.                             *)
LEMMA StarHasNoRules ==
  ASSUME ConfigInv, Star \in DOMAIN cfg
  PROVE  DOMAIN cfg[Star].paths = {}
<1> SUFFICES ASSUME NEW p \in DOMAIN cfg[Star].paths PROVE FALSE
  OBVIOUS
<1>1. PICK key \in Done : Meaning(key) = <<Star, p>> /\ ~IsBase(key)
  BY DEF ConfigInv, NothingElse
<1>2. key \in DOMAIN raw /\ ~Malformed(key, raw[key])
  BY DEF ConfigInv, Done
<1>3. key.domain = Star
  BY <1>1 DEF Meaning
<1> QED BY <1>1, <1>2, <1>3 DEF Malformed, IsBase

(* No lookup falls back past the most specific entry that is listed: not   *)
(* for a path that cannot be read (main.go:290), nor for a subdomain       *)
(* nobody lists (main.go:296).                                             *)
THEOREM NeverFallsFurther == Spec => []FallsBackNoFurther
<1>1. ConfigInv => FallsBackNoFurther
  <2> SUFFICES ASSUME ConfigInv PROVE FallsBackNoFurther
    OBVIOUS
  <2>1. ASSUME NEW h \in Hosts, lookupPolicy(h, Unreadable, cfg) # NoPolicy
        PROVE  \E d \in DOMAIN cfg : /\ DOMAIN cfg[d].paths = {}
                                     /\ cfg[d].base = lookupPolicy(h, Unreadable, cfg)
    <3>1. CASE Named(h, cfg) = {}
      BY <2>1, <3>1, StarHasNoRules DEF lookupPolicy
    <3>2. CASE Named(h, cfg) # {}
      <4> DEFINE yields == {d \in Named(h, cfg) : EntryPolicy(Unreadable, cfg[d]) # NoPolicy}
      <4>1. yields # {} /\ lookupPolicy(h, Unreadable, cfg)
                             = EntryPolicy(Unreadable, cfg[Longest(yields)])
        BY <2>1, <3>2 DEF lookupPolicy
      <4>2. \A d \in yields : d \in DOMAIN cfg /\ d \in Names /\ Len(d) <= Len(h)
        BY TableDomains, HostNames, SuffixByName DEF Named
      <4>3. Longest(yields) \in yields
        <5>1. yields \in SUBSET Names /\ Len(h) \in Nat
          BY <4>2, HostNames, LenProperties DEF Names
        <5> HIDE DEF yields
        <5> QED BY <4>1, <4>2, <5>1, LongestIsOne
      <4>4. Longest(yields) \in DOMAIN cfg
        BY <4>2, <4>3
      <4> HIDE DEF yields
      <4> QED BY <2>1, <4>1, <4>4 DEF EntryPolicy
    <3> QED BY <3>1, <3>2
  <2>2. ASSUME NEW d \in Domains, NEW p, <<"x">> \o d \notin DOMAIN cfg
        PROVE  lookupPolicy(<<"x">> \o d, p, cfg) = lookupPolicy(d, p, cfg)
    <3>1. d \in Names
      BY DomainNames
    <3>2. \A e \in DOMAIN cfg \ {Star} : IsSuffix(e, <<"x">> \o d) <=> IsSuffix(e, d)
      <4> TAKE e \in DOMAIN cfg \ {Star}
      <4>1. e \in Names /\ e # <<"x">> \o d /\ "x" \in Labels
        BY <2>2, TableDomains DEF Labels
      <4> QED BY <3>1, <4>1, SuffixBelow
    <3>3. Named(<<"x">> \o d, cfg) = Named(d, cfg)
      BY <3>2 DEF Named
    <3> QED BY <3>3 DEF lookupPolicy
  <2> QED BY <2>1, <2>2 DEF FallsBackNoFurther
<1> QED BY <1>1, ConfigAlways, PTL

=============================================================================
