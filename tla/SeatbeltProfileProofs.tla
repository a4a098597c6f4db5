------------------------ MODULE SeatbeltProfileProofs -------------------------
(***************************************************************************)
(* What the profile grants, and where the links of the session's home come *)
(* to be, for any host, any paths declared of any length and in any        *)
(* number, and any links.                                                  *)
(***************************************************************************)
EXTENDS SeatbeltProfile, HostPathsProofs

-----------------------------------------------------------------------------
(* Lists of rules, the last that matches deciding.                         *)

IsList(rules) == \E S : rules \in Seq(S)

(* Rule n of the list is the last that matches.                            *)
Decides(rules, n, op, p) ==
  /\ n \in 1..Len(rules) /\ Matches(rules[n], op, p)
  /\ \A m \in 1..Len(rules) : m > n => ~Matches(rules[m], op, p)
Grants(rules, op, p) == \E n \in 1..Len(rules) : Decides(rules, n, op, p) /\ rules[n].allow
Denies(rules, op, p) == \E n \in 1..Len(rules) : Decides(rules, n, op, p) /\ ~rules[n].allow

(* What the profile allows is what it grants.                              *)
LEMMA AllowedIsGranted ==
  ASSUME IsList(profile), NEW op, NEW p
  PROVE  Allowed(op, p) <=> Grants(profile, op, p)
<1> DEFINE hits == {n \in 1..Len(profile) : Matches(profile[n], op, p)}
<1>0. PICK N \in Nat : N = Len(profile)
  BY LenProperties DEF IsList
<1>1. Allowed(op, p) <=> hits # {} /\ profile[Max(hits)].allow
  BY DEF Allowed
<1>2. CASE hits = {}
  BY <1>1, <1>2 DEF Grants, Decides
<1>3. CASE hits # {}
  <2>1. hits \in SUBSET (1..N)
    BY <1>0
  <2>2. \E n \in hits : \A m \in hits : n >= m
    <3> HIDE DEF hits
    <3> QED BY <1>0, <1>3, <2>1, GreatestExists
  <2>3. Max(hits) \in hits /\ \A m \in hits : Max(hits) >= m
    <3> HIDE DEF hits
    <3> QED BY <2>2 DEF Max
  <2>4. Decides(profile, Max(hits), op, p)
    <3>1. PICK k \in 1..N : k = Max(hits) /\ Matches(profile[k], op, p)
      BY <1>0, <2>3
    <3>2. \A m \in 1..N : m > k => ~Matches(profile[m], op, p)
      BY <1>0, <2>3, <3>1
    <3> QED BY <1>0, <3>1, <3>2 DEF Decides
  <2>5. ASSUME NEW n \in 1..Len(profile), Decides(profile, n, op, p)
        PROVE  n = Max(hits)
    <3>1. n \in hits
      BY <2>5 DEF Decides
    <3>2. PICK k \in 1..N : k = Max(hits)
      BY <1>0, <2>3
    <3>3. k >= n /\ ~(k > n)
      BY <1>0, <2>3, <2>5, <3>1, <3>2 DEF Decides
    <3> QED BY <1>0, <3>2, <3>3
  <2> HIDE DEF hits
  <2>6. Max(hits) \in 1..Len(profile)
    BY <2>4 DEF Decides
  <2> QED BY <1>1, <1>3, <2>4, <2>5, <2>6 DEF Grants
<1> QED BY <1>2, <1>3

(* A list put behind another has the last word.                            *)
LEMMA LaterDecides ==
  ASSUME NEW A, NEW B, IsList(A), IsList(B)
  PROVE  /\ IsList(A \o B)
         /\ \A op, p :
              /\ Grants(A \o B, op, p) <=>
                   Grants(B, op, p) \/ (Grants(A, op, p) /\ ~Denies(B, op, p))
              /\ Denies(A \o B, op, p) <=>
                   Denies(B, op, p) \/ (Denies(A, op, p) /\ ~Grants(B, op, p))
<1>1. PICK S : A \in Seq(S)
  BY DEF IsList
<1>2. PICK T : B \in Seq(T)
  BY DEF IsList
<1> DEFINE R == S \cup T
           C == A \o B
<1>3. A \in Seq(R) /\ B \in Seq(R)
  BY <1>1, <1>2, SeqMonotonic
<1>4. /\ C \in Seq(R) /\ Len(C) = Len(A) + Len(B)
      /\ \A i \in 1..Len(C) : C[i] = IF i <= Len(A) THEN A[i] ELSE B[i - Len(A)]
  BY <1>3, ConcatProperties
<1>5. PICK a \in Nat, b \in Nat : a = Len(A) /\ b = Len(B)
  BY <1>3
<1> HIDE DEF C
<1>6. /\ \A i \in 1..a : C[i] = A[i]
      /\ \A j \in 1..b : a + j \in 1..(a + b) /\ C[a + j] = B[j]
      /\ \A i \in 1..(a + b) : i \in 1..a \/ \E j \in 1..b : i = a + j
  <2>1. \A i \in 1..a : i \in 1..(a + b) /\ C[i] = A[i]
    BY <1>4, <1>5
  <2>2. \A j \in 1..b : a + j \in 1..(a + b) /\ C[a + j] = B[j]
    <3> TAKE j \in 1..b
    <3>1. a + j \in 1..(a + b) /\ ~(a + j <= a) /\ (a + j) - a = j
      OBVIOUS
    <3> QED BY <1>4, <1>5, <3>1
  <2>3. \A i \in 1..(a + b) : i \notin 1..a => i - a \in 1..b /\ i = a + (i - a)
    OBVIOUS
  <2> QED BY <2>1, <2>2, <2>3
<1>7. ASSUME NEW op, NEW p
      PROVE  /\ \A j \in 1..b : Decides(B, j, op, p) <=> Decides(C, a + j, op, p)
             /\ \A i \in 1..a : Decides(C, i, op, p) <=>
                  Decides(A, i, op, p) /\ \A j \in 1..b : ~Matches(B[j], op, p)
  <2>1. ASSUME NEW j \in 1..b
        PROVE  Decides(B, j, op, p) <=> Decides(C, a + j, op, p)
    <3>1. ASSUME Decides(B, j, op, p) PROVE Decides(C, a + j, op, p)
      <4>1. ASSUME NEW m \in 1..(a + b), m > a + j PROVE ~Matches(C[m], op, p)
        <5>1. PICK k \in 1..b : m = a + k
          BY <1>6, <4>1
        <5> QED BY <1>5, <1>6, <3>1, <4>1, <5>1 DEF Decides
      <4> QED BY <1>4, <1>5, <1>6, <3>1, <4>1 DEF Decides
    <3>2. ASSUME Decides(C, a + j, op, p) PROVE Decides(B, j, op, p)
      <4>1. ASSUME NEW k \in 1..b, k > j PROVE ~Matches(B[k], op, p)
        <5>1. a + k \in 1..(a + b) /\ a + k > a + j /\ C[a + k] = B[k]
          BY <1>6, <4>1
        <5> QED BY <1>4, <1>5, <3>2, <5>1 DEF Decides
      <4> QED BY <1>5, <1>6, <3>2, <4>1 DEF Decides
    <3> QED BY <3>1, <3>2
  <2>2. ASSUME NEW i \in 1..a
        PROVE  Decides(C, i, op, p) <=>
                 Decides(A, i, op, p) /\ \A j \in 1..b : ~Matches(B[j], op, p)
    <3>1. ASSUME Decides(C, i, op, p)
          PROVE  Decides(A, i, op, p) /\ \A j \in 1..b : ~Matches(B[j], op, p)
      <4>1. ASSUME NEW j \in 1..b PROVE ~Matches(B[j], op, p)
        <5>1. a + j \in 1..(a + b) /\ a + j > i /\ C[a + j] = B[j]
          BY <1>6
        <5> QED BY <1>4, <1>5, <3>1, <5>1 DEF Decides
      <4>2. ASSUME NEW m \in 1..a, m > i PROVE ~Matches(A[m], op, p)
        <5>1. m \in 1..(a + b) /\ C[m] = A[m]
          BY <1>6
        <5> QED BY <1>4, <1>5, <3>1, <4>2, <5>1 DEF Decides
      <4> QED BY <1>5, <1>6, <3>1, <4>1, <4>2 DEF Decides
    <3>2. ASSUME Decides(A, i, op, p), \A j \in 1..b : ~Matches(B[j], op, p)
          PROVE  Decides(C, i, op, p)
      <4>1. ASSUME NEW m \in 1..(a + b), m > i PROVE ~Matches(C[m], op, p)
        BY <1>5, <1>6, <3>2, <4>1 DEF Decides
      <4>2. i \in 1..(a + b)
        OBVIOUS
      <4> QED BY <1>4, <1>5, <1>6, <3>2, <4>1, <4>2 DEF Decides
    <3> QED BY <3>1, <3>2
  <2> QED BY <2>1, <2>2
<1>8. ASSUME NEW op, NEW p
      PROVE  (\A j \in 1..b : ~Matches(B[j], op, p)) <=>
               ~Grants(B, op, p) /\ ~Denies(B, op, p)
  <2>1. ASSUME \E j \in 1..b : Matches(B[j], op, p)
        PROVE  \E n \in 1..b : Decides(B, n, op, p)
    <3> DEFINE hits == {n \in 1..b : Matches(B[n], op, p)}
    <3>1. hits \in SUBSET (1..b) /\ hits # {}
      BY <2>1
    <3>2. PICK n \in hits : \A m \in hits : n >= m
      <4> HIDE DEF hits
      <4> QED BY <3>1, GreatestExists
    <3>3. \A m \in 1..b : m > n => ~Matches(B[m], op, p)
      BY <3>2
    <3> QED BY <1>5, <3>2, <3>3 DEF Decides
  <2>2. \A n \in 1..b : Decides(B, n, op, p) => Grants(B, op, p) \/ Denies(B, op, p)
    BY <1>5 DEF Grants, Denies
  <2>3. Grants(B, op, p) \/ Denies(B, op, p) => \E j \in 1..b : Matches(B[j], op, p)
    BY <1>5 DEF Grants, Denies, Decides
  <2> QED BY <2>1, <2>2, <2>3
<1>9. ASSUME NEW op, NEW p, NEW j \in 1..b, NEW k \in 1..b,
             Decides(B, j, op, p), Decides(B, k, op, p)
      PROVE  j = k
  BY <1>5, <1>9 DEF Decides
<1>10. ASSUME NEW op, NEW p
       PROVE  /\ Grants(C, op, p) <=>
                   Grants(B, op, p) \/ (Grants(A, op, p) /\ ~Denies(B, op, p))
              /\ Denies(C, op, p) <=>
                   Denies(B, op, p) \/ (Denies(A, op, p) /\ ~Grants(B, op, p))
  <2> DEFINE Silent == \A j \in 1..b : ~Matches(B[j], op, p)
  <2>1. Grants(C, op, p) <=> Grants(B, op, p) \/ (Grants(A, op, p) /\ Silent)
    <3>1. Grants(C, op, p) <=> \E i \in 1..(a + b) : Decides(C, i, op, p) /\ C[i].allow
      BY <1>4, <1>5 DEF Grants
    <3>2. (\E i \in 1..(a + b) : Decides(C, i, op, p) /\ C[i].allow) <=>
            \/ \E i \in 1..a : Decides(C, i, op, p) /\ A[i].allow
            \/ \E j \in 1..b : Decides(C, a + j, op, p) /\ B[j].allow
      BY <1>6
    <3>3. (\E j \in 1..b : Decides(C, a + j, op, p) /\ B[j].allow) <=> Grants(B, op, p)
      BY <1>5, <1>7 DEF Grants
    <3>4. (\E i \in 1..a : Decides(C, i, op, p) /\ A[i].allow)
            <=> Grants(A, op, p) /\ Silent
      BY <1>5, <1>7 DEF Grants
    <3> QED BY <3>1, <3>2, <3>3, <3>4
  <2>2. Denies(C, op, p) <=> Denies(B, op, p) \/ (Denies(A, op, p) /\ Silent)
    <3>1. Denies(C, op, p) <=> \E i \in 1..(a + b) : Decides(C, i, op, p) /\ ~C[i].allow
      BY <1>4, <1>5 DEF Denies
    <3>2. (\E i \in 1..(a + b) : Decides(C, i, op, p) /\ ~C[i].allow) <=>
            \/ \E i \in 1..a : Decides(C, i, op, p) /\ ~A[i].allow
            \/ \E j \in 1..b : Decides(C, a + j, op, p) /\ ~B[j].allow
      BY <1>6
    <3>3. (\E j \in 1..b : Decides(C, a + j, op, p) /\ ~B[j].allow) <=> Denies(B, op, p)
      BY <1>5, <1>7 DEF Denies
    <3>4. (\E i \in 1..a : Decides(C, i, op, p) /\ ~A[i].allow)
            <=> Denies(A, op, p) /\ Silent
      BY <1>5, <1>7 DEF Denies
    <3> QED BY <3>1, <3>2, <3>3, <3>4
  <2>3. Silent <=> ~Grants(B, op, p) /\ ~Denies(B, op, p)
    BY <1>8
  <2> HIDE DEF Silent
  <2> QED BY <2>1, <2>2, <2>3
<1>11. IsList(C)
  BY <1>4 DEF IsList
<1> QED BY <1>10, <1>11 DEF C

(* Lists written out.                                                      *)
LEMMA NoRules ==
  /\ IsList(<<>>)
  /\ \A op, p : ~Grants(<<>>, op, p) /\ ~Denies(<<>>, op, p)
BY DEF IsList, Grants, Denies

LEMMA OneRule ==
  ASSUME NEW a
  PROVE  /\ IsList(<<a>>)
         /\ \A op, p :
              /\ Grants(<<a>>, op, p) <=> Matches(a, op, p) /\ a.allow
              /\ Denies(<<a>>, op, p) <=> Matches(a, op, p) /\ ~a.allow
<1>1. <<a>> \in Seq({a}) /\ Len(<<a>>) = 1 /\ <<a>>[1] = a
  OBVIOUS
<1> DEFINE s == <<a>>
<1> HIDE DEF s
<1>2. ASSUME NEW op, NEW p
      PROVE  /\ Grants(s, op, p) <=> Matches(a, op, p) /\ a.allow
             /\ Denies(s, op, p) <=> Matches(a, op, p) /\ ~a.allow
  BY <1>1 DEF Grants, Denies, Decides, s
<1> QED BY <1>1, <1>2 DEF IsList, s

LEMMA TwoRules ==
  ASSUME NEW a, NEW b
  PROVE  /\ IsList(<<a, b>>)
         /\ \A op, p :
              /\ Grants(<<a, b>>, op, p) <=>
                   \/ Matches(b, op, p) /\ b.allow
                   \/ Matches(a, op, p) /\ a.allow /\ ~(Matches(b, op, p) /\ ~b.allow)
              /\ Denies(<<a, b>>, op, p) <=>
                   \/ Matches(b, op, p) /\ ~b.allow
                   \/ Matches(a, op, p) /\ ~a.allow /\ ~(Matches(b, op, p) /\ b.allow)
<1> DEFINE A == <<a>>
           B == <<b>>
<1>1. <<a, b>> = A \o B
  <2>1. A \in Seq({a, b}) /\ B \in Seq({a, b}) /\ Len(A) = 1 /\ Len(B) = 1
    OBVIOUS
  <2>2. <<a, b>> \in Seq({a, b}) /\ Len(<<a, b>>) = 2
    OBVIOUS
  <2>3. A \o B \in Seq({a, b}) /\ Len(A \o B) = 2
    BY <2>1, ConcatProperties
  <2>4. (A \o B)[1] = a /\ (A \o B)[2] = b
    BY <2>1, ConcatProperties
  <2>5. \A k \in 1..2 : (A \o B)[k] = <<a, b>>[k]
    BY <2>4
  <2> QED BY <2>2, <2>3, <2>5, SeqEqual
<1>2. /\ IsList(A)
      /\ \A op, p : /\ Grants(A, op, p) <=> Matches(a, op, p) /\ a.allow
                    /\ Denies(A, op, p) <=> Matches(a, op, p) /\ ~a.allow
  BY OneRule
<1>3. /\ IsList(B)
      /\ \A op, p : /\ Grants(B, op, p) <=> Matches(b, op, p) /\ b.allow
                    /\ Denies(B, op, p) <=> Matches(b, op, p) /\ ~b.allow
  BY OneRule
<1> HIDE DEF A, B
<1>4. /\ IsList(A \o B)
      /\ \A op, p :
           /\ Grants(A \o B, op, p) <=>
                Grants(B, op, p) \/ (Grants(A, op, p) /\ ~Denies(B, op, p))
           /\ Denies(A \o B, op, p) <=>
                Denies(B, op, p) \/ (Denies(A, op, p) /\ ~Grants(B, op, p))
  BY <1>2, <1>3, LaterDecides
<1> QED BY <1>1, <1>2, <1>3, <1>4, Zenon

(* Rules that all allow: the order among them does not matter.             *)
LEMMA ThreeAllows ==
  ASSUME NEW a, NEW b, NEW c, a.allow, b.allow, c.allow
  PROVE  /\ IsList(<<a, b, c>>)
         /\ \A op, p :
              /\ Grants(<<a, b, c>>, op, p) <=>
                   Matches(a, op, p) \/ Matches(b, op, p) \/ Matches(c, op, p)
              /\ ~Denies(<<a, b, c>>, op, p)
<1> DEFINE A == <<a, b>>
           B == <<c>>
<1>1. <<a, b, c>> = A \o B
  OBVIOUS
<1>2. /\ IsList(A)
      /\ \A op, p : /\ Grants(A, op, p) <=> Matches(a, op, p) \/ Matches(b, op, p)
                    /\ ~Denies(A, op, p)
  BY TwoRules
<1>3. /\ IsList(B)
      /\ \A op, p : (Grants(B, op, p) <=> Matches(c, op, p)) /\ ~Denies(B, op, p)
  BY OneRule
<1> HIDE DEF A, B
<1>4. /\ IsList(A \o B)
      /\ \A op, p :
           /\ Grants(A \o B, op, p) <=>
                Grants(B, op, p) \/ (Grants(A, op, p) /\ ~Denies(B, op, p))
           /\ Denies(A \o B, op, p) <=>
                Denies(B, op, p) \/ (Denies(A, op, p) /\ ~Grants(B, op, p))
  BY <1>2, <1>3, LaterDecides
<1> QED BY <1>1, <1>2, <1>3, <1>4, Zenon

LEMMA FourAllows ==
  ASSUME NEW a, NEW b, NEW c, NEW d, a.allow, b.allow, c.allow, d.allow
  PROVE  /\ IsList(<<a, b, c, d>>)
         /\ \A op, p :
              /\ Grants(<<a, b, c, d>>, op, p) <=>
                   \/ Matches(a, op, p) \/ Matches(b, op, p)
                   \/ Matches(c, op, p) \/ Matches(d, op, p)
              /\ ~Denies(<<a, b, c, d>>, op, p)
<1> DEFINE A == <<a, b>>
           B == <<c, d>>
<1>1. <<a, b, c, d>> = A \o B
  OBVIOUS
<1>2. /\ IsList(A)
      /\ \A op, p : /\ Grants(A, op, p) <=> Matches(a, op, p) \/ Matches(b, op, p)
                    /\ ~Denies(A, op, p)
  BY TwoRules
<1>3. /\ IsList(B)
      /\ \A op, p : /\ Grants(B, op, p) <=> Matches(c, op, p) \/ Matches(d, op, p)
                    /\ ~Denies(B, op, p)
  BY TwoRules
<1> HIDE DEF A, B
<1>4. /\ IsList(A \o B)
      /\ \A op, p :
           /\ Grants(A \o B, op, p) <=>
                Grants(B, op, p) \/ (Grants(A, op, p) /\ ~Denies(B, op, p))
           /\ Denies(A \o B, op, p) <=>
                Denies(B, op, p) \/ (Denies(A, op, p) /\ ~Grants(B, op, p))
  BY <1>2, <1>3, LaterDecides
<1> QED BY <1>1, <1>2, <1>3, <1>4, Zenon

LEMMA RuleMeaning ==
  ASSUME NEW ops, NEW S, NEW op, NEW p
  PROVE  /\ Allow(ops, "subpath", S).allow /\ Allow(ops, "literal", S).allow
         /\ ~Deny(ops, "subpath", S).allow /\ ~Deny(ops, "literal", S).allow
         /\ Matches(Allow(ops, "subpath", S), op, p) <=> op \in ops /\ AlreadyBound(p, S)
         /\ Matches(Deny(ops, "subpath", S), op, p) <=> op \in ops /\ AlreadyBound(p, S)
         /\ Matches(Allow(ops, "literal", S), op, p) <=> op \in ops /\ p \in S
         /\ Matches(Deny(ops, "literal", S), op, p) <=> op \in ops /\ p \in S
BY DEF Allow, Deny, Rule, Matches, AlreadyBound

-----------------------------------------------------------------------------
(* The sections, whatever the operation.                                   *)

LEMMA WorkspaceRules ==
  ASSUME NEW h
  PROVE  /\ IsList(Workspace(h))
         /\ \A op, p :
              /\ Grants(Workspace(h), op, p) <=>
                   \/ op \in Reading \cup {"write", "exec"} /\ Under(p, SandboxHome(h))
                   \/ op \in Reading \cup {"write"} /\ Under(p, h.workspace)
                   \/ op \in Reading /\ AlreadyBound(p, GrantableRepoRoot(h))
                   \/ op \in Reading \cup {"write"} /\ AlreadyBound(p, GitDirOf(h))
              /\ ~Denies(Workspace(h), op, p)
<1> DEFINE a == Allow(Reading \cup {"write", "exec"}, "subpath", {SandboxHome(h)})
           b == Allow(Reading \cup {"write"}, "subpath", {h.workspace})
           c == Allow(Reading, "subpath", GrantableRepoRoot(h))
           d == Allow(Reading \cup {"write"}, "subpath", GitDirOf(h))
<1>1. Workspace(h) = <<a, b, c, d>>
  BY DEF Workspace
<1>2. a.allow /\ b.allow /\ c.allow /\ d.allow
  BY RuleMeaning
<1>3. ASSUME NEW op, NEW p
      PROVE  /\ Matches(a, op, p) <=>
                  op \in Reading \cup {"write", "exec"} /\ Under(p, SandboxHome(h))
             /\ Matches(b, op, p) <=> op \in Reading \cup {"write"} /\ Under(p, h.workspace)
             /\ Matches(c, op, p) <=> op \in Reading /\ AlreadyBound(p, GrantableRepoRoot(h))
             /\ Matches(d, op, p) <=>
                  op \in Reading \cup {"write"} /\ AlreadyBound(p, GitDirOf(h))
  BY RuleMeaning DEF AlreadyBound
<1> HIDE DEF a, b, c, d
<1> QED BY <1>1, <1>2, <1>3, FourAllows

LEMMA DeclaredRules ==
  ASSUME NEW h
  PROVE  /\ IsList(Declared(h))
         /\ \A op, p :
              /\ Grants(Declared(h), op, p) <=>
                   \/ op \in Reading \cup {"write", "exec"} /\ AlreadyBound(p, RwDirs(h))
                   \/ op \in Reading \cup {"write"} /\ p \in PathsOf(InMode(h, "rw"), "file")
                   \/ op \in Reading /\ AlreadyBound(p, PathsOf(InMode(h, "ro"), "dir"))
                   \/ op \in Reading /\ p \in PathsOf(InMode(h, "ro"), "file")
              /\ ~Denies(Declared(h), op, p)
<1> DEFINE a == Allow(Reading \cup {"write", "exec"}, "subpath", RwDirs(h))
           b == Allow(Reading \cup {"write"}, "literal", PathsOf(InMode(h, "rw"), "file"))
           c == Allow(Reading, "subpath", PathsOf(InMode(h, "ro"), "dir"))
           d == Allow(Reading, "literal", PathsOf(InMode(h, "ro"), "file"))
<1>1. Declared(h) = <<a, b, c, d>>
  BY DEF Declared
<1>2. a.allow /\ b.allow /\ c.allow /\ d.allow
  BY RuleMeaning
<1>3. ASSUME NEW op, NEW p
      PROVE  /\ Matches(a, op, p) <=>
                  op \in Reading \cup {"write", "exec"} /\ AlreadyBound(p, RwDirs(h))
             /\ Matches(b, op, p) <=>
                  op \in Reading \cup {"write"} /\ p \in PathsOf(InMode(h, "rw"), "file")
             /\ Matches(c, op, p) <=>
                  op \in Reading /\ AlreadyBound(p, PathsOf(InMode(h, "ro"), "dir"))
             /\ Matches(d, op, p) <=>
                  op \in Reading /\ p \in PathsOf(InMode(h, "ro"), "file")
  BY RuleMeaning
<1> HIDE DEF a, b, c, d
<1> QED BY <1>1, <1>2, <1>3, FourAllows

LEMMA SessionRules ==
  ASSUME NEW h
  PROVE  /\ IsList(SessionFiles(h))
         /\ \A op, p :
              /\ Grants(SessionFiles(h), op, p) <=>
                   \/ op \in Reading /\ p = Passwd(h)
                   \/ op \in Reading /\ h.proxy /\ p = CABundle(h)
                   \/ op \in Reading \cup {"write"} /\ Under(p, SandboxTmp(h))
              /\ ~Denies(SessionFiles(h), op, p)
<1> DEFINE S == {Passwd(h)} \cup (IF h.proxy THEN {CABundle(h)} ELSE {})
           a == Allow(Reading, "literal", S)
           b == Allow(Reading \cup {"write"}, "subpath", {SandboxTmp(h)})
<1>1. SessionFiles(h) = <<a, b>>
  BY DEF SessionFiles
<1>2. a.allow /\ b.allow
  BY RuleMeaning
<1>3. ASSUME NEW op, NEW p
      PROVE  /\ Matches(a, op, p) <=> op \in Reading /\ p \in S
             /\ Matches(b, op, p) <=> op \in Reading \cup {"write"} /\ Under(p, SandboxTmp(h))
  BY RuleMeaning DEF AlreadyBound
<1> HIDE DEF a, b
<1> QED BY <1>1, <1>2, <1>3, TwoRules

LEMMA TraversalRules ==
  ASSUME NEW h
  PROVE  /\ IsList(Traversal(h))
         /\ \A op, p :
              /\ op # "stat" => (Grants(Traversal(h), op, p) <=> op = "read" /\ p = <<>>)
              /\ op = "stat" /\ p \in Ancestors(Store) \cup {Store, Home, <<>>} \cup SystemDirs =>
                   Grants(Traversal(h), op, p)
              /\ ~Denies(Traversal(h), op, p)
<1> DEFINE c == Allow({"stat"}, "literal",
                      SystemDirs \cup {Home}
                        \cup (IF GitUsable(h) THEN {Parent(RepoRoot(h))} ELSE {}))
           a == Allow({"stat"}, "literal", Ancestors(Store) \cup {Store})
           b == Allow(Reading, "literal", {<<>>})
<1>1. Traversal(h) = <<a, b, c>>
  BY DEF Traversal
<1>2. a.allow /\ b.allow /\ c.allow
  BY RuleMeaning
<1>3. ASSUME NEW op, NEW p
      PROVE  /\ Matches(a, op, p) => op = "stat"
             /\ Matches(b, op, p) <=> op \in Reading /\ p = <<>>
             /\ Matches(c, op, p) => op = "stat"
             /\ op = "stat" /\ p \in Ancestors(Store) \cup {Store} => Matches(a, op, p)
             /\ op = "stat" /\ p \in SystemDirs \cup {Home} => Matches(c, op, p)
  BY RuleMeaning
<1> HIDE DEF a, b, c
<1>4. ASSUME NEW op, NEW p, op # "stat"
      PROVE  Grants(Traversal(h), op, p) <=> op = "read" /\ p = <<>>
  BY <1>1, <1>2, <1>3, <1>4, ThreeAllows DEF Reading
<1>5. ASSUME NEW p, p \in Ancestors(Store) \cup {Store, Home, <<>>} \cup SystemDirs
      PROVE  Grants(Traversal(h), "stat", p)
  BY <1>1, <1>2, <1>3, <1>5, ThreeAllows DEF Reading
<1> QED BY <1>1, <1>2, <1>4, <1>5, ThreeAllows

LEMMA StoreRules ==
  ASSUME NEW h
  PROVE  /\ IsList(StoreGrants(h))
         /\ \A op, p :
              /\ Grants(StoreGrants(h), op, p) <=>
                   \/ op \in Reading \cup {"exec"} /\ AlreadyBound(p, Closure)
                   \/ op \in Reading /\ AlreadyBound(p, StoreTargets(h, Exposed(h)))
              /\ ~Denies(StoreGrants(h), op, p)
<1> DEFINE a == Allow(Reading \cup {"exec"}, "subpath", Closure)
           b == Allow(Reading, "subpath", StoreTargets(h, Exposed(h)))
<1>1. StoreGrants(h) = <<a, b>>
  BY DEF StoreGrants
<1>2. a.allow /\ b.allow
  BY RuleMeaning
<1>3. ASSUME NEW op, NEW p
      PROVE  /\ Matches(a, op, p) <=> op \in Reading \cup {"exec"} /\ AlreadyBound(p, Closure)
             /\ Matches(b, op, p) <=>
                  op \in Reading /\ AlreadyBound(p, StoreTargets(h, Exposed(h)))
  BY RuleMeaning
<1> HIDE DEF a, b
<1> QED BY <1>1, <1>2, <1>3, TwoRules

LEMMA NixRules ==
  ASSUME NEW h
  PROVE  /\ IsList(NixSupport(h))
         /\ \A op, p :
              /\ op # "stat" =>
                   (Grants(NixSupport(h), op, p) <=>
                      /\ h.socket # NoPath
                      /\ \/ op = "connect" /\ p = h.socket
                         \/ op \in Reading \cup {"exec"} /\ Under(p, Store))
              /\ op = "stat" /\ h.socket # NoPath /\ Under(p, Store) =>
                   Grants(NixSupport(h), op, p)
              /\ ~Denies(NixSupport(h), op, p)
<1> DEFINE a == Allow({"stat"}, "subpath", {NixVar})
           b == Allow({"connect"}, "literal", {h.socket})
           c == Allow(Reading \cup {"exec"}, "subpath", {Store})
<1>1. CASE h.socket = NoPath
  BY <1>1, NoRules DEF NixSupport
<1>2. CASE h.socket # NoPath
  <2>1. NixSupport(h) = <<a, b, c>>
    BY <1>2 DEF NixSupport
  <2>2. a.allow /\ b.allow /\ c.allow
    BY RuleMeaning
  <2>3. ASSUME NEW op, NEW p
        PROVE  /\ Matches(a, op, p) => op = "stat"
               /\ Matches(b, op, p) <=> op = "connect" /\ p = h.socket
               /\ Matches(c, op, p) <=> op \in Reading \cup {"exec"} /\ Under(p, Store)
    BY RuleMeaning DEF AlreadyBound
  <2> HIDE DEF a, b, c
  <2> QED BY <1>2, <2>1, <2>2, <2>3, ThreeAllows DEF Reading
<1> QED BY <1>1, <1>2

LEMMA DenyRules ==
  ASSUME NEW ops, NEW S
  PROVE  /\ IsList(DenyOn(ops, S))
         /\ \A op, p :
              /\ ~Grants(DenyOn(ops, S), op, p)
              /\ Denies(DenyOn(ops, S), op, p) <=>
                   /\ op \in ops
                   /\ AlreadyBound(p, PathsOf(S, "dir")) \/ p \in PathsOf(S, "file")
<1> DEFINE a == Deny(ops, "subpath", PathsOf(S, "dir"))
           b == Deny(ops, "literal", PathsOf(S, "file"))
<1>1. DenyOn(ops, S) = <<a, b>>
  BY DEF DenyOn
<1>2. ~a.allow /\ ~b.allow
  BY RuleMeaning
<1>3. ASSUME NEW op, NEW p
      PROVE  /\ Matches(a, op, p) <=> op \in ops /\ AlreadyBound(p, PathsOf(S, "dir"))
             /\ Matches(b, op, p) <=> op \in ops /\ p \in PathsOf(S, "file")
  BY RuleMeaning
<1> HIDE DEF a, b
<1> QED BY <1>1, <1>2, <1>3, TwoRules

LEMMA NetworkModeRules ==
  ASSUME NEW h
  PROVE  /\ IsList(Network(h))
         /\ \A op, p :
              /\ Grants(Network(h), op, p) <=>
                   ~h.proxy /\ op = "bind" /\ AlreadyBound(p, Anywhere)
              /\ Denies(Network(h), op, p) <=>
                   ~h.proxy /\ op = "connect" /\ AlreadyBound(p, Anywhere)
<1> DEFINE a == Allow({"bind", "connect"}, "subpath", Anywhere)
           b == Deny({"connect"}, "subpath", Anywhere)
<1>1. CASE h.proxy
  BY <1>1, NoRules DEF Network
<1>2. CASE ~h.proxy
  <2>1. Network(h) = <<a, b>>
    BY <1>2 DEF Network
  <2>2. a.allow /\ ~b.allow
    BY RuleMeaning
  <2>3. ASSUME NEW op, NEW p
        PROVE  /\ Matches(a, op, p) <=>
                    op \in {"bind", "connect"} /\ AlreadyBound(p, Anywhere)
               /\ Matches(b, op, p) <=> op = "connect" /\ AlreadyBound(p, Anywhere)
    BY RuleMeaning
  <2> HIDE DEF a, b
  <2> QED BY <1>2, <2>1, <2>2, <2>3, TwoRules
<1> QED BY <1>1, <1>2

(* Directories where sockets may be met, and the read-only among them.     *)
Met(h) == GrantableRepoRoot(h) \cup PathsOf(InMode(h, "ro"), "dir")
SocketsShut(h, p) ==
  LET S == ReadOnlyWithin(h, SocketDirs(h))
  IN  AlreadyBound(p, PathsOf(S, "dir")) \/ p \in PathsOf(S, "file")

LEMMA SocketRules ==
  ASSUME NEW h, h.unix \in {"all", "browser", "none"}
  PROVE  /\ IsList(UnixSockets(h))
         /\ \A op, p :
              /\ Grants(UnixSockets(h), op, p) <=>
                   \/ /\ h.unix = "all"
                      /\ \/ op = "connect" /\ AlreadyBound(p, SocketDirs(h))
                         \/ /\ op = "bind" /\ AlreadyBound(p, SocketDirs(h))
                            /\ ~SocketsShut(h, p)
                         \/ op = "connect" /\ AlreadyBound(p, Met(h))
                         \/ op = "connect" /\ p \in PathsOf(InMode(h, "ro"), "file")
                   \/ /\ h.unix = "browser" /\ op \in {"bind", "connect"}
                      /\ Under(p, SandboxTmp(h))
              /\ Denies(UnixSockets(h), op, p) <=>
                   h.unix = "all" /\ op = "bind" /\ SocketsShut(h, p)
<1> DEFINE a == Allow({"bind", "connect"}, "subpath", SocketDirs(h))
           b == Allow({"connect"}, "subpath", Met(h))
           c == Allow({"connect"}, "literal", PathsOf(InMode(h, "ro"), "file"))
           A == <<a, b, c>>
           B == DenyOn({"bind"}, ReadOnlyWithin(h, SocketDirs(h)))
<1>1. CASE h.unix = "all"
  <2>1. UnixSockets(h) = A \o B
    BY <1>1 DEF UnixSockets, Met
  <2>2. a.allow /\ b.allow /\ c.allow
    BY RuleMeaning
  <2>3. ASSUME NEW op, NEW p
        PROVE  /\ Matches(a, op, p) <=>
                    op \in {"bind", "connect"} /\ AlreadyBound(p, SocketDirs(h))
               /\ Matches(b, op, p) <=> op = "connect" /\ AlreadyBound(p, Met(h))
               /\ Matches(c, op, p) <=>
                    op = "connect" /\ p \in PathsOf(InMode(h, "ro"), "file")
    BY RuleMeaning
  <2> HIDE DEF a, b, c
  <2>4. /\ IsList(A)
        /\ \A op, p :
             /\ Grants(A, op, p) <=>
                  Matches(a, op, p) \/ Matches(b, op, p) \/ Matches(c, op, p)
             /\ ~Denies(A, op, p)
    BY <2>2, ThreeAllows
  <2>5. /\ IsList(B)
        /\ \A op, p :
             /\ ~Grants(B, op, p)
             /\ Denies(B, op, p) <=> op = "bind" /\ SocketsShut(h, p)
    BY DenyRules DEF SocketsShut
  <2> HIDE DEF A, B
  <2>6. /\ IsList(A \o B)
        /\ \A op, p :
             /\ Grants(A \o B, op, p) <=>
                  Grants(B, op, p) \/ (Grants(A, op, p) /\ ~Denies(B, op, p))
             /\ Denies(A \o B, op, p) <=>
                  Denies(B, op, p) \/ (Denies(A, op, p) /\ ~Grants(B, op, p))
    BY <2>4, <2>5, LaterDecides
  <2>7. ASSUME NEW op, NEW p
        PROVE  /\ Grants(A \o B, op, p) <=>
                    \/ op = "connect" /\ AlreadyBound(p, SocketDirs(h))
                    \/ /\ op = "bind" /\ AlreadyBound(p, SocketDirs(h))
                       /\ ~SocketsShut(h, p)
                    \/ op = "connect" /\ AlreadyBound(p, Met(h))
                    \/ op = "connect" /\ p \in PathsOf(InMode(h, "ro"), "file")
               /\ Denies(A \o B, op, p) <=> op = "bind" /\ SocketsShut(h, p)
    BY <2>3, <2>4, <2>5, <2>6
  <2> QED BY <1>1, <2>1, <2>6, <2>7
<1>2. CASE h.unix = "browser"
  <2> DEFINE e == Allow({"bind", "connect"}, "subpath", {SandboxTmp(h)})
  <2>1. UnixSockets(h) = <<e>>
    BY <1>2 DEF UnixSockets
  <2>2. ASSUME NEW op, NEW p
        PROVE  Matches(e, op, p) <=> op \in {"bind", "connect"} /\ Under(p, SandboxTmp(h))
    BY RuleMeaning DEF AlreadyBound
  <2>3. e.allow
    BY RuleMeaning
  <2> HIDE DEF e
  <2> QED BY <1>2, <2>1, <2>2, <2>3, OneRule
<1>3. CASE h.unix = "none"
  BY <1>3, NoRules DEF UnixSockets
<1> QED BY <1>1, <1>2, <1>3

LEMMA ProtectionRules ==
  ASSUME NEW h
  PROVE  /\ IsList(GitProtection(h))
         /\ \A op, p :
              /\ Grants(GitProtection(h), op, p) <=>
                   GitUsable(h) /\ op = "exec" /\ AlreadyBound(p, ProtectedDirs(h))
              /\ Denies(GitProtection(h), op, p) <=>
                   /\ GitUsable(h) /\ op = "write"
                   /\ AlreadyBound(p, ProtectedDirs(h)) \/ p \in ProtectedFiles(h)
<1> DEFINE a == Deny({"write"}, "subpath", ProtectedDirs(h))
           b == Deny({"write"}, "literal", ProtectedFiles(h))
           c == Allow({"exec"}, "subpath", ProtectedDirs(h))
           A == <<a, b>>
           B == <<c>>
<1>1. CASE ~GitUsable(h)
  BY <1>1, NoRules DEF GitProtection
<1>2. CASE GitUsable(h)
  <2>1. GitProtection(h) = A \o B
    <3>1. GitProtection(h) = <<a, b, c>>
      BY <1>2 DEF GitProtection
    <3> HIDE DEF a, b, c
    <3>2. <<a, b, c>> = A \o B
      OBVIOUS
    <3> QED BY <3>1, <3>2
  <2>2. ~a.allow /\ ~b.allow /\ c.allow
    BY RuleMeaning
  <2>3. ASSUME NEW op, NEW p
        PROVE  /\ Matches(a, op, p) <=> op = "write" /\ AlreadyBound(p, ProtectedDirs(h))
               /\ Matches(b, op, p) <=> op = "write" /\ p \in ProtectedFiles(h)
               /\ Matches(c, op, p) <=> op = "exec" /\ AlreadyBound(p, ProtectedDirs(h))
    BY RuleMeaning
  <2> HIDE DEF a, b, c
  <2>4. /\ IsList(A)
        /\ \A op, p :
             /\ ~Grants(A, op, p)
             /\ Denies(A, op, p) <=> Matches(a, op, p) \/ Matches(b, op, p)
    BY <2>2, TwoRules
  <2>5. /\ IsList(B)
        /\ \A op, p :
             /\ Grants(B, op, p) <=> Matches(c, op, p)
             /\ ~Denies(B, op, p)
    BY <2>2, OneRule
  <2> HIDE DEF A, B
  <2>6. /\ IsList(A \o B)
        /\ \A op, p :
             /\ Grants(A \o B, op, p) <=>
                  Grants(B, op, p) \/ (Grants(A, op, p) /\ ~Denies(B, op, p))
             /\ Denies(A \o B, op, p) <=>
                  Denies(B, op, p) \/ (Denies(A, op, p) /\ ~Grants(B, op, p))
    BY <2>4, <2>5, LaterDecides
  <2>7. ASSUME NEW op, NEW p
        PROVE  /\ Grants(A \o B, op, p) <=> op = "exec" /\ AlreadyBound(p, ProtectedDirs(h))
               /\ Denies(A \o B, op, p) <=>
                    /\ op = "write"
                    /\ AlreadyBound(p, ProtectedDirs(h)) \/ p \in ProtectedFiles(h)
    BY <2>3, <2>4, <2>5, <2>6
  <2> QED BY <1>2, <2>1, <2>6, <2>7
<1> QED BY <1>1, <1>2

-----------------------------------------------------------------------------
(* The profile: what is granted early, unless the sockets or the network   *)
(* deny it; what the middle grants; and what the end denies or grants.     *)

Early(h, op, p) ==
  \/ Grants(NixSupport(h), op, p)
  \/ Grants(UnixSockets(h), op, p)
  \/ /\ ~Denies(UnixSockets(h), op, p)
     /\ \/ Grants(Network(h), op, p)
        \/ op = "exec" /\ Under(p, h.workspace) /\ ~Denies(Network(h), op, p)

Middle(h, op, p) ==
  \/ Grants(SessionFiles(h), op, p) \/ Grants(Traversal(h), op, p)
  \/ Grants(Workspace(h), op, p) \/ Grants(Declared(h), op, p)
  \/ Grants(StoreGrants(h), op, p)
  \/ op = "stat" /\ p \in TraversalAncestors(h)

LEMMA ProfileMeaning ==
  ASSUME NEW h, h.unix \in {"all", "browser", "none"}
  PROVE  /\ IsList(Profile(h))
         /\ \A op, p :
              Grants(Profile(h), op, p) <=>
                \/ Grants(GitProtection(h), op, p)
                \/ /\ ~Denies(GitProtection(h), op, p) /\ ~Denies(NestedReadOnly(h), op, p)
                   /\ Early(h, op, p) \/ Middle(h, op, p)
<1> DEFINE first == <<Allow({"exec"}, "subpath", {h.workspace})>>
           stats == <<Allow({"stat"}, "literal", TraversalAncestors(h))>>
           p1 == first \o Network(h)
           p2 == p1 \o UnixSockets(h)
           p3 == p2 \o NixSupport(h)
           p4 == p3 \o SessionFiles(h)
           p5 == p4 \o Traversal(h)
           p6 == p5 \o Workspace(h)
           p7 == p6 \o Declared(h)
           p8 == p7 \o StoreGrants(h)
           p9 == p8 \o stats
           p10 == p9 \o NestedReadOnly(h)
           p11 == p10 \o GitProtection(h)
<1>0. Profile(h) = p11
  BY DEF Profile
<1>1. /\ IsList(first)
      /\ \A op, p : /\ Grants(first, op, p) <=> op = "exec" /\ Under(p, h.workspace)
                    /\ ~Denies(first, op, p)
  BY OneRule, RuleMeaning DEF AlreadyBound
<1>2. /\ IsList(stats)
      /\ \A op, p : /\ Grants(stats, op, p) <=> op = "stat" /\ p \in TraversalAncestors(h)
                    /\ ~Denies(stats, op, p)
  BY OneRule, RuleMeaning
<1> HIDE DEF first, stats
<1>3. /\ IsList(p1)
      /\ \A op, p :
           /\ Grants(p1, op, p) <=>
                Grants(Network(h), op, p)
                  \/ (Grants(first, op, p) /\ ~Denies(Network(h), op, p))
           /\ Denies(p1, op, p) <=>
                Denies(Network(h), op, p)
                  \/ (Denies(first, op, p) /\ ~Grants(Network(h), op, p))
  BY <1>1, NetworkModeRules, LaterDecides
<1> HIDE DEF p1
<1>4. /\ IsList(p2)
      /\ \A op, p :
           /\ Grants(p2, op, p) <=>
                Grants(UnixSockets(h), op, p)
                  \/ (Grants(p1, op, p) /\ ~Denies(UnixSockets(h), op, p))
           /\ Denies(p2, op, p) <=>
                Denies(UnixSockets(h), op, p)
                  \/ (Denies(p1, op, p) /\ ~Grants(UnixSockets(h), op, p))
  BY <1>3, SocketRules, LaterDecides
<1> HIDE DEF p2
<1>5. /\ IsList(p3)
      /\ \A op, p : Grants(p3, op, p) <=> Grants(NixSupport(h), op, p) \/ Grants(p2, op, p)
  BY <1>4, NixRules, LaterDecides
<1>6. \A op, p : Grants(p3, op, p) <=> Early(h, op, p)
  <2> TAKE op, p
  <2>1. Grants(p1, op, p) <=>
          \/ Grants(Network(h), op, p)
          \/ op = "exec" /\ Under(p, h.workspace) /\ ~Denies(Network(h), op, p)
    BY <1>1, <1>3
  <2> QED BY <1>4, <1>5, <2>1 DEF Early
<1> HIDE DEF p3
<1>7. /\ IsList(p4)
      /\ \A op, p : Grants(p4, op, p) <=> Grants(SessionFiles(h), op, p) \/ Grants(p3, op, p)
  BY <1>5, SessionRules, LaterDecides
<1> HIDE DEF p4
<1>8. /\ IsList(p5)
      /\ \A op, p : Grants(p5, op, p) <=> Grants(Traversal(h), op, p) \/ Grants(p4, op, p)
  BY <1>7, TraversalRules, LaterDecides
<1> HIDE DEF p5
<1>9. /\ IsList(p6)
      /\ \A op, p : Grants(p6, op, p) <=> Grants(Workspace(h), op, p) \/ Grants(p5, op, p)
  BY <1>8, WorkspaceRules, LaterDecides
<1> HIDE DEF p6
<1>10. /\ IsList(p7)
       /\ \A op, p : Grants(p7, op, p) <=> Grants(Declared(h), op, p) \/ Grants(p6, op, p)
  BY <1>9, DeclaredRules, LaterDecides
<1> HIDE DEF p7
<1>11. /\ IsList(p8)
       /\ \A op, p : Grants(p8, op, p) <=> Grants(StoreGrants(h), op, p) \/ Grants(p7, op, p)
  BY <1>10, StoreRules, LaterDecides
<1> HIDE DEF p8
<1>12. /\ IsList(p9)
       /\ \A op, p : Grants(p9, op, p) <=> Grants(stats, op, p) \/ Grants(p8, op, p)
  BY <1>2, <1>11, LaterDecides
<1> HIDE DEF p9
<1>13. /\ IsList(p10)
       /\ \A op, p : Grants(p10, op, p) <=>
                       Grants(p9, op, p) /\ ~Denies(NestedReadOnly(h), op, p)
  BY <1>12, DenyRules, LaterDecides DEF NestedReadOnly
<1> HIDE DEF p10
<1>14. /\ IsList(p11)
       /\ \A op, p : Grants(p11, op, p) <=>
                       \/ Grants(GitProtection(h), op, p)
                       \/ Grants(p10, op, p) /\ ~Denies(GitProtection(h), op, p)
  BY <1>13, ProtectionRules, LaterDecides
<1> HIDE DEF p11
<1>15. \A op, p : Grants(p9, op, p) <=> Early(h, op, p) \/ Middle(h, op, p)
  BY <1>2, <1>6, <1>7, <1>8, <1>9, <1>10, <1>11, <1>12 DEF Middle
<1> QED BY <1>0, <1>13, <1>14, <1>15

-----------------------------------------------------------------------------
(* The host, read or yet to be read.                                       *)

HostInv ==
  \E h \in Hosts :
    host = IF status = "reading" THEN h ELSE [h EXCEPT !.declared = ReadAll(h)]

(* What reading a host does not change.                                    *)
Grounded(h) ==
  /\ \A q \in DOMAIN h.links : h.links[q] \in Paths
  /\ DOMAIN h.links \cup h.dirs \cup h.files \cup h.worktrees \subseteq Paths
  /\ h.workspace \in Paths /\ h.session \in Paths
  /\ h.common # NoPath => h.common \in Paths
  /\ h.unix \in {"all", "browser", "none"}
  /\ h.socket # NoPath => h.allowNix
  /\ \A k \in 1..Len(SandboxHome(h)) : SubSeq(SandboxHome(h), 1, k) \notin DOMAIN h.links
  /\ \A p \in h.dirs \cup h.files \cup DOMAIN h.links : ~Under(p, SandboxHome(h))

Entries(h) == {ReadDeclared(h, x) : x \in DeclaredNames}

LEMMA EntryFacts ==
  ASSUME NEW h, \A q \in DOMAIN h.links : h.links[q] \in Paths, NEW d \in Entries(h)
  PROVE  /\ d.mode \in {"rw", "ro"} /\ d.kind \in {"dir", "file"} /\ d.path \in Paths
<1>1. PICK x \in DeclaredNames : d = ReadDeclared(h, x)
  BY DEF Entries
<1>2. x.name \in Paths /\ x.mode \in {"rw", "ro"} /\ x.kind \in {"dir", "file"}
  BY DEF DeclaredNames
<1>3. /\ d.mode = x.mode /\ d.kind = x.kind
      /\ d.path = IF Whole(x.name, h.links) THEN PhysicalPath(x.name, h.links) ELSE x.name
  BY <1>1 DEF ReadDeclared
<1> QED BY <1>2, <1>3, PhysicalIsPath

LEMMA ReadAllEntries ==
  ASSUME NEW h, h.declared \in Seq(DeclaredNames)
  PROVE  ReadAll(h) \in Seq(Entries(h))
<1> DEFINE is(n, m, k) == h.declared[n].mode = m /\ h.declared[n].kind = k
           group(m, k) ==
             Selected(h.declared, {n \in 1..Len(h.declared) : is(n, m, k)})
           all == group("rw", "dir") \o group("rw", "file")
                    \o group("ro", "dir") \o group("ro", "file")
<1>1. ASSUME NEW m, NEW k PROVE group(m, k) \in Seq(DeclaredNames)
  BY SelectedFrom
<1>2. all \in Seq(DeclaredNames)
  <2> HIDE DEF group
  <2> QED BY <1>1, ConcatProperties
<1>3. ReadAll(h) = [n \in 1..Len(all) |-> ReadDeclared(h, all[n])]
  BY DEF ReadAll
<1> HIDE DEF all
<1>4. PICK N \in Nat : N = Len(all)
  BY <1>2
<1>5. \A n \in 1..N : ReadDeclared(h, all[n]) \in Entries(h)
  BY <1>2, <1>4 DEF Entries
<1> QED BY <1>3, <1>4, <1>5, IsASeq

LEMMA HostFacts ==
  ASSUME HostInv
  PROVE  /\ Grounded(host)
         /\ status = "reading" => host.declared \in Seq(DeclaredNames)
         /\ status # "reading" => host.declared \in Seq(Entries(host))
<1>1. PICK h \in Hosts :
        host = IF status = "reading" THEN h ELSE [h EXCEPT !.declared = ReadAll(h)]
  BY DEF HostInv
<1>2. h.declared \in Seq(DeclaredNames) /\ Grounded(h)
  BY HostsAssumption, SessionAssumption DEF Grounded
<1>3. CASE status = "reading"
  BY <1>1, <1>2, <1>3
<1>4. CASE status # "reading"
  <2>1. /\ host.links = h.links /\ host.dirs = h.dirs /\ host.files = h.files
        /\ host.worktrees = h.worktrees /\ host.workspace = h.workspace
        /\ host.session = h.session /\ host.common = h.common /\ host.unix = h.unix
        /\ host.socket = h.socket /\ host.allowNix = h.allowNix
        /\ host.declared = ReadAll(h)
    <3>1. DOMAIN h = {"links", "dirs", "files", "workspace", "declared", "common",
                      "worktrees", "worktreeConfig", "coreWorktrees",
                      "allowNix", "socket", "proxy", "session", "unix"}
      BY HostsAssumption
    <3> QED BY <1>1, <1>4, <3>1
  <2>2. Grounded(host)
    BY <1>2, <2>1 DEF Grounded, SandboxHome
  <2>3. \A x : ReadDeclared(host, x) = ReadDeclared(h, x)
    BY <2>1 DEF ReadDeclared, Exists, IsDir, IsFile, InnerSymlinks
  <2>4. Entries(host) = Entries(h)
    BY <2>3 DEF Entries
  <2> QED BY <1>2, <1>4, <2>1, <2>2, <2>4, ReadAllEntries
<1> QED BY <1>3, <1>4

LEMMA DeclaredFacts ==
  ASSUME HostInv, status # "reading", NEW d \in DeclaredSet(host)
  PROVE  d.mode \in {"rw", "ro"} /\ d.kind \in {"dir", "file"} /\ d.path \in Paths
<1>1. d \in Entries(host)
  BY HostFacts DEF DeclaredSet
<1> QED BY <1>1, HostFacts, EntryFacts DEF Grounded

-----------------------------------------------------------------------------
(* Sessions: the profile that is in force is that of the host.             *)

ProfileInv == status \in {"planting", "running", "died"} => profile = Profile(host)

Invariant == HostInv /\ ProfileInv

LEMMA InvariantHolds == Spec => []Invariant
<1>1. Init => Invariant
  BY DEF Init, Invariant, HostInv, ProfileInv
<1>2. Invariant /\ [Next]_vars => Invariant'
  <2> SUFFICES ASSUME Invariant, [Next]_vars PROVE Invariant'
    OBVIOUS
  <2>1. CASE ReadHost
    <3>1. PICK h \in Hosts : host = h
      BY <2>1 DEF Invariant, HostInv, ReadHost
    <3>2. host' = [h EXCEPT !.declared = ReadAll(h)] /\ status' = "checking"
      BY <2>1, <3>1 DEF ReadHost
    <3> QED BY <3>2 DEF Invariant, HostInv, ProfileInv
  <2>2. ASSUME NEW answers \in Answers, Refuse(answers) PROVE Invariant'
    BY <2>2 DEF Invariant, HostInv, ProfileInv, Refuse
  <2>3. ASSUME NEW answers \in Answers, Compute(answers) PROVE Invariant'
    BY <2>3 DEF Invariant, HostInv, ProfileInv, Compute
  <2>4. CASE PlantNext
    BY <2>4 DEF Invariant, HostInv, ProfileInv, PlantNext
  <2>5. CASE Die
    BY <2>5 DEF Invariant, HostInv, ProfileInv, Die
  <2>6. CASE Start
    BY <2>6 DEF Invariant, HostInv, ProfileInv, Start
  <2>7. CASE UNCHANGED vars
    BY <2>7 DEF Invariant, HostInv, ProfileInv, vars
  <2> QED BY <2>1, <2>2, <2>3, <2>4, <2>5, <2>6, <2>7 DEF Next
<1> QED BY <1>1, <1>2, PTL DEF Spec

(* Rules are by kind, a directory's for all that is under it.              *)
LEMMA CoveredByKind ==
  ASSUME Invariant, status # "reading", NEW S \in SUBSET DeclaredSet(host), NEW p
  PROVE  (\E d \in S : Covers(d, p)) <=>
           AlreadyBound(p, PathsOf(S, "dir")) \/ p \in PathsOf(S, "file")
<1>1. \A d \in S : d.kind \in {"dir", "file"}
  BY DeclaredFacts DEF Invariant
<1> QED BY <1>1 DEF Covers, AlreadyBound, PathsOf

LEMMA AllowedInSession ==
  ASSUME Invariant, status = "running", NEW op, NEW p
  PROVE  Allowed(op, p) <=>
           \/ Grants(GitProtection(host), op, p)
           \/ /\ ~Denies(GitProtection(host), op, p) /\ ~Denies(NestedReadOnly(host), op, p)
              /\ Early(host, op, p) \/ Middle(host, op, p)
<1>1. host.unix \in {"all", "browser", "none"}
  BY HostFacts DEF Invariant, Grounded
<1>2. profile = Profile(host)
  BY DEF Invariant, ProfileInv
<1>3. IsList(profile)
  BY <1>1, <1>2, ProfileMeaning
<1> QED BY <1>1, <1>2, <1>3, AllowedIsGranted, ProfileMeaning

-----------------------------------------------------------------------------
(* Writing.                                                                *)

(* What denies a write: something declared read-only inside, or git's.     *)
LEMMA WritesInSession ==
  ASSUME Invariant, status = "running", NEW p
  PROVE  Allowed("write", p) <=>
           /\ ~Protects(p)
           /\ ~\E d \in ReadOnlyWithin(host, RwAsked) : Covers(d, p)
           /\ \/ Under(p, SandboxTmp(host)) \/ Under(p, SandboxHome(host))
              \/ AlreadyBound(p, RwAsked) \/ p \in RwFiles
<1>0. host.unix \in {"all", "browser", "none"}
  BY HostFacts DEF Invariant, Grounded
<1>1. /\ ~Grants(GitProtection(host), "write", p)
      /\ Denies(GitProtection(host), "write", p) <=> Protects(p)
  <2>1. Protects(p) <=> /\ GitUsable(host)
                        /\ AlreadyBound(p, ProtectedDirs(host)) \/ p \in ProtectedFiles(host)
    BY DEF Protects, AlreadyBound
  <2> QED BY <2>1, ProtectionRules
<1>2. Denies(NestedReadOnly(host), "write", p) <=>
        \E d \in ReadOnlyWithin(host, RwAsked) : Covers(d, p)
  <2> DEFINE S == ReadOnlyWithin(host, RwAsked)
  <2>1. S \in SUBSET DeclaredSet(host)
    BY DEF ReadOnlyWithin, InMode
  <2>2. NestedReadOnly(host) = DenyOn({"write"}, S)
    BY DEF NestedReadOnly, RwAsked
  <2>3. Denies(DenyOn({"write"}, S), "write", p) <=>
          AlreadyBound(p, PathsOf(S, "dir")) \/ p \in PathsOf(S, "file")
    BY DenyRules
  <2> HIDE DEF S
  <2>4. (\E d \in S : Covers(d, p)) <=>
          AlreadyBound(p, PathsOf(S, "dir")) \/ p \in PathsOf(S, "file")
    BY <2>1, CoveredByKind
  <2> QED BY <2>2, <2>3, <2>4 DEF S
<1>3. ~Early(host, "write", p)
  BY <1>0, NixRules, SocketRules, NetworkModeRules DEF Early, Reading
<1>4. Middle(host, "write", p) <=>
        \/ Under(p, SandboxTmp(host)) \/ Under(p, SandboxHome(host))
        \/ Under(p, host.workspace) \/ AlreadyBound(p, GitDirOf(host))
        \/ AlreadyBound(p, RwDirs(host)) \/ p \in RwFiles
  BY SessionRules, TraversalRules, WorkspaceRules, DeclaredRules, StoreRules
     DEF Middle, Reading, RwFiles
<1>5. AlreadyBound(p, RwAsked) <=>
        \/ Under(p, host.workspace) \/ AlreadyBound(p, GitDirOf(host))
        \/ AlreadyBound(p, RwDirs(host))
  BY DEF AlreadyBound, RwAsked
<1> QED BY <1>1, <1>2, <1>3, <1>4, <1>5, AllowedInSession

-----------------------------------------------------------------------------
(* The links of the session's home.                                        *)

LEMMA SessionPlaces ==
  ASSUME Grounded(host)
  PROVE  /\ SandboxHome(host) \in Paths /\ SandboxTmp(host) \in Paths
         /\ Passwd(host) \in Paths /\ CABundle(host) \in Paths
         /\ ProxyPid(host) \in Paths
         /\ Len(SandboxHome(host)) \in Nat \ {0}
<1>1. host.session \in Paths /\ Len(host.session) \in Nat
  BY DEF Grounded, Paths
<1>2. /\ "home" \in FileNames /\ "tmp" \in FileNames /\ "passwd" \in FileNames
      /\ "bundle" \in FileNames /\ "proxy.pid" \in FileNames
  BY OwnNamesAssumption
<1>3. \A n \in FileNames : /\ Within(host.session, n) \in Paths
                           /\ Len(Within(host.session, n)) = Len(host.session) + 1
  BY <1>1, WithinIsPath
<1>4. SandboxHome(host) \in Paths /\ Len(SandboxHome(host)) = Len(host.session) + 1
  BY <1>2, <1>3 DEF SandboxHome
<1>5. SandboxTmp(host) \in Paths /\ Passwd(host) \in Paths /\ CABundle(host) \in Paths
  BY <1>2, <1>3 DEF SandboxTmp, Passwd, CABundle
<1>6. ProxyPid(host) \in Paths
  BY <1>2, <1>3 DEF ProxyPid
<1>7. \A n \in Nat : n + 1 \in Nat \ {0}
  OBVIOUS
<1>8. Len(SandboxHome(host)) \in Nat \ {0}
  BY <1>1, <1>4, <1>7
<1> QED BY <1>4, <1>5, <1>6, <1>8

(* The place in the session's home of a path in the real one.              *)
LEMMA InHomeMeans ==
  ASSUME Grounded(host), NEW p \in Paths, Under(p, Home)
  PROVE  /\ InHome(host, p) \in Paths
         /\ Len(InHome(host, p)) = Len(SandboxHome(host)) + (Len(p) - Len(Home))
         /\ Under(InHome(host, p), SandboxHome(host))
         /\ \A j \in 1..(Len(p) - Len(Home)) :
              InHome(host, p)[Len(SandboxHome(host)) + j] = p[Len(Home) + j]
<1>1. Home \in Paths /\ SandboxHome(host) \in Paths
  BY PlacesAssumption, SessionPlaces
<1>2. PICK a \in Nat, b \in Nat, c \in Nat :
        a = Len(SandboxHome(host)) /\ b = Len(Home) /\ c = Len(p) /\ b <= c
  BY <1>1, UnderMeans DEF Paths
<1> DEFINE s == SandboxHome(host)
           rest == SubSeq(p, b + 1, c)
           place == InHome(host, p)
<1>3. rest \in Paths /\ Len(rest) = c - b /\ \A j \in 1..(c - b) : rest[j] = p[b + j]
  <2>1. rest \in Paths /\ Len(rest) = c - b
    BY <1>2 DEF Paths
  <2>2. \A j \in 1..(c - b) : rest[j] = p[b + j]
    <3> TAKE j \in 1..(c - b)
    <3>1. (b + 1) + (j - 1) = b + j /\ (b + 1) + j - 1 = b + j
      OBVIOUS
    <3> QED BY <1>2, <3>1 DEF Paths
  <2> QED BY <2>1, <2>2
<1>4. place = s \o rest
  BY <1>2 DEF InHome
<1> HIDE DEF s, rest, place
<1>5. /\ place \in Paths /\ Len(place) = a + (c - b)
      /\ \A i \in 1..a : place[i] = s[i]
      /\ \A j \in 1..(c - b) : place[a + j] = rest[j]
  <2>1. s \in Paths /\ Len(s) = a
    BY <1>1, <1>2 DEF s
  <2>2. /\ place \in Paths /\ Len(place) = a + (c - b)
        /\ \A i \in 1..(a + (c - b)) : place[i] = IF i <= a THEN s[i] ELSE rest[i - a]
    <3>1. s \in Seq(FileNames) /\ rest \in Seq(FileNames)
      BY <1>3, <2>1 DEF Paths
    <3>2. /\ s \o rest \in Seq(FileNames) /\ Len(s \o rest) = Len(s) + Len(rest)
          /\ \A i \in 1..Len(s) + Len(rest) :
               (s \o rest)[i] = IF i <= Len(s) THEN s[i] ELSE rest[i - Len(s)]
      BY <3>1, ConcatProperties, Zenon
    <3> QED BY <1>3, <1>4, <2>1, <3>2 DEF Paths
  <2>3. \A j \in 1..(c - b) : place[a + j] = rest[j]
    <3> TAKE j \in 1..(c - b)
    <3>1. a + j \in 1..(a + (c - b)) /\ ~(a + j <= a) /\ (a + j) - a = j
      BY <1>2
    <3> QED BY <2>2, <3>1
  <2>4. \A i \in 1..a : i \in 1..(a + (c - b)) /\ i <= a
    BY <1>2
  <2> QED BY <2>2, <2>3, <2>4
<1>6. Under(place, s)
  <2>1. s \in Paths /\ Len(s) = a /\ a <= a + (c - b)
    BY <1>1, <1>2 DEF s
  <2> QED BY <1>5, <2>1, UnderMeans
<1> QED BY <1>2, <1>3, <1>5, <1>6 DEF s, place

LEMMA InHomeKeeps ==
  ASSUME Grounded(host), NEW p \in Paths, Under(p, Home), NEW q \in Paths, Under(q, Home),
         Under(InHome(host, p), InHome(host, q))
  PROVE  Under(p, q)
<1>1. Home \in Paths /\ SandboxHome(host) \in Paths
  BY PlacesAssumption, SessionPlaces
<1>2. PICK a \in Nat, b \in Nat, c \in Nat, d \in Nat :
        /\ a = Len(SandboxHome(host)) /\ b = Len(Home) /\ c = Len(p) /\ d = Len(q)
        /\ b <= c /\ b <= d
  BY <1>1, UnderMeans DEF Paths
<1> DEFINE x == InHome(host, p)
           y == InHome(host, q)
<1>3. /\ x \in Paths /\ Len(x) = a + (c - b) /\ y \in Paths /\ Len(y) = a + (d - b)
      /\ \A j \in 1..(c - b) : x[a + j] = p[b + j]
      /\ \A j \in 1..(d - b) : y[a + j] = q[b + j]
  BY <1>2, InHomeMeans
<1>4. Under(x, y)
  OBVIOUS
<1> HIDE DEF x, y
<1>5. a + (d - b) <= a + (c - b) /\ \A i \in 1..(a + (d - b)) : x[i] = y[i]
  BY <1>3, <1>4, UnderMeans
<1>6. \A i \in 1..d : p[i] = q[i]
  <2> TAKE i \in 1..d
  <2>1. CASE i <= b
    <3>1. i \in 1..b
      BY <1>2, <2>1
    <3>2. p[i] = Home[i] /\ q[i] = Home[i]
      BY <1>1, <1>2, <3>1, UnderMeans
    <3> QED BY <3>2
  <2>2. CASE i > b
    <3>1. i - b \in 1..(d - b) /\ i - b \in 1..(c - b) /\ b + (i - b) = i
          /\ a + (i - b) \in 1..(a + (d - b))
      BY <1>2, <1>5, <2>2
    <3> QED BY <1>3, <1>5, <3>1
  <2> QED BY <1>2, <2>1, <2>2
<1> QED BY <1>2, <1>5, <1>6, UnderMeans

Links1 == [at : Paths, to : Paths]

(* Each link to plant has its place in the session's home, none inside     *)
(* another's, and the directories made are above the links planted.        *)
PlantInv ==
  /\ status \in {"reading", "checking", "refused"} =>
       planted = <<>> /\ made = {} /\ toPlant = <<>>
  /\ toPlant \in Seq(Links1)
  /\ \A n \in 1..Len(toPlant) : \E d \in DeclaredSet(host) :
       Under(d.path, Home) /\ toPlant[n].at = InHome(host, d.path)
  /\ \A m, n \in 1..Len(toPlant) : m # n => ~Under(toPlant[m].at, toPlant[n].at)
  /\ \A q \in DOMAIN planted :
       /\ q \in Paths /\ StrictlyUnder(q, SandboxHome(host))
       /\ \A n \in 1..Len(toPlant) : ~Under(toPlant[n].at, q) /\ ~Under(q, toPlant[n].at)
  /\ \A q \in made :
       /\ q \in Paths
       /\ \E r \in DOMAIN planted : StrictlyUnder(r, q)
  /\ status = "died" => \E d \in DeclaredSet(host) : d.path = Home

LEMMA ComputePlans ==
  ASSUME Invariant, PlantInv, NEW answers, Compute(answers)
  PROVE  PlantInv'
<1>1. /\ status = "checking" /\ ~NestedConflict(host) /\ status' = "planting"
      /\ toPlant' = HomeSymlinks(host) /\ UNCHANGED <<host, planted, made>>
  BY DEF Compute, Refused
<1>2. Grounded(host) /\ host.declared \in Seq(Entries(host))
  BY <1>1, HostFacts DEF Invariant
<1>3. PICK D \in Nat : D = Len(host.declared)
  BY <1>2
<1>4. \A k \in 1..D : host.declared[k] \in DeclaredSet(host) /\ host.declared[k].path \in Paths
  BY <1>1, <1>3, DeclaredFacts DEF Invariant, DeclaredSet
<1> DEFINE inside == {n \in 1..Len(host.declared) : Under(host.declared[n].path, Home)}
           below == Selected(host.declared, inside)
<1>5. /\ below \in Seq(Entries(host))
      /\ \E at \in [1..Len(below) -> 1..Len(host.declared)] :
           /\ \A i, j \in 1..Len(below) : i < j => at[i] < at[j]
           /\ \A i \in 1..Len(below) :
                at[i] \in inside /\ below[i] = host.declared[at[i]]
  <2> HIDE DEF inside
  <2> QED BY <1>2, SelectedFrom
<1>6. HomeSymlinks(host) =
        [n \in 1..Len(below) |-> [at |-> InHome(host, below[n].path), to |-> below[n].path]]
  BY DEF HomeSymlinks
<1> HIDE DEF below
<1>7. PICK N \in Nat : N = Len(below)
  BY <1>5
<1>8. PICK at \in [1..N -> 1..D] :
        /\ \A i, j \in 1..N : i < j => at[i] < at[j]
        /\ \A i \in 1..N : at[i] \in inside /\ below[i] = host.declared[at[i]]
  BY <1>3, <1>5, <1>7
<1>9. \A n \in 1..N : /\ at[n] \in 1..D /\ below[n] = host.declared[at[n]]
                      /\ Under(below[n].path, Home) /\ below[n].path \in Paths
  BY <1>3, <1>4, <1>8
<1>10. /\ DOMAIN toPlant' = 1..N
       /\ \A n \in 1..N : /\ toPlant'[n].at = InHome(host, below[n].path)
                          /\ toPlant'[n] \in Links1
  <2>1. \A n \in 1..N : InHome(host, below[n].path) \in Paths
    BY <1>2, <1>9, InHomeMeans
  <2> QED BY <1>1, <1>6, <1>7, <1>9, <2>1 DEF Links1
<1>11. toPlant' \in Seq(Links1) /\ Len(toPlant') = N
  <2>1. toPlant' = [n \in 1..N |-> toPlant'[n]]
    BY <1>1, <1>6, <1>7
  <2> QED BY <1>10, <2>1, IsASeq, LenProperties
<1>12. \A m, n \in 1..N : m # n => ~Under(toPlant'[m].at, toPlant'[n].at)
  <2> TAKE m, n \in 1..N
  <2> HAVE m # n
  <2>1. at[m] # at[n]
    BY <1>8, <1>9
  <2>2. ~Under(below[m].path, below[n].path)
    BY <1>1, <1>3, <1>9, <2>1 DEF NestedConflict
  <2> QED BY <1>2, <1>9, <1>10, <2>2, InHomeKeeps
<1>13. \A n \in 1..N : \E d \in DeclaredSet(host) :
         Under(d.path, Home) /\ toPlant'[n].at = InHome(host, d.path)
  BY <1>4, <1>9, <1>10
<1>14. planted' = <<>> /\ made' = {}
  BY <1>1 DEF PlantInv
<1> QED BY <1>1, <1>11, <1>12, <1>13, <1>14 DEF PlantInv

(* No link is on the way to the next place, whose name is then where it is. *)
LEMMA PlaceIsName ==
  ASSUME Invariant, PlantInv, status # "reading", toPlant # <<>>
  PROVE  /\ RealPlace(toPlant[1].at) = toPlant[1].at
         /\ toPlant[1].at \in Paths
         /\ Under(toPlant[1].at, SandboxHome(host))
<1> DEFINE at == toPlant[1].at
           home == SandboxHome(host)
<1>1. Grounded(host) /\ home \in Paths
  BY HostFacts, SessionPlaces DEF Invariant
<1>2. 1 \in 1..Len(toPlant) /\ toPlant[1] \in Links1
  BY DEF PlantInv
<1>3. PICK d \in DeclaredSet(host) : Under(d.path, Home) /\ at = InHome(host, d.path)
  BY <1>2 DEF PlantInv
<1>4. at \in Paths /\ Under(at, home)
  BY <1>1, <1>3, DeclaredFacts, InHomeMeans DEF Invariant
<1> HIDE DEF at
<1>5. PICK a \in Nat, h \in Nat : a = Len(at) /\ h = Len(home) /\ 0 < h /\ h <= a
  <2>1. Len(home) \in Nat \ {0}
    BY <1>1, SessionPlaces
  <2>2. Len(home) <= Len(at) /\ Len(at) \in Nat
    BY <1>1, <1>4, UnderMeans DEF Paths
  <2> HIDE DEF home
  <2> QED BY <2>1, <2>2
<1> DEFINE up == SubSeq(at, 1, a - 1)
<1>6. Parent(at) = up
  BY <1>5 DEF Parent, Front
<1>7. up \in Paths /\ Len(up) = a - 1
  BY <1>4, <1>5, PrefixAbove
<1>8. DOMAIN Links = DOMAIN host.links \cup DOMAIN planted
  BY DEF Links
<1>9. \A k \in 1..(a - 1) : SubSeq(up, 1, k) \notin DOMAIN Links
  <2> TAKE k \in 1..(a - 1)
  <2> DEFINE q == SubSeq(at, 1, k)
  <2>1. q \in Paths /\ Len(q) = k /\ Under(at, q)
    BY <1>4, <1>5, PrefixAbove
  <2>2. SubSeq(up, 1, k) = q
    BY <1>4, <1>5, <1>7, PrefixAbove, AboveIsPrefix
  <2>3. q \notin DOMAIN planted
    BY <1>2, <2>1 DEF PlantInv, at
  <2>4. CASE k <= h
    <3>1. q = SubSeq(home, 1, k)
      BY <1>1, <1>4, <1>5, <2>4, AboveIsPrefix
    <3>2. k \in 1..Len(home)
      BY <1>5, <2>4
    <3>3. SubSeq(home, 1, k) \notin DOMAIN host.links
      BY <1>1, <3>2 DEF Grounded
    <3> QED BY <1>8, <2>2, <2>3, <3>1, <3>3
  <2>5. CASE k > h
    <3> HIDE DEF q
    <3>1. ~Under(home, q)
      BY <1>1, <1>5, <2>1, <2>5, UnderMeans
    <3>2. Under(q, home)
      BY <1>1, <1>4, <2>1, <3>1, OneAbove
    <3> QED BY <1>1, <1>8, <2>2, <2>3, <3>2 DEF Grounded
  <2> QED BY <1>5, <2>4, <2>5
<1>10. Landing(up, Links) = up
  <2> HIDE DEF up
  <2> QED BY <1>7, <1>9, NoLinkNoWalk
<1>11. Append(up, Last(at)) = at
  <2>1. at \in Seq(FileNames) /\ Last(at) = at[a] /\ at[a] \in FileNames
    BY <1>4, <1>5 DEF Last, Paths
  <2>2. /\ Append(up, Last(at)) \in Seq(FileNames) /\ Len(Append(up, Last(at))) = a
        /\ Append(up, Last(at))[a] = at[a]
        /\ \A i \in 1..(a - 1) : Append(up, Last(at))[i] = up[i]
    <3> HIDE DEF up
    <3> QED BY <1>5, <1>7, <2>1, AppendProperties DEF Paths
  <2>3. \A i \in 1..(a - 1) : up[i] = at[i]
    BY <1>4, <1>5 DEF Paths
  <2>4. \A i \in 1..a : Append(up, Last(at))[i] = at[i]
    BY <1>5, <2>2, <2>3
  <2> QED BY <1>5, <2>1, <2>2, <2>4, SeqEqual
<1>12. RealPlace(at) = at
  BY <1>6, <1>10, <1>11 DEF RealPlace
<1> QED BY <1>4, <1>12 DEF at

LEMMA PlantKeeps ==
  ASSUME Invariant, PlantInv, PlantNext
  PROVE  PlantInv'
<1> DEFINE at == toPlant[1].at
           home == SandboxHome(host)
<1>1. /\ status = "planting" /\ toPlant # <<>> /\ UNCHANGED <<host, status, profile>>
      /\ toPlant' = Tail(toPlant) /\ ~Occupied(at)
      /\ planted' = [q \in DOMAIN planted \cup {at} |->
                       IF q = at THEN toPlant[1].to ELSE planted[q]]
      /\ made' = made \cup {q \in Ancestors(at) : StrictlyUnder(q, home)}
  BY PlaceIsName DEF PlantNext
<1>2. at \in Paths /\ Under(at, home)
  BY <1>1, PlaceIsName
<1>3. at # home
  BY <1>1 DEF Occupied
<1>4. PICK N \in Nat : N = Len(toPlant) /\ 0 < N
  BY <1>1 DEF PlantInv
<1>5. /\ toPlant' \in Seq(Links1) /\ Len(toPlant') = N - 1
      /\ \A n \in 1..(N - 1) : n + 1 \in 1..N /\ toPlant'[n] = toPlant[n + 1]
  BY <1>1, <1>4 DEF PlantInv
<1>6. DOMAIN planted' = DOMAIN planted \cup {at}
  BY <1>1
<1> HIDE DEF at
<1>7. \A n \in 1..(N - 1) : \E d \in DeclaredSet(host) :
        Under(d.path, Home) /\ toPlant'[n].at = InHome(host, d.path)
  BY <1>4, <1>5 DEF PlantInv
<1>8. \A m, n \in 1..(N - 1) : m # n => ~Under(toPlant'[m].at, toPlant'[n].at)
  BY <1>4, <1>5 DEF PlantInv
<1>9. \A n \in 1..(N - 1) : ~Under(toPlant'[n].at, at) /\ ~Under(at, toPlant'[n].at)
  <2> TAKE n \in 1..(N - 1)
  <2>1. n + 1 \in 1..N /\ 1 \in 1..N /\ n + 1 # 1 /\ toPlant'[n] = toPlant[n + 1]
    BY <1>4, <1>5
  <2> QED BY <1>4, <2>1 DEF PlantInv, at
<1>10. ASSUME NEW q \in DOMAIN planted'
       PROVE  /\ q \in Paths /\ StrictlyUnder(q, home)
              /\ \A n \in 1..(N - 1) : ~Under(toPlant'[n].at, q) /\ ~Under(q, toPlant'[n].at)
  <2>1. CASE q = at
    BY <1>2, <1>3, <1>9, <2>1 DEF StrictlyUnder
  <2>2. CASE q \in DOMAIN planted
    BY <1>4, <1>5, <2>2 DEF PlantInv
  <2> QED BY <1>6, <2>1, <2>2
<1>11. ASSUME NEW q \in made'
       PROVE  q \in Paths /\ \E r \in DOMAIN planted' : StrictlyUnder(r, q)
  <2>1. CASE q \in made
    BY <1>6, <2>1 DEF PlantInv
  <2>2. CASE q \in Ancestors(at)
    <3>1. PICK k \in 1..(Len(at) - 1) : q = SubSeq(at, 1, k)
      BY <2>2 DEF Ancestors
    <3>2. Len(at) \in Nat
      BY <1>2 DEF Paths
    <3>3. q \in Paths /\ Len(q) = k /\ Under(at, q)
      BY <1>2, <3>1, <3>2, PrefixAbove
    <3>4. at # q
      BY <3>2, <3>3
    <3> QED BY <1>6, <3>3, <3>4 DEF StrictlyUnder
  <2> QED BY <1>1, <2>1, <2>2
<1>12. UNCHANGED <<SandboxHome(host), DeclaredSet(host)>>
  BY <1>1 DEF SandboxHome, DeclaredSet
<1>13. /\ \A n \in 1..Len(toPlant') : \E d \in DeclaredSet(host)' :
            Under(d.path, Home) /\ toPlant'[n].at = InHome(host, d.path)'
       /\ \A m, n \in 1..Len(toPlant') : m # n => ~Under(toPlant'[m].at, toPlant'[n].at)
  <2>1. \A p : InHome(host, p)' = InHome(host, p)
    BY <1>1 DEF InHome, SandboxHome
  <2> QED BY <1>5, <1>7, <1>8, <1>12, <2>1
<1>14. \A q \in DOMAIN planted' :
         /\ q \in Paths /\ StrictlyUnder(q, SandboxHome(host)')
         /\ \A n \in 1..Len(toPlant') : ~Under(toPlant'[n].at, q) /\ ~Under(q, toPlant'[n].at)
  BY <1>5, <1>10, <1>12
<1> QED BY <1>1, <1>5, <1>11, <1>13, <1>14 DEF PlantInv

(* What is in the place of a link is the session's home itself.            *)
LEMMA OnlyHomeTaken ==
  ASSUME Invariant, PlantInv, Die
  PROVE  \E d \in DeclaredSet(host) : d.path = Home
<1> DEFINE at == toPlant[1].at
           home == SandboxHome(host)
<1>1. status = "planting" /\ toPlant # <<>> /\ Occupied(at)
  BY PlaceIsName DEF Die
<1>2. Grounded(host) /\ home \in Paths
  BY HostFacts, SessionPlaces DEF Invariant
<1>3. at \in Paths /\ Under(at, home)
  BY <1>1, PlaceIsName
<1>4. 1 \in 1..Len(toPlant)
  BY <1>1 DEF PlantInv
<1>5. PICK d \in DeclaredSet(host) : Under(d.path, Home) /\ at = InHome(host, d.path)
  BY <1>4 DEF PlantInv
<1>6. at \notin DOMAIN planted
  BY <1>3, <1>4, UnderItself DEF PlantInv
<1>7. at \notin made
  BY <1>4 DEF PlantInv, StrictlyUnder
<1>8. DOMAIN Links = DOMAIN host.links \cup DOMAIN planted
  BY DEF Links
<1>9. at = home
  BY <1>1, <1>2, <1>3, <1>6, <1>7, <1>8 DEF Occupied, Grounded
<1>10. d.path \in Paths /\ Home \in Paths
  BY <1>1, DeclaredFacts, PlacesAssumption DEF Invariant
<1>11. PICK a \in Nat, b \in Nat, c \in Nat :
         a = Len(home) /\ b = Len(d.path) /\ c = Len(Home) /\ c <= b
  BY <1>2, <1>5, <1>10, UnderMeans DEF Paths
<1>12. a = a + (b - c)
  BY <1>2, <1>5, <1>9, <1>10, <1>11, InHomeMeans
<1>13. Len(d.path) <= Len(Home)
  BY <1>11, <1>12
<1> QED BY <1>5, <1>10, <1>13, SameLength

LEMMA PlantsHold == Spec => [](Invariant /\ PlantInv)
<1>1. Init => PlantInv
  BY DEF Init, PlantInv
<1>2. Invariant /\ PlantInv /\ [Next]_vars => PlantInv'
  <2> SUFFICES ASSUME Invariant, PlantInv, [Next]_vars PROVE PlantInv'
    OBVIOUS
  <2>1. CASE ReadHost
    BY <2>1 DEF ReadHost, PlantInv
  <2>2. ASSUME NEW answers \in Answers, Refuse(answers) PROVE PlantInv'
    BY <2>2 DEF Refuse, PlantInv
  <2>3. ASSUME NEW answers \in Answers, Compute(answers) PROVE PlantInv'
    BY <2>3, ComputePlans
  <2>4. CASE PlantNext
    BY <2>4, PlantKeeps
  <2>5. CASE Die
    <3>1. status' = "died" /\ UNCHANGED <<host, toPlant, planted, made>>
      BY <2>5 DEF Die
    <3>2. \E d \in DeclaredSet(host) : d.path = Home
      BY <2>5, OnlyHomeTaken
    <3>3. UNCHANGED <<DeclaredSet(host), SandboxHome(host)>>
          /\ \A p : InHome(host, p)' = InHome(host, p)
      BY <3>1 DEF DeclaredSet, InHome, SandboxHome
    <3> QED BY <3>1, <3>2, <3>3 DEF PlantInv
  <2>6. CASE Start
    BY <2>6 DEF Start, PlantInv, DeclaredSet, InHome, SandboxHome
  <2>7. CASE UNCHANGED vars
    <3>1. UNCHANGED <<host, status, toPlant, planted, made>>
      BY <2>7 DEF vars
    <3>2. UNCHANGED <<DeclaredSet(host), SandboxHome(host)>>
          /\ \A p : InHome(host, p)' = InHome(host, p)
      BY <3>1 DEF DeclaredSet, InHome, SandboxHome
    <3> QED BY <3>1, <3>2 DEF PlantInv
  <2> QED BY <2>1, <2>2, <2>3, <2>4, <2>5, <2>6, <2>7 DEF Next
<1> QED BY <1>1, <1>2, InvariantHolds, PTL DEF Spec

(* The links are planted strictly inside the session's home, at their own  *)
(* names, and none finds its place taken unless the home itself is         *)
(* declared (HomeSymlinks and write.py's symlinks).                        *)
THEOREM AlwaysPlantsInside == Spec => []PlantsInside
<1>1. Invariant /\ PlantInv => PlantsInside
  BY DEF PlantInv, PlantsInside
<1> QED BY <1>1, PlantsHold, PTL

-----------------------------------------------------------------------------
(* What is written in a session.                                           *)

LEMMA NamesArePlaces ==
  ASSUME Invariant, PlantInv, NEW p \in Names, ~(GitUsable(host) /\ p \in ProtectedFiles(host))
  PROVE  p \in Paths
<1>1. Grounded(host)
  BY HostFacts DEF Invariant
<1>2. CASE p \in host.dirs \cup host.files \cup DOMAIN host.links
  BY <1>1, <1>2 DEF Grounded
<1>3. CASE p \in DOMAIN planted \cup made
  BY <1>3 DEF PlantInv
<1>4. CASE p \in {host.session, SandboxHome(host), SandboxTmp(host),
                  Passwd(host), CABundle(host), ProxyPid(host)}
  BY <1>1, <1>4, SessionPlaces DEF Grounded
<1>5. DOMAIN Links = DOMAIN host.links \cup DOMAIN planted
  BY DEF Links
<1> QED BY <1>2, <1>3, <1>4, <1>5 DEF Names

LEMMA AskedArePlaces ==
  ASSUME Invariant, status # "reading"
  PROVE  RwAsked \in SUBSET Paths /\ RwFiles \in SUBSET Paths
<1>1. host.workspace \in Paths /\ GitDirOf(host) \subseteq Paths
  BY HostFacts DEF Invariant, Grounded, GitDirOf, GitUsable
<1>2. \A d \in DeclaredSet(host) : d.path \in Paths
  BY DeclaredFacts DEF Invariant
<1> QED BY <1>1, <1>2 DEF RwAsked, RwFiles, RwDirs, PathsOf, InMode

LEMMA RoIsKept ==
  ASSUME Invariant, PlantInv, status = "running"
  PROVE  RoKept
<1> SUFFICES ASSUME NEW d \in InMode(host, "ro"), NEW p \in Names,
                    Covers(d, p), Allowed("write", p),
                    p \notin RwFiles, ~AlreadyBound(p, {SandboxHome(host), SandboxTmp(host)})
             PROVE  \E g \in RwAsked : StrictlyUnder(g, d.path) /\ Under(p, g)
  BY DEF RoKept
<1>1. /\ ~Protects(p) /\ ~\E e \in ReadOnlyWithin(host, RwAsked) : Covers(e, p)
      /\ AlreadyBound(p, RwAsked)
  BY WritesInSession DEF AlreadyBound
<1>2. d \notin ReadOnlyWithin(host, RwAsked)
  BY <1>1
<1>3. ~AlreadyBound(d.path, RwAsked)
  BY <1>2 DEF ReadOnlyWithin
<1>4. PICK g \in RwAsked : Under(p, g)
  BY <1>1 DEF AlreadyBound
<1>5. Under(p, d.path)
  BY <1>3, <1>4 DEF Covers, AlreadyBound
<1>6. p \in Paths /\ g \in Paths /\ d.path \in Paths
  BY <1>1, <1>4, NamesArePlaces, AskedArePlaces, DeclaredFacts DEF Protects, Invariant, InMode
<1>7. Under(g, d.path)
  BY <1>3, <1>4, <1>5, <1>6, OneAbove DEF AlreadyBound
<1>8. g # d.path
  BY <1>3, <1>6, UnderItself DEF AlreadyBound
<1> QED BY <1>4, <1>7, <1>8 DEF StrictlyUnder

LEMMA RwIsKept ==
  ASSUME Invariant, status = "running"
  PROVE  RwKept
BY WritesInSession DEF RwKept

LEMMA NothingElseIsWritten ==
  ASSUME Invariant, status = "running"
  PROVE  NothingElseWritten
<1> SUFFICES ASSUME NEW p \in Names, Allowed("write", p)
             PROVE  AlreadyBound(p, RwAsked \cup RwFiles \cup {SandboxHome(host), SandboxTmp(host)})
  BY DEF NothingElseWritten
<1>1. \/ Under(p, SandboxTmp(host)) \/ Under(p, SandboxHome(host))
      \/ AlreadyBound(p, RwAsked) \/ p \in RwFiles
  BY WritesInSession
<1>2. p \in RwFiles => Under(p, p)
  BY AskedArePlaces, UnderItself
<1> QED BY <1>1, <1>2 DEF AlreadyBound

LEMMA HooksAreInRepository ==
  ASSUME Invariant, GitUsable(host), NEW p \in ProtectedDirs(host)
  PROVE  p \in Paths /\ Under(p, host.common)
<1>1. Grounded(host)
  BY HostFacts DEF Invariant
<1>2. "modules" \in FileNames /\ "hooks" \in FileNames
  BY OwnNamesAssumption
<1>3. PICK g \in GitDirs(host) : p = Within(g, "hooks")
  BY DEF ProtectedDirs
<1>4. p \in Paths /\ host.common \in Paths
  BY <1>1 DEF ProtectedDirs, Grounded, GitUsable
<1>5. g \in Paths /\ Under(g, host.common)
  <2>1. CASE g = host.common
    BY <1>4, <2>1, UnderItself
  <2>2. CASE g # host.common
    <3> DEFINE modules == Within(host.common, "modules")
    <3>1. g \in host.dirs /\ Under(g, modules)
      BY <2>2 DEF GitDirs, StrictlyUnder
    <3>2. modules \in Paths /\ Under(modules, host.common)
      BY <1>2, <1>4, WithinIsPath
    <3> HIDE DEF modules
    <3> QED BY <1>1, <1>4, <3>1, <3>2, UnderUnder DEF Grounded
  <2> QED BY <2>1, <2>2
<1>6. Under(p, g)
  BY <1>2, <1>3, <1>5, WithinIsPath
<1> QED BY <1>4, <1>5, <1>6, UnderUnder

LEMMA HooksCanBeRun ==
  ASSUME Invariant, status = "running"
  PROVE  HooksRunUnchanged
<1>1. \A p \in Names : Protects(p) => ~Allowed("write", p)
  BY WritesInSession
<1>2. ASSUME GitUsable(host), NEW p \in ProtectedDirs(host)
      PROVE  Allowed("read", p) /\ Allowed("exec", p)
  <2>1. p \in Paths /\ Under(p, host.common)
    BY <1>2, HooksAreInRepository
  <2>2. Grants(GitProtection(host), "exec", p)
    <3>1. Under(p, p)
      BY <2>1, UnderItself
    <3> QED BY <1>2, <3>1, ProtectionRules DEF AlreadyBound
  <2>3. Middle(host, "read", p)
    <3>1. AlreadyBound(p, GitDirOf(host))
      BY <1>2, <2>1 DEF AlreadyBound, GitDirOf
    <3>2. Grants(Workspace(host), "read", p)
      BY <3>1, WorkspaceRules DEF Reading
    <3> QED BY <3>2 DEF Middle
  <2>4. ~Denies(GitProtection(host), "read", p)
    BY ProtectionRules
  <2>5. ~Denies(NestedReadOnly(host), "read", p)
    BY DenyRules DEF NestedReadOnly
  <2> QED BY <2>2, <2>3, <2>4, <2>5, AllowedInSession
<1> QED BY <1>1, <1>2 DEF HooksRunUnchanged

(* Whatever is declared inside whatever, the rules leave to each path the  *)
(* mode asked for it: what is read-only is not written but for what is     *)
(* read-write inside it, what is read-write is but for what is protected,  *)
(* nothing else is, and the hooks run as they are (Profile's last match).  *)
THEOREM AlwaysWritesAsGranted == Spec => []WritesAsGranted
<1>1. Invariant /\ PlantInv => WritesAsGranted
  BY RoIsKept, RwIsKept, NothingElseIsWritten, HooksCanBeRun DEF WritesAsGranted
<1> QED BY <1>1, PlantsHold, PTL

-----------------------------------------------------------------------------
(* Sockets.                                                                *)

(* Only the rules of the network, the sockets and the daemon are about     *)
(* sockets.                                                                *)
LEMMA SocketsInSession ==
  ASSUME Invariant, status = "running", NEW p
  PROVE  /\ Allowed("connect", p) <=>
              \/ host.socket # NoPath /\ p = host.socket
              \/ Grants(UnixSockets(host), "connect", p)
         /\ Allowed("bind", p) <=>
              \/ Grants(UnixSockets(host), "bind", p)
              \/ /\ ~host.proxy /\ AlreadyBound(p, Anywhere)
                 /\ ~Denies(UnixSockets(host), "bind", p)
<1>1. \A op \in {"connect", "bind"} :
        ~Grants(GitProtection(host), op, p) /\ ~Denies(GitProtection(host), op, p)
  BY ProtectionRules
<1>2. \A op \in {"connect", "bind"} : ~Denies(NestedReadOnly(host), op, p)
  BY DenyRules DEF NestedReadOnly
<1>3. \A op \in {"connect", "bind"} : ~Middle(host, op, p)
  BY SessionRules, TraversalRules, WorkspaceRules, DeclaredRules, StoreRules
     DEF Middle, Reading
<1>4. \A op \in {"connect", "bind"} :
        Early(host, op, p) <=>
          \/ host.socket # NoPath /\ op = "connect" /\ p = host.socket
          \/ Grants(UnixSockets(host), op, p)
          \/ /\ ~host.proxy /\ op = "bind" /\ AlreadyBound(p, Anywhere)
             /\ ~Denies(UnixSockets(host), op, p)
  BY NixRules, NetworkModeRules DEF Early, Reading
<1> QED BY <1>1, <1>2, <1>3, <1>4, AllowedInSession

(* A directory granted for sockets holds every path under it, a socket of  *)
(* its own only itself.                                                    *)
LEMMA SocketsWithAll ==
  ASSUME Invariant, status = "running", host.unix = "all", NEW p
  PROVE  /\ Allowed("connect", p) =>
              \/ p = host.socket
              \/ AlreadyBound(p, SocketDirs(host) \cup GrantableRepoRoot(host)
                                   \cup {d.path : d \in InMode(host, "ro")})
         /\ AlreadyBound(p, SocketDirs(host)) => Allowed("connect", p)
         /\ (\E d \in ReadOnlyWithin(host, SocketDirs(host)) : Covers(d, p)) =>
              ~Allowed("bind", p)
         /\ AlreadyBound(p, SocketDirs(host))
              /\ (~\E d \in ReadOnlyWithin(host, SocketDirs(host)) : Covers(d, p)) =>
                Allowed("bind", p)
         /\ host.proxy /\ Allowed("bind", p) => AlreadyBound(p, SocketDirs(host))
<1> DEFINE within == ReadOnlyWithin(host, SocketDirs(host))
           ro == {d.path : d \in InMode(host, "ro")}
<1>1. SocketsShut(host, p) <=> \E d \in within : Covers(d, p)
  <2>1. within \in SUBSET DeclaredSet(host)
    BY DEF ReadOnlyWithin, InMode
  <2> HIDE DEF within
  <2>2. (\E d \in within : Covers(d, p)) <=>
          AlreadyBound(p, PathsOf(within, "dir")) \/ p \in PathsOf(within, "file")
    BY <2>1, CoveredByKind
  <2> QED BY <2>2 DEF SocketsShut, within
<1>2. /\ Grants(UnixSockets(host), "connect", p) <=>
           \/ AlreadyBound(p, SocketDirs(host)) \/ AlreadyBound(p, Met(host))
           \/ p \in PathsOf(InMode(host, "ro"), "file")
      /\ Grants(UnixSockets(host), "bind", p) <=>
           AlreadyBound(p, SocketDirs(host)) /\ ~SocketsShut(host, p)
      /\ Denies(UnixSockets(host), "bind", p) <=> SocketsShut(host, p)
  BY SocketRules
<1>3. p \in PathsOf(InMode(host, "ro"), "file") => p \in ro /\ Under(p, p)
  BY DeclaredFacts, UnderItself DEF PathsOf, InMode, Invariant
<1>4. Met(host) \subseteq GrantableRepoRoot(host) \cup ro
  BY DEF Met, PathsOf
<1>5. Allowed("connect", p) =>
        p = host.socket \/ AlreadyBound(p, SocketDirs(host) \cup GrantableRepoRoot(host) \cup ro)
  BY <1>2, <1>3, <1>4, SocketsInSession DEF AlreadyBound
<1> HIDE DEF within, ro
<1>6. /\ AlreadyBound(p, SocketDirs(host)) => Allowed("connect", p)
      /\ (\E d \in within : Covers(d, p)) => ~Allowed("bind", p)
      /\ AlreadyBound(p, SocketDirs(host)) /\ (~\E d \in within : Covers(d, p)) =>
           Allowed("bind", p)
      /\ host.proxy /\ Allowed("bind", p) => AlreadyBound(p, SocketDirs(host))
  BY <1>1, <1>2, SocketsInSession
<1> QED BY <1>5, <1>6 DEF within, ro

LEMMA SocketsWithout ==
  ASSUME Invariant, status = "running", host.unix # "all", NEW p
  PROVE  LET own == IF host.unix = "browser" THEN {SandboxTmp(host)} ELSE {}
         IN  /\ Allowed("connect", p) => p = host.socket \/ AlreadyBound(p, own)
             /\ AlreadyBound(p, own) => Allowed("connect", p) /\ Allowed("bind", p)
             /\ host.proxy /\ Allowed("bind", p) => AlreadyBound(p, own)
<1>1. host.unix \in {"browser", "none"}
  BY HostFacts DEF Invariant, Grounded
<1>2. \A op \in {"connect", "bind"} :
        /\ Grants(UnixSockets(host), op, p) <=>
             host.unix = "browser" /\ Under(p, SandboxTmp(host))
        /\ ~Denies(UnixSockets(host), op, p)
  BY <1>1, SocketRules
<1> QED BY <1>1, <1>2, SocketsInSession DEF AlreadyBound

(* The daemon's socket can be met whatever else is allowed; with Unix      *)
(* sockets allowed there is one to make or meet wherever a session may     *)
(* write but for what is read-only inside, and nothing else is met         *)
(* (UnixSockets after Network, NixSupport after both).                     *)
THEOREM AlwaysSocketsAsGranted == Spec => []SocketsAsGranted
<1>1. ASSUME Invariant, status = "running" PROVE SocketsAsGranted
  <2>1. host.socket # NoPath => Allowed("connect", host.socket)
    BY <1>1, SocketsInSession
  <2>2. CASE host.unix = "all"
    BY <1>1, <2>1, <2>2, SocketsWithAll DEF SocketsAsGranted
  <2>3. CASE host.unix # "all"
    <3>1. host.unix \in {"browser", "none"}
      BY <1>1, <2>3, HostFacts DEF Invariant, Grounded
    <3> QED BY <1>1, <2>1, <2>3, <3>1, SocketsWithout DEF SocketsAsGranted
  <2> QED BY <2>2, <2>3
<1>2. Invariant => SocketsAsGranted
  BY <1>1 DEF SocketsAsGranted
<1> QED BY <1>2, InvariantHolds, PTL

-----------------------------------------------------------------------------
(* Reading.                                                                *)

(* What a session reads, but for the files of its own that every session   *)
(* reads and the names in "/", is in what was granted to it: a socket's    *)
(* rules expose the store only where the launch allows nix, and a landing  *)
(* outside the store exposes nothing (NixSupport, StoreTargets).           *)
LEMMA NothingElseIsRead ==
  ASSUME Invariant, status = "running"
  PROVE  NothingElseRead
<1> DEFINE granted ==
      {host.workspace, SandboxHome(host), SandboxTmp(host)}
        \cup Closure \cup GrantableRepoRoot(host) \cup GitDirOf(host)
        \cup {d.path : d \in DeclaredSet(host)}
        \cup (IF host.allowNix THEN {Store} ELSE {})
        \cup {l \in Landings(host) : StrictlyUnder(l, Store)}
<1>1. ASSUME NEW p, Allowed("read", p)
      PROVE  p \in {<<>>, Passwd(host), CABundle(host)} \/ \E g \in granted : Under(p, g)
  <2>1. Early(host, "read", p) \/ Middle(host, "read", p)
    <3>1. ~Grants(GitProtection(host), "read", p)
      BY ProtectionRules
    <3> QED BY <1>1, <3>1, AllowedInSession
  <2>2. CASE Early(host, "read", p)
    <3>1. host.unix \in {"all", "browser", "none"} /\ (host.socket # NoPath => host.allowNix)
      BY <1>1, HostFacts DEF Invariant, Grounded
    <3>2. host.socket # NoPath /\ Under(p, Store)
      BY <2>2, <3>1, NixRules, SocketRules, NetworkModeRules DEF Early, Reading
    <3> QED BY <3>1, <3>2
  <2>3. CASE Middle(host, "read", p)
    <3>1. CASE Grants(SessionFiles(host), "read", p)
      BY <3>1, SessionRules DEF Reading
    <3>2. CASE Grants(Traversal(host), "read", p)
      BY <3>2, TraversalRules
    <3>3. CASE Grants(Workspace(host), "read", p)
      <4>1. \/ Under(p, SandboxHome(host)) \/ Under(p, host.workspace)
            \/ AlreadyBound(p, GrantableRepoRoot(host)) \/ AlreadyBound(p, GitDirOf(host))
        BY <3>3, WorkspaceRules DEF Reading
      <4> QED BY <4>1 DEF AlreadyBound
    <3>4. CASE Grants(Declared(host), "read", p)
      <4>1. \E d \in DeclaredSet(host) : Under(p, d.path) \/ p = d.path
        BY <3>4, DeclaredRules DEF RwDirs, PathsOf, InMode, AlreadyBound
      <4>2. \A d \in DeclaredSet(host) : Under(d.path, d.path)
        BY <1>1, DeclaredFacts, UnderItself DEF Invariant
      <4> QED BY <4>1, <4>2
    <3>5. CASE Grants(StoreGrants(host), "read", p)
      <4>1. AlreadyBound(p, Closure) \/ AlreadyBound(p, StoreTargets(host, Exposed(host)))
        BY <3>5, StoreRules
      <4>2. StoreTargets(host, Exposed(host)) \subseteq
              {l \in Landings(host) : StrictlyUnder(l, Store)}
        BY DEF StoreTargets, Unbound
      <4> QED BY <4>1, <4>2 DEF AlreadyBound
    <3> QED BY <2>3, <3>1, <3>2, <3>3, <3>4, <3>5 DEF Middle
  <2> QED BY <2>1, <2>2, <2>3
<1> QED BY <1>1 DEF NothingElseRead

-----------------------------------------------------------------------------
(* Reaching what was granted.                                              *)

(* The rest of what is settled of a host before a launch.                  *)
Settled(h) ==
  /\ SandboxTmp(h) \notin DOMAIN h.links /\ <<>> \notin DOMAIN h.links
  /\ FirstLink(h.workspace, h.links) = 0
  /\ h.common # NoPath => h.common \in h.dirs /\ FirstLink(h.common, h.links) = 0
  /\ \A q \in Ancestors(Home) : q \in SystemDirs \/ Under(h.session, q)

LEMMA HostSettled ==
  ASSUME HostInv
  PROVE  Settled(host)
<1>1. PICK h \in Hosts :
        host = IF status = "reading" THEN h ELSE [h EXCEPT !.declared = ReadAll(h)]
  BY DEF HostInv
<1>2. Settled(h)
  BY SessionAssumption, RealAssumption, HomeAssumption DEF Settled
<1>3. /\ host.links = h.links /\ host.dirs = h.dirs /\ host.workspace = h.workspace
      /\ host.session = h.session /\ host.common = h.common
  <2>1. DOMAIN h = {"links", "dirs", "files", "workspace", "declared", "common",
                    "worktrees", "worktreeConfig", "coreWorktrees",
                    "allowNix", "socket", "proxy", "session", "unix"}
    BY HostsAssumption
  <2> QED BY <1>1, <2>1
<1> QED BY <1>2, <1>3 DEF Settled, SandboxTmp

(* What is declared, once read, whose walk was whole.                      *)
LEMMA WholeEntry ==
  ASSUME HostInv, status # "reading", NEW d \in DeclaredSet(host), ~d.stopped, d.exists
  PROVE  /\ d.name \in Paths /\ d.path \in Paths /\ Whole(d.name, host.links)
         /\ d.path = PhysicalPath(d.name, host.links)
         /\ d.parents = ParentLinks(d.name, host.links)
         /\ d.hops = Hops(d.name, host.links)
         /\ Landing(d.path, host.links) \in host.dirs \cup host.files
         /\ d.inner # {} => d.inner = InnerSymlinks(host, d.path)
<1>1. d \in Entries(host)
  BY HostFacts DEF DeclaredSet
<1>2. PICK x \in DeclaredNames : d = ReadDeclared(host, x)
  BY <1>1 DEF Entries
<1>3. x.name \in Paths
  BY DEF DeclaredNames
<1>4. Whole(x.name, host.links)
  BY <1>2 DEF ReadDeclared
<1>5. /\ d.name = x.name /\ d.path = PhysicalPath(x.name, host.links)
      /\ d.parents = ParentLinks(x.name, host.links) /\ d.hops = Hops(x.name, host.links)
      /\ Exists(host, d.path)
      /\ d.inner # {} => d.inner = InnerSymlinks(host, d.path)
  BY <1>2, <1>4 DEF ReadDeclared
<1>6. Landing(d.path, host.links) \in host.dirs \cup host.files
  BY <1>5 DEF Exists, IsDir, IsFile
<1> QED BY <1>3, <1>4, <1>5, <1>6, DeclaredFacts

(* The session is one of a launch that was not refused, its home's links   *)
(* are none inside another, and each is planted or yet to be.              *)
ReachInv ==
  status \in {"planting", "running"} =>
    /\ \A d \in DeclaredSet(host) : ~d.stopped /\ d.exists
    /\ host.allowNix => host.socket # NoPath
    /\ IsDir(host, host.workspace)
    /\ \A q, r \in DOMAIN planted : q # r => ~Under(q, r)
    /\ \A d \in DeclaredSet(host) : Under(d.path, Home) =>
         \/ InHome(host, d.path) \in DOMAIN planted
              /\ planted[InHome(host, d.path)] = d.path
         \/ \E n \in 1..Len(toPlant) :
              toPlant[n] = [at |-> InHome(host, d.path), to |-> d.path]
    /\ status = "running" => toPlant = <<>>

LEMMA ComputeReaches ==
  ASSUME Invariant, PlantInv, NEW answers, Compute(answers)
  PROVE  ReachInv'
<1>1. /\ status = "checking" /\ ~LaunchRefused(host, answers) /\ status' = "planting"
      /\ toPlant' = HomeSymlinks(host) /\ UNCHANGED <<host, planted, made>>
      /\ planted = <<>>
  BY DEF Compute, Refused, PlantInv
<1>2. host.declared \in Seq(Entries(host))
  BY <1>1, HostFacts DEF Invariant
<1> DEFINE inside == {n \in 1..Len(host.declared) : Under(host.declared[n].path, Home)}
           below == Selected(host.declared, inside)
<1>3. HomeSymlinks(host) =
        [n \in 1..Len(below) |-> [at |-> InHome(host, below[n].path), to |-> below[n].path]]
  BY DEF HomeSymlinks
<1>4. ASSUME NEW d \in DeclaredSet(host), Under(d.path, Home)
      PROVE  \E n \in 1..Len(toPlant') :
               toPlant'[n] = [at |-> InHome(host, d.path), to |-> d.path]
  <2>1. PICK m \in 1..Len(host.declared) : d = host.declared[m]
    BY DEF DeclaredSet
  <2>2. m \in inside
    BY <1>4, <2>1
  <2>3. below \in Seq(Entries(host))
    <3> HIDE DEF inside
    <3> QED BY <1>2, SelectedFrom
  <2>4. \E n \in 1..Len(below) : below[n] = host.declared[m]
    <3> HIDE DEF inside
    <3> QED BY <1>2, <2>2, SelectedHas
  <2> HIDE DEF below
  <2>5. PICK N \in Nat : N = Len(below)
    BY <2>3
  <2>6. DOMAIN toPlant' = 1..N
    BY <1>1, <1>3, <2>5
  <2>7. Len(toPlant') = N
    <3>1. toPlant' = [n \in 1..N |-> toPlant'[n]]
      BY <1>1, <1>3, <2>5
    <3>2. \A n \in 1..N : toPlant'[n] \in {toPlant'[i] : i \in 1..N}
      OBVIOUS
    <3> QED BY <2>5, <3>1, <3>2, IsASeq, LenProperties
  <2> QED BY <1>1, <1>3, <2>1, <2>4, <2>5, <2>7
<1>5. /\ \A d \in DeclaredSet(host) : ~d.stopped /\ d.exists
      /\ host.allowNix => host.socket # NoPath
      /\ IsDir(host, host.workspace)
  BY <1>1 DEF LaunchRefused, DeclaredRefused, DaemonRefused, WorkspaceRefused
<1>6. DeclaredSet(host)' = DeclaredSet(host) /\ \A p : InHome(host, p)' = InHome(host, p)
  BY <1>1 DEF DeclaredSet, InHome, SandboxHome
<1>7. IsDir(host, host.workspace)'
  BY <1>1, <1>5
<1>8. \A q, r \in DOMAIN planted' : q # r => ~Under(q, r)
  BY <1>1
<1>9. status' # "running" /\ host' = host
  BY <1>1
<1> QED BY <1>4, <1>5, <1>6, <1>7, <1>8, <1>9 DEF ReachInv

LEMMA PlantReaches ==
  ASSUME Invariant, PlantInv, ReachInv, PlantNext
  PROVE  ReachInv'
<1> DEFINE at == toPlant[1].at
<1>1. /\ status = "planting" /\ toPlant # <<>> /\ UNCHANGED <<host, status, profile>>
      /\ toPlant' = Tail(toPlant)
      /\ planted' = [q \in DOMAIN planted \cup {at} |->
                       IF q = at THEN toPlant[1].to ELSE planted[q]]
  BY PlaceIsName DEF PlantNext
<1>2. PICK N \in Nat : N = Len(toPlant) /\ 0 < N
  BY <1>1 DEF PlantInv
<1>3. /\ Len(toPlant') = N - 1
      /\ \A n \in 1..(N - 1) : toPlant'[n] = toPlant[n + 1]
  BY <1>1, <1>2 DEF PlantInv
<1>4. 1 \in 1..Len(toPlant)
  BY <1>2
<1>5. \A q \in DOMAIN planted : ~Under(at, q) /\ ~Under(q, at)
  BY <1>4 DEF PlantInv
<1>6. \A q, r \in DOMAIN planted' : q # r => ~Under(q, r)
  <2> HIDE DEF at
  <2>1. \A q, r \in DOMAIN planted : q # r => ~Under(q, r)
    BY <1>1 DEF ReachInv
  <2> QED BY <1>1, <1>5, <2>1
<1>7. ASSUME NEW d \in DeclaredSet(host), Under(d.path, Home)
      PROVE  \/ InHome(host, d.path) \in DOMAIN planted'
                  /\ planted'[InHome(host, d.path)] = d.path
             \/ \E n \in 1..Len(toPlant') :
                  toPlant'[n] = [at |-> InHome(host, d.path), to |-> d.path]
  <2> DEFINE place == InHome(host, d.path)
  <2> HIDE DEF place
  <2>1. \/ place \in DOMAIN planted /\ planted[place] = d.path
        \/ \E n \in 1..N : toPlant[n] = [at |-> place, to |-> d.path]
    BY <1>1, <1>2, <1>7 DEF ReachInv, place
  <2>2. CASE place \in DOMAIN planted /\ planted[place] = d.path
    <3>1. place # at
      <4>1. place \in Paths
        BY <2>2 DEF PlantInv
      <4> QED BY <1>5, <2>2, <4>1, UnderItself
    <3> HIDE DEF at
    <3> QED BY <1>1, <2>2, <3>1 DEF place
  <2>3. CASE \E n \in 1..N : toPlant[n] = [at |-> place, to |-> d.path]
    <3>1. PICK n \in 1..N : toPlant[n] = [at |-> place, to |-> d.path]
      BY <2>3
    <3>2. CASE n = 1
      BY <1>1, <3>1, <3>2 DEF place
    <3>3. CASE n # 1
      <4>1. n - 1 \in 1..(N - 1) /\ (n - 1) + 1 = n
        BY <3>3
      <4> QED BY <1>3, <3>1, <4>1 DEF place
    <3> QED BY <3>2, <3>3
  <2> QED BY <2>1, <2>2, <2>3
<1>8. DeclaredSet(host)' = DeclaredSet(host) /\ \A p : InHome(host, p)' = InHome(host, p)
  BY <1>1 DEF DeclaredSet, InHome, SandboxHome
<1>9. IsDir(host, host.workspace)' /\ host' = host /\ status' = "planting"
  BY <1>1 DEF ReachInv
<1>10. /\ \A d \in DeclaredSet(host) : ~d.stopped /\ d.exists
       /\ host.allowNix => host.socket # NoPath
  BY <1>1 DEF ReachInv
<1> QED BY <1>6, <1>7, <1>8, <1>9, <1>10 DEF ReachInv

LEMMA ReachHolds == Spec => [](Invariant /\ PlantInv /\ ReachInv)
<1>1. Init => ReachInv
  BY DEF Init, ReachInv
<1>2. Invariant /\ PlantInv /\ ReachInv /\ [Next]_vars => ReachInv'
  <2> SUFFICES ASSUME Invariant, PlantInv, ReachInv, [Next]_vars PROVE ReachInv'
    OBVIOUS
  <2>1. CASE ReadHost
    BY <2>1 DEF ReadHost, ReachInv
  <2>2. ASSUME NEW answers \in Answers, Refuse(answers) PROVE ReachInv'
    BY <2>2 DEF Refuse, ReachInv
  <2>3. ASSUME NEW answers \in Answers, Compute(answers) PROVE ReachInv'
    BY <2>3, ComputeReaches
  <2>4. CASE PlantNext
    BY <2>4, PlantReaches
  <2>5. CASE Die
    BY <2>5 DEF Die, ReachInv
  <2>6. ASSUME UNCHANGED <<host, toPlant, planted>>,
               status' = "running" => status = "running" \/ toPlant = <<>>,
               status' \in {"planting", "running"} => status \in {"planting", "running"}
        PROVE  ReachInv'
    <3>1. /\ DeclaredSet(host)' = DeclaredSet(host)
          /\ \A p : InHome(host, p)' = InHome(host, p)
          /\ IsDir(host, host.workspace)' = IsDir(host, host.workspace)
      BY <2>6 DEF DeclaredSet, InHome, SandboxHome
    <3> QED BY <2>6, <3>1 DEF ReachInv
  <2>7. CASE Start
    BY <2>6, <2>7 DEF Start
  <2>8. CASE UNCHANGED vars
    BY <2>6, <2>8 DEF vars
  <2> QED BY <2>1, <2>2, <2>3, <2>4, <2>5, <2>7, <2>8 DEF Next
<1> QED BY <1>1, <1>2, PlantsHold, PTL DEF Spec

(* What is above a path, itself but for "/" included.                      *)
LEMMA AboveIsAncestor ==
  ASSUME NEW p \in Paths, NEW k \in 0..Len(p)
  PROVE  SubSeq(p, 1, k) \in Ancestors(p) \cup {p, <<>>}
<1>1. Len(p) \in Nat /\ SubSeq(p, 1, Len(p)) = p /\ SubSeq(p, 1, 0) = <<>>
  BY DEF Paths
<1>2. PICK n \in Nat : n = Len(p)
  BY <1>1
<1>3. k \in 1..(n - 1) \/ k = n \/ k = 0
  BY <1>2
<1> QED BY <1>1, <1>2, <1>3 DEF Ancestors

LEMMA UnderIsAncestor ==
  ASSUME NEW p \in Paths, NEW q \in Paths, Under(p, q)
  PROVE  q \in Ancestors(p) \cup {p, <<>>}
<1>1. Len(q) \in 0..Len(p)
  BY UnderMeans DEF Paths
<1>2. SubSeq(p, 1, Len(q)) = SubSeq(q, 1, Len(q)) /\ SubSeq(q, 1, Len(q)) = q
  BY <1>1, AboveIsPrefix DEF Paths
<1> QED BY <1>1, <1>2, AboveIsAncestor

(* What is read or looked at, the denials at the end leave alone.          *)
LEMMA ReadingIsAllowed ==
  ASSUME Invariant, status = "running", NEW op \in Reading, NEW p,
         Early(host, op, p) \/ Middle(host, op, p)
  PROVE  Allowed(op, p)
<1>1. op # "write"
  BY DEF Reading
<1>2. ~Denies(GitProtection(host), op, p) /\ ~Denies(NestedReadOnly(host), op, p)
  BY <1>1, ProtectionRules, DenyRules DEF NestedReadOnly
<1> QED BY <1>2, AllowedInSession

(* Every step to a path, and itself.                                       *)
InSight(p) == \A k \in 0..Len(p) : Allowed("stat", SubSeq(p, 1, k))

LEMMA RootInSight ==
  ASSUME Invariant, status = "running"
  PROVE  /\ \A p : Allowed("stat", SubSeq(p, 1, 0))
         /\ Allowed("read", <<>>) /\ Allowed("stat", <<>>)
<1>1. \A op \in Reading : Grants(Traversal(host), op, <<>>)
  BY TraversalRules DEF Reading
<1>2. \A op \in Reading : Middle(host, op, <<>>)
  BY <1>1 DEF Middle
<1>3. \A op \in Reading : Allowed(op, <<>>)
  BY <1>2, ReadingIsAllowed
<1>4. \A p : SubSeq(p, 1, 0) = <<>>
  OBVIOUS
<1> QED BY <1>3, <1>4 DEF Reading

LEMMA TraversalIsSeen ==
  ASSUME Invariant, status = "running", NEW q \in TraversalAncestors(host)
  PROVE  Allowed("stat", q)
<1>1. Middle(host, "stat", q)
  BY DEF Middle
<1> QED BY <1>1, ReadingIsAllowed DEF Reading

(* What is above a path in sight is in sight.                              *)
LEMMA AboveInSight ==
  ASSUME NEW p \in Paths, InSight(p), NEW q \in Paths, Under(p, q)
  PROVE  Allowed("stat", q) /\ InSight(q)
<1>1. Len(q) \in 0..Len(p) /\ Len(q) \in Nat
  BY UnderMeans DEF Paths
<1>2. \A k \in 0..Len(q) : k \in 0..Len(p) /\ SubSeq(p, 1, k) = SubSeq(q, 1, k)
  BY <1>1, AboveIsPrefix DEF Paths
<1>3. SubSeq(q, 1, Len(q)) = q /\ Len(q) \in 0..Len(q)
  BY <1>1 DEF Paths
<1>4. InSight(q)
  BY <1>2 DEF InSight
<1>5. Allowed("stat", SubSeq(q, 1, Len(q)))
  BY <1>3, <1>4 DEF InSight
<1> QED BY <1>3, <1>4, <1>5

(* The session's directory is granted with all that is above it, ...       *)
LEMMA SessionInSight ==
  ASSUME Invariant, status = "running"
  PROVE  InSight(host.session)
<1>1. host.session \in Paths
  BY HostFacts DEF Invariant, Grounded
<1>2. \A q : q = host.session \/ q \in Ancestors(host.session) => q \in TraversalAncestors(host)
  BY DEF TraversalAncestors
<1>3. ASSUME NEW k \in 0..Len(host.session)
      PROVE  Allowed("stat", SubSeq(host.session, 1, k))
  BY <1>1, <1>2, AboveIsAncestor, TraversalIsSeen, RootInSight
<1> QED BY <1>3 DEF InSight

(* ... and so are the home ...                                             *)
LEMMA HomeInSight ==
  ASSUME Invariant, status = "running"
  PROVE  InSight(Home)
<1>1. Home \in Paths
  BY PlacesAssumption
<1>2. ASSUME NEW q \in {Home} \cup SystemDirs PROVE Allowed("stat", q)
  <2>1. Grants(Traversal(host), "stat", q)
    BY <1>2, TraversalRules
  <2> QED BY <2>1, ReadingIsAllowed DEF Middle, Reading
<1>3. ASSUME NEW q \in Ancestors(Home) PROVE Allowed("stat", q)
  <2>1. q \in SystemDirs \/ Under(host.session, q)
    BY HostSettled DEF Invariant, Settled
  <2>2. q \in Paths
    <3>1. PICK k \in 1..(Len(Home) - 1) : q = SubSeq(Home, 1, k)
      BY DEF Ancestors
    <3>2. k \in 0..Len(Home)
      BY <1>1, <3>1 DEF Paths
    <3> QED BY <1>1, <3>1, <3>2, PrefixAbove
  <2>3. CASE Under(host.session, q)
    <3>1. host.session \in Paths
      BY HostFacts DEF Invariant, Grounded
    <3> QED BY <2>2, <2>3, <3>1, SessionInSight, AboveInSight
  <2> QED BY <1>2, <2>1, <2>3
<1>4. ASSUME NEW k \in 0..Len(Home) PROVE Allowed("stat", SubSeq(Home, 1, k))
  BY <1>1, <1>2, <1>3, AboveIsAncestor, RootInSight
<1> QED BY <1>4 DEF InSight

(* ... and the store.                                                      *)
LEMMA StoreInSight ==
  ASSUME Invariant, status = "running"
  PROVE  InSight(Store)
<1>1. Store \in Paths
  BY PlacesAssumption
<1>2. ASSUME NEW q \in Ancestors(Store) \cup {Store} PROVE Allowed("stat", q)
  <2>1. Grants(Traversal(host), "stat", q)
    BY <1>2, TraversalRules
  <2> QED BY <2>1, ReadingIsAllowed DEF Middle, Reading
<1>3. ASSUME NEW k \in 0..Len(Store) PROVE Allowed("stat", SubSeq(Store, 1, k))
  BY <1>1, <1>2, AboveIsAncestor, RootInSight
<1> QED BY <1>3 DEF InSight

(* A path whose steps below one in sight are granted is in sight if itself *)
(* is.                                                                     *)
LEMMA DownFrom ==
  ASSUME Invariant, status = "running", NEW p \in Paths, NEW stop \in Paths, InSight(stop),
         AncestorsTo(p, stop) \subseteq TraversalAncestors(host), Allowed("stat", p)
  PROVE  InSight(p)
<1>1. ASSUME NEW q \in Ancestors(p) PROVE Allowed("stat", q)
  <2>1. CASE q \in AncestorsTo(p, stop)
    BY <2>1, TraversalIsSeen
  <2>2. CASE q \notin AncestorsTo(p, stop)
    <3>1. Under(stop, q)
      BY <2>2 DEF AncestorsTo
    <3>2. PICK k \in 1..(Len(p) - 1) : q = SubSeq(p, 1, k)
      BY DEF Ancestors
    <3>3. k \in 0..Len(p)
      BY <3>2 DEF Paths
    <3>4. q \in Paths
      BY <3>2, <3>3, PrefixAbove
    <3> QED BY <3>1, <3>4, AboveInSight
  <2> QED BY <2>1, <2>2
<1>2. ASSUME NEW k \in 0..Len(p) PROVE Allowed("stat", SubSeq(p, 1, k))
  BY <1>1, AboveIsAncestor, RootInSight
<1> QED BY <1>2 DEF InSight

(* What is granted under a directory in sight is in sight.                 *)
LEMMA WithinGranted ==
  ASSUME NEW p \in Paths, NEW dir \in Paths, NEW top \in Paths, Under(p, top), InSight(top),
         Len(dir) <= Len(top) + 1, Under(p, dir),
         \A q \in Paths : Under(q, dir) => Allowed("stat", q)
  PROVE  InSight(p)
<1> SUFFICES ASSUME NEW k \in 0..Len(p) PROVE Allowed("stat", SubSeq(p, 1, k))
  BY DEF InSight
<1> DEFINE q == SubSeq(p, 1, k)
<1>1. q \in Paths /\ Len(q) = k /\ Under(p, q)
  BY PrefixAbove
<1>2. Len(top) \in Nat /\ Len(dir) \in Nat /\ k \in Nat
  BY DEF Paths
<1> HIDE DEF q
<1>3. CASE k <= Len(top)
  <2>1. Under(top, q)
    <3>1. Under(top, q) \/ Under(q, top)
      BY <1>1, OneAbove
    <3>2. ASSUME Under(q, top) PROVE q = top
      BY <1>1, <1>2, <1>3, <3>2, SameLength
    <3> QED BY <3>1, <3>2, UnderItself
  <2> QED BY <1>1, <2>1, AboveInSight DEF q
<1>4. CASE k > Len(top)
  <2>1. Under(q, dir)
    <3>1. Under(dir, q) \/ Under(q, dir)
      BY <1>1, OneAbove
    <3>2. ASSUME Under(dir, q) PROVE dir = q
      <4>1. Len(dir) <= Len(q)
        BY <1>1, <1>2, <1>4
      <4> QED BY <1>1, <3>2, <4>1, SameLength
    <3> QED BY <3>1, <3>2, UnderItself
  <2> QED BY <1>1, <2>1 DEF q
<1> QED BY <1>2, <1>3, <1>4

(* Whose steps are granted.                                                *)
LEMMA StepsAreGranted ==
  ASSUME NEW h
  PROVE  /\ AncestorsTo(h.workspace, Home) \subseteq TraversalAncestors(h)
         /\ \A p \in GitDirOf(h) : AncestorsTo(p, Home) \subseteq TraversalAncestors(h)
         /\ \A d \in DeclaredSet(h) :
              /\ AncestorsTo(d.path, Home) \subseteq TraversalAncestors(h)
              /\ \A n \in 1..Len(d.parents) :
                   /\ AncestorsTo(d.parents[n].path, Home) \subseteq TraversalAncestors(h)
                   /\ d.parents[n].path \in TraversalAncestors(h)
         /\ \A p \in StoreTargets(h, Exposed(h)) :
              AncestorsTo(p, Store) \subseteq TraversalAncestors(h)
<1> DEFINE to(S, stop) == UNION {AncestorsTo(p, stop) : p \in S}
           links == UNION {{d.parents[n].path : n \in 1..Len(d.parents)} : d \in DeclaredSet(h)}
           paths == {h.workspace} \cup GitDirOf(h) \cup links \cup {d.path : d \in DeclaredSet(h)}
<1>1. TraversalAncestors(h) =
        to(paths, Home) \cup links \cup to(StoreTargets(h, Exposed(h)), Store)
          \cup {h.session} \cup Ancestors(h.session)
  BY DEF TraversalAncestors
<1>2. \A S, stop : \A p \in S : AncestorsTo(p, stop) \subseteq to(S, stop)
  OBVIOUS
<1>3. \A d \in DeclaredSet(h) : \A n \in 1..Len(d.parents) : d.parents[n].path \in links
  OBVIOUS
<1> HIDE DEF to, links
<1>4. \A p \in paths : AncestorsTo(p, Home) \subseteq TraversalAncestors(h)
  <2> HIDE DEF paths
  <2> QED BY <1>1, <1>2
<1>5. \A p \in StoreTargets(h, Exposed(h)) : AncestorsTo(p, Store) \subseteq TraversalAncestors(h)
  BY <1>1, <1>2
<1>6. links \subseteq TraversalAncestors(h) /\ links \subseteq paths
  BY <1>1
<1>7. /\ h.workspace \in paths /\ GitDirOf(h) \subseteq paths
      /\ \A d \in DeclaredSet(h) : d.path \in paths
  OBVIOUS
<1> HIDE DEF paths
<1> QED BY <1>3, <1>4, <1>5, <1>6, <1>7

(* What is declared, by its physical path, ...                             *)
LEMMA DeclaredInSight ==
  ASSUME Invariant, status = "running", NEW d \in DeclaredSet(host)
  PROVE  InSight(d.path) /\ Allowed("read", d.path)
<1>1. d.mode \in {"rw", "ro"} /\ d.kind \in {"dir", "file"} /\ d.path \in Paths
  BY DeclaredFacts DEF Invariant
<1>2. ASSUME NEW op \in Reading PROVE Allowed(op, d.path)
  <2>1. Under(d.path, d.path)
    BY <1>1, UnderItself
  <2>2. d \in InMode(host, d.mode)
    BY DEF InMode
  <2>3. d.path \in PathsOf(InMode(host, d.mode), d.kind)
    BY <2>2 DEF PathsOf
  <2>4. Grants(Declared(host), op, d.path)
    <3>1. CASE d.kind = "dir"
      <4>1. AlreadyBound(d.path, PathsOf(InMode(host, d.mode), "dir"))
        BY <2>1, <2>3, <3>1 DEF AlreadyBound
      <4>2. \/ AlreadyBound(d.path, RwDirs(host))
            \/ AlreadyBound(d.path, PathsOf(InMode(host, "ro"), "dir"))
        BY <1>1, <4>1 DEF RwDirs
      <4> QED BY <4>2, DeclaredRules
    <3>2. CASE d.kind = "file"
      <4>1. d.path \in PathsOf(InMode(host, "rw"), "file")
              \/ d.path \in PathsOf(InMode(host, "ro"), "file")
        BY <1>1, <2>3, <3>2
      <4> QED BY <4>1, DeclaredRules
    <3> QED BY <1>1, <3>1, <3>2
  <2> QED BY <2>4, ReadingIsAllowed DEF Middle
<1>3. Home \in Paths
  BY PlacesAssumption
<1>4. InSight(d.path)
  BY <1>1, <1>2, <1>3, HomeInSight, StepsAreGranted, DownFrom DEF Reading
<1> QED BY <1>2, <1>4 DEF Reading

(* ... the links on the way to it, ...                                     *)
LEMMA ParentsInSight ==
  ASSUME Invariant, status = "running", NEW d \in DeclaredSet(host),
         NEW n \in 1..Len(d.parents), d.parents[n].path \in Paths
  PROVE  InSight(d.parents[n].path)
<1> DEFINE p == d.parents[n].path
<1>1. p \in Paths /\ AncestorsTo(p, Home) \subseteq TraversalAncestors(host)
      /\ p \in TraversalAncestors(host)
  BY StepsAreGranted
<1> HIDE DEF p
<1>2. Home \in Paths
  BY PlacesAssumption
<1>3. Allowed("stat", p)
  BY <1>1, TraversalIsSeen
<1>4. InSight(p)
  BY <1>1, <1>2, <1>3, HomeInSight, DownFrom
<1> QED BY <1>4 DEF p

(* ... and where its final name leads, or a link's inside it, if that was  *)
(* not warned of.                                                          *)
LEMMA LandingInSight ==
  ASSUME Invariant, ReachInv, status = "running", NEW l \in Landings(host), l \in Paths,
         l \notin Warned(host, Exposed(host))
  PROVE  InSight(l) /\ Allowed("read", l)
<1>1. Store \in Paths /\ Closure \subseteq Paths /\ InSight(Store)
  BY PlacesAssumption, StoreInSight
<1>2. CASE AlreadyBound(l, Exposed(host))
  <2>1. CASE host.allowNix
    <3>1. host.socket # NoPath /\ Under(l, Store)
      BY <1>2, <2>1 DEF ReachInv, Exposed, AlreadyBound
    <3>2. ASSUME NEW q, Under(q, Store), NEW op \in Reading PROVE Allowed(op, q)
      <4>1. Grants(NixSupport(host), op, q)
        BY <3>1, <3>2, NixRules DEF Reading
      <4> QED BY <4>1, ReadingIsAllowed DEF Early
    <3>3. Len(Store) <= Len(Store) + 1
      BY <1>1 DEF Paths
    <3>4. InSight(l)
      BY <1>1, <3>1, <3>2, <3>3, WithinGranted DEF Reading
    <3> QED BY <3>1, <3>2, <3>4 DEF Reading
  <2>2. CASE ~host.allowNix
    <3>1. PICK c \in Closure : Under(l, c)
      BY <1>2, <2>2 DEF Exposed, AlreadyBound
    <3>2. c \in Paths /\ Under(c, Store) /\ Len(c) = Len(Store) + 1
      BY <1>1, StorePathsAssumption
    <3>3. ASSUME NEW q, Under(q, c), NEW op \in Reading PROVE Allowed(op, q)
      <4>1. Grants(StoreGrants(host), op, q)
        BY <3>3, StoreRules DEF AlreadyBound
      <4> QED BY <4>1, ReadingIsAllowed DEF Middle
    <3>4. Under(l, Store)
      BY <1>1, <3>1, <3>2, UnderUnder
    <3>5. Len(c) <= Len(Store) + 1
      BY <1>1, <3>2 DEF Paths
    <3>6. InSight(l)
      BY <1>1, <3>1, <3>2, <3>3, <3>4, <3>5, WithinGranted DEF Reading
    <3> QED BY <3>1, <3>3, <3>6 DEF Reading
  <2> QED BY <2>1, <2>2
<1>3. CASE ~AlreadyBound(l, Exposed(host))
  <2>1. l \in StoreTargets(host, Exposed(host))
    BY <1>3 DEF Warned, StoreTargets, Unbound
  <2>2. ASSUME NEW op \in Reading PROVE Allowed(op, l)
    <3>1. Grants(StoreGrants(host), op, l)
      BY <2>1, UnderItself, StoreRules DEF AlreadyBound
    <3> QED BY <3>1, ReadingIsAllowed DEF Middle
  <2>3. InSight(l)
    BY <1>1, <2>1, <2>2, StepsAreGranted, DownFrom DEF Reading
  <2> QED BY <2>2, <2>3 DEF Reading
<1> QED BY <1>2, <1>3

(* The steps of a walk that looks at q are granted: those to its first     *)
(* link, if there is one.                                                  *)
Passed(q, map) ==
  \A k \in 0..(IF FirstLink(q, map) = 0 THEN Len(q) ELSE FirstLink(q, map)) :
    Allowed("stat", SubSeq(q, 1, k))

LEMMA SightIsPassed ==
  ASSUME NEW q \in Paths, NEW map, InSight(q)
  PROVE  Passed(q, map)
<1>1. PICK n \in Nat : n = Len(q)
  BY DEF Paths
<1>2. FirstLink(q, map) \in 0..n
  BY <1>1, FirstLinkIsFirst
<1> QED BY <1>1, <1>2 DEF Passed, InSight

LEMMA LinkIsPassed ==
  ASSUME NEW q \in Paths, NEW map, FirstLink(q, map) # 0, InSight(AtLink(q, map))
  PROVE  Passed(q, map)
<1>1. PICK n \in Nat : n = Len(q)
  BY DEF Paths
<1>2. PICK f \in Nat : f = FirstLink(q, map) /\ f \in 0..n
  BY <1>1, FirstLinkIsFirst
<1>3. AtLink(q, map) = SubSeq(q, 1, f) /\ Len(SubSeq(q, 1, f)) = f
      /\ SubSeq(q, 1, f) \in Paths /\ Under(q, SubSeq(q, 1, f))
  BY <1>1, <1>2, PrefixAbove DEF AtLink
<1>4. \A k \in 0..f : SubSeq(q, 1, k) = SubSeq(SubSeq(q, 1, f), 1, k)
  BY <1>3, AboveIsPrefix
<1>5. \A k \in 0..f : Allowed("stat", SubSeq(SubSeq(q, 1, f), 1, k))
  BY <1>3 DEF InSight
<1> QED BY <1>2, <1>4, <1>5 DEF Passed

LEMMA ReachedBySteps ==
  ASSUME NEW p, Whole(p, Links), Allowed("read", Landing(p, Links)),
         \A n \in 0..MaxFollows : Passed(Trail(p, Links)[n], Links)
  PROVE  Reached(p)
<1> DEFINE length(q) == IF FirstLink(q, Links) = 0 THEN Len(q) ELSE FirstLink(q, Links)
<1>1. ASSUME NEW n \in 0..MaxFollows, NEW k \in 0..length(Trail(p, Links)[n])
      PROVE  Allowed("stat", SubSeq(Trail(p, Links)[n], 1, k))
  BY <1>1 DEF Passed
<1>2. Visited(p) = UNION {{SubSeq(Trail(p, Links)[n], 1, k) : k \in 0..length(Trail(p, Links)[n])} :
                          n \in 0..MaxFollows}
  BY DEF Visited
<1> HIDE DEF length
<1> QED BY <1>1, <1>2 DEF Reached

(* The links of the session's home change nothing of a walk that does not  *)
(* end in it.                                                              *)
LEMMA HomeIsSettled ==
  ASSUME Invariant, NEW q \in Paths, Under(q, SandboxHome(host))
  PROVE  FirstLink(q, host.links) = 0
<1> DEFINE home == SandboxHome(host)
<1>1. Grounded(host) /\ home \in Paths
  BY HostFacts, SessionPlaces DEF Invariant
<1>2. PICK h \in Nat, n \in Nat : h = Len(home) /\ n = Len(q)
  BY <1>1 DEF Paths
<1>3. ASSUME NEW k \in 1..n PROVE SubSeq(q, 1, k) \notin DOMAIN host.links
  <2>1. SubSeq(q, 1, k) \in Paths /\ Len(SubSeq(q, 1, k)) = k /\ Under(q, SubSeq(q, 1, k))
    BY <1>2, PrefixAbove
  <2>2. CASE k <= h
    <3>1. k \in 1..Len(home) /\ k \in 0..Len(home)
      BY <1>2, <2>2
    <3>2. SubSeq(q, 1, k) = SubSeq(home, 1, k)
      BY <1>1, <3>1, AboveIsPrefix
    <3> QED BY <1>1, <3>1, <3>2 DEF Grounded
  <2>3. CASE k > h
    <3>1. ~Under(home, SubSeq(q, 1, k))
      <4> HIDE DEF home
      <4>1. ~(Len(SubSeq(q, 1, k)) <= Len(home))
        BY <1>2, <2>1, <2>3
      <4> QED BY <1>1, <2>1, <4>1, UnderMeans
    <3>2. Under(SubSeq(q, 1, k), home)
      BY <1>1, <2>1, <3>1, OneAbove
    <3> QED BY <1>1, <3>2 DEF Grounded
  <2> QED BY <1>2, <2>2, <2>3
<1> QED BY <1>2, <1>3, FirstLinkIsFirst

LEMMA OutsideHome ==
  ASSUME Invariant, PlantInv, NEW q \in Paths, ~Under(q, SandboxHome(host))
  PROVE  /\ FirstLink(q, Links) = FirstLink(q, host.links)
         /\ FirstLink(q, host.links) # 0 => Followed(q, Links) = Followed(q, host.links)
         /\ Passed(q, host.links) <=> Passed(q, Links)
<1> DEFINE home == SandboxHome(host)
<1>1. Grounded(host) /\ home \in Paths
  BY HostFacts, SessionPlaces DEF Invariant
<1>2. DOMAIN Links = DOMAIN host.links \cup DOMAIN planted
  BY DEF Links
<1>3. ASSUME NEW k \in 0..Len(q) PROVE SubSeq(q, 1, k) \notin DOMAIN planted
  <2>1. SubSeq(q, 1, k) \in Paths /\ Under(q, SubSeq(q, 1, k))
    BY PrefixAbove
  <2>2. ~Under(SubSeq(q, 1, k), home)
    BY <1>1, <2>1, UnderUnder
  <2> QED BY <2>2 DEF PlantInv, StrictlyUnder
<1>4. FirstLink(q, Links) = FirstLink(q, host.links)
  <2>1. \A k \in 1..Len(q) : k \in 0..Len(q)
    BY DEF Paths
  <2>2. {k \in 1..Len(q) : SubSeq(q, 1, k) \in DOMAIN Links}
          = {k \in 1..Len(q) : SubSeq(q, 1, k) \in DOMAIN host.links}
    BY <1>2, <1>3, <2>1
  <2> QED BY <2>2 DEF FirstLink
<1>5. ASSUME FirstLink(q, host.links) # 0
      PROVE  Followed(q, Links) = Followed(q, host.links)
  <2>1. AtLink(q, Links) = AtLink(q, host.links)
    BY <1>4 DEF AtLink
  <2>2. AtLink(q, host.links) \in DOMAIN host.links
        /\ FirstLink(q, host.links) \in 0..Len(q)
    BY <1>5, FirstLinkIsFirst
  <2>3. AtLink(q, host.links) \notin DOMAIN planted
    BY <1>3, <2>2 DEF AtLink
  <2>4. Links[AtLink(q, host.links)] = host.links[AtLink(q, host.links)]
    BY <1>2, <2>2, <2>3 DEF Links
  <2> QED BY <1>4, <2>1, <2>4 DEF Followed
<1> QED BY <1>4, <1>5 DEF Passed

LEMMA SameWalk ==
  ASSUME Invariant, PlantInv, NEW p \in Paths, Whole(p, host.links),
         ~Under(Landing(p, host.links), SandboxHome(host))
  PROVE  /\ \A n \in 0..MaxFollows :
              /\ Trail(p, Links)[n] = Trail(p, host.links)[n]
              /\ Trail(p, host.links)[n] \in Paths
              /\ ~Under(Trail(p, host.links)[n], SandboxHome(host))
         /\ Landing(p, Links) = Landing(p, host.links)
         /\ Whole(p, Links)
<1> DEFINE at(n) == Trail(p, host.links)[n]
<1>1. Grounded(host)
  BY HostFacts DEF Invariant
<1>2. \A n \in 0..MaxFollows : at(n) \in Paths
  BY <1>1, TrailIsPaths DEF Grounded
<1>3. ASSUME NEW n \in 0..MaxFollows PROVE ~Under(at(n), SandboxHome(host))
  <2>1. ASSUME Under(at(n), SandboxHome(host)) PROVE FALSE
    <3>1. FirstLink(at(n), host.links) = 0
      BY <1>2, <2>1, HomeIsSettled
    <3>2. MaxFollows \in n..MaxFollows
      BY FollowsAssumption
    <3>3. at(MaxFollows) = at(n)
      BY <3>1, <3>2, TrailSettled
    <3> QED BY <2>1, <3>3 DEF Landing
  <2> QED BY <2>1
<1>4. \A n \in 0..MaxFollows :
        /\ FirstLink(at(n), Links) = FirstLink(at(n), host.links)
        /\ FirstLink(at(n), host.links) # 0 =>
             Followed(at(n), Links) = Followed(at(n), host.links)
  BY <1>2, <1>3, OutsideHome
<1> DEFINE Same == {n \in 0..MaxFollows : Trail(p, Links)[n] = at(n)}
<1>5. 0 \in Same
  BY TrailRecursion, FollowsAssumption
<1>6. ASSUME NEW n \in 0..MaxFollows, n \in Same, n < MaxFollows
      PROVE  n + 1 \in Same
  <2>1. n + 1 \in 1..MaxFollows /\ (n + 1) - 1 = n /\ n + 1 \in 0..MaxFollows
    BY <1>6, FollowsAssumption
  <2>2. at(n + 1) = IF FirstLink(at(n), host.links) = 0 THEN at(n)
                    ELSE Followed(at(n), host.links)
    BY <2>1, TrailRecursion
  <2>3. Trail(p, Links)[n + 1] =
          IF FirstLink(at(n), Links) = 0 THEN at(n) ELSE Followed(at(n), Links)
    BY <1>6, <2>1, TrailRecursion
  <2> QED BY <1>4, <2>1, <2>2, <2>3
<1>7. \A n \in 0..MaxFollows : n \in Same
  <2> HIDE DEF Same
  <2> QED BY <1>5, <1>6, CountUp, FollowsAssumption
<1>8. MaxFollows \in 0..MaxFollows
  BY FollowsAssumption
<1>9. Landing(p, Links) = Landing(p, host.links)
  BY <1>7, <1>8 DEF Landing
<1>10. FirstLink(Landing(p, Links), Links) = 0
  <2>1. FirstLink(at(MaxFollows), host.links) = 0
    BY DEF Whole, Landing
  <2> QED BY <1>4, <1>8, <1>9, <2>1 DEF Landing
<1> QED BY <1>2, <1>3, <1>7, <1>9, <1>10 DEF Whole

(* So a walk of the host whose steps are granted reaches, if what it comes *)
(* to is there.                                                            *)
LEMMA ReachedAsOnHost ==
  ASSUME Invariant, PlantInv, NEW p \in Paths, Whole(p, host.links),
         Landing(p, host.links) \in host.dirs \cup host.files,
         \A n \in 0..MaxFollows : Passed(Trail(p, host.links)[n], host.links),
         Allowed("read", Landing(p, host.links))
  PROVE  Reached(p)
<1>1. ~Under(Landing(p, host.links), SandboxHome(host))
  BY HostFacts DEF Invariant, Grounded
<1>2. /\ \A n \in 0..MaxFollows :
           /\ Trail(p, Links)[n] = Trail(p, host.links)[n]
           /\ Trail(p, host.links)[n] \in Paths
           /\ ~Under(Trail(p, host.links)[n], SandboxHome(host))
      /\ Landing(p, Links) = Landing(p, host.links)
      /\ Whole(p, Links)
  BY <1>1, SameWalk
<1>3. \A n \in 0..MaxFollows : Passed(Trail(p, Links)[n], Links)
  BY <1>2, OutsideHome
<1> QED BY <1>2, <1>3, ReachedBySteps

(* A path with no link on it is reached if it is in sight and may be read. *)
LEMMA ReachedDirectly ==
  ASSUME NEW p \in Paths, \A k \in 1..Len(p) : SubSeq(p, 1, k) \notin DOMAIN Links,
         InSight(p), Allowed("read", p)
  PROVE  Reached(p)
<1>1. FirstLink(p, Links) = 0
  BY FirstLinkIsFirst
<1>2. 0 \in 0..MaxFollows /\ MaxFollows \in 0..MaxFollows /\ Trail(p, Links)[0] = p
  BY TrailRecursion, FollowsAssumption
<1>3. \A n \in 0..MaxFollows : Trail(p, Links)[n] = p
  BY <1>1, <1>2, TrailSettled
<1>4. Landing(p, Links) = p
  BY <1>2, <1>3 DEF Landing
<1>5. Passed(p, Links)
  BY SightIsPassed
<1> QED BY <1>1, <1>3, <1>4, <1>5, ReachedBySteps DEF Whole

LEMMA HopsAreLandings ==
  ASSUME NEW h, NEW d \in DeclaredSet(h)
  PROVE  /\ \A n \in 1..Len(d.hops) : d.hops[n] \in Landings(h)
         /\ \A i \in d.inner : \A n \in 1..Len(i.hops) : i.hops[n] \in Landings(h)
<1> DEFINE own(e) == {e.hops[n] : n \in 1..Len(e.hops)}
           inside(e) == UNION {{i.hops[n] : n \in 1..Len(i.hops)} : i \in e.inner}
<1>1. Landings(h) = UNION {own(e) \cup inside(e) : e \in DeclaredSet(h)}
  BY DEF Landings
<1>2. \A n \in 1..Len(d.hops) : d.hops[n] \in own(d)
  OBVIOUS
<1>3. \A i \in d.inner : \A n \in 1..Len(i.hops) : i.hops[n] \in inside(d)
  OBVIOUS
<1> HIDE DEF own, inside
<1> QED BY <1>1, <1>2, <1>3

(* The walk of a declared name: each link before its final name is granted *)
(* as a step, and what its final name leads to as a landing.               *)
LEMMA DeclaredWalk ==
  ASSUME Invariant, ReachInv, status = "running", NEW d \in DeclaredSet(host), ~WarnedOf(d.hops)
  PROVE  /\ \A n \in 0..MaxFollows : Passed(Trail(d.name, host.links)[n], host.links)
         /\ Allowed("read", Landing(d.name, host.links))
<1> DEFINE at(n) == Trail(d.name, host.links)[n]
<1>1. /\ d.name \in Paths /\ d.path \in Paths /\ Whole(d.name, host.links)
      /\ d.path = PhysicalPath(d.name, host.links)
      /\ d.parents = ParentLinks(d.name, host.links)
      /\ d.hops = Hops(d.name, host.links)
  BY WholeEntry DEF Invariant, ReachInv
<1>2. \A q \in DOMAIN host.links : host.links[q] \in Paths
  BY HostFacts DEF Invariant, Grounded
<1>3. \A n \in 0..MaxFollows : at(n) \in Paths
  BY <1>1, <1>2, TrailIsPaths
<1>4. PICK k \in 0..MaxFollows :
        /\ d.path = at(k) /\ AtFinal(at(k), host.links)
        /\ \A m \in 0..MaxFollows : AtFinal(at(m), host.links) => k <= m
  BY <1>1, PhysicalIsFinal
<1>5. ASSUME NEW l, l \in {d.path, <<>>} \/ \E j \in 1..Len(d.hops) : d.hops[j] = l, l \in Paths
      PROVE  InSight(l) /\ Allowed("read", l)
  <2>1. CASE l = d.path
    BY <2>1, DeclaredInSight
  <2>2. CASE l = <<>>
    <3>1. Len(l) = 0
      BY <2>2
    <3> QED BY <2>2, <3>1, RootInSight DEF InSight
  <2>3. CASE \E j \in 1..Len(d.hops) : d.hops[j] = l
    <3>1. l \notin Warned(host, Exposed(host))
      BY <2>3 DEF WarnedOf
    <3>2. l \in Landings(host)
      BY <2>3, HopsAreLandings
    <3> QED BY <1>5, <3>1, <3>2, LandingInSight
  <2> QED BY <1>5, <2>1, <2>2, <2>3
<1>6. ASSUME NEW n \in 0..MaxFollows, AtFinal(at(n), host.links)
      PROVE  InSight(at(n)) /\ Allowed("read", at(n))
  <2>1. n \in k..MaxFollows
    BY <1>4, <1>6, FollowsAssumption
  <2>2. \/ at(n) \in {at(k), <<>>}
        \/ \E j \in 1..Len(Hops(d.name, host.links)) : Hops(d.name, host.links)[j] = at(n)
    BY <1>1, <1>2, <1>4, <1>6, <2>1, FinalsAreHops
  <2> QED BY <1>1, <1>3, <1>4, <1>5, <2>2
<1>7. ASSUME NEW n \in 0..MaxFollows PROVE Passed(at(n), host.links)
  <2>1. CASE AtFinal(at(n), host.links)
    BY <1>3, <1>6, <2>1, SightIsPassed
  <2>2. CASE ~AtFinal(at(n), host.links)
    <3>1. PICK j \in 1..Len(d.parents) : d.parents[j].path = AtLink(at(n), host.links)
      BY <1>1, <1>2, <2>2, ParentsAreKept
    <3>2. FirstLink(at(n), host.links) # 0
      BY <2>2 DEF AtFinal
    <3>3. AtLink(at(n), host.links) \in Paths
      <4>1. FirstLink(at(n), host.links) \in 0..Len(at(n))
        BY <1>3, FirstLinkIsFirst
      <4> QED BY <1>3, <4>1, PrefixAbove DEF AtLink
    <3>4. InSight(AtLink(at(n), host.links))
      BY <3>1, <3>3, ParentsInSight
    <3> QED BY <1>3, <3>2, <3>4, LinkIsPassed
  <2> QED BY <2>1, <2>2
<1>8. Allowed("read", Landing(d.name, host.links))
  <2>1. MaxFollows \in 0..MaxFollows /\ AtFinal(at(MaxFollows), host.links)
    BY <1>1, FollowsAssumption DEF Whole, Landing, AtFinal
  <2> QED BY <1>6, <2>1 DEF Landing
<1> QED BY <1>7, <1>8

LEMMA NameIsReached ==
  ASSUME Invariant, PlantInv, ReachInv, status = "running",
         NEW d \in DeclaredSet(host), ~WarnedOf(d.hops)
  PROVE  Reached(d.name)
<1>1. /\ d.name \in Paths /\ Whole(d.name, host.links)
      /\ d.path = PhysicalPath(d.name, host.links)
      /\ Landing(d.path, host.links) \in host.dirs \cup host.files
  BY WholeEntry DEF Invariant, ReachInv
<1>2. Landing(d.name, host.links) \in host.dirs \cup host.files
  BY <1>1, LandingOfPhysical
<1> QED BY <1>1, <1>2, DeclaredWalk, ReachedAsOnHost

(* The place of a declared path in the session's home is a link, with no   *)
(* other on the way to it.                                                 *)
LEMMA PlaceIsLink ==
  ASSUME Invariant, PlantInv, ReachInv, status = "running",
         NEW d \in DeclaredSet(host), Under(d.path, Home)
  PROVE  LET place == InHome(host, d.path)
         IN  /\ place \in Paths /\ Under(place, SandboxHome(host))
             /\ FirstLink(place, Links) = Len(place) /\ Len(place) # 0
             /\ Followed(place, Links) = d.path
<1> DEFINE place == InHome(host, d.path)
           home == SandboxHome(host)
<1>1. Grounded(host) /\ home \in Paths /\ d.path \in Paths /\ Len(home) \in Nat \ {0}
  BY HostFacts, SessionPlaces, DeclaredFacts DEF Invariant
<1>2. place \in Paths /\ Under(place, home)
  BY <1>1, InHomeMeans
<1>3. place \in DOMAIN planted /\ planted[place] = d.path
  <2>1. Len(toPlant) = 0
    BY DEF ReachInv
  <2> QED BY <2>1 DEF ReachInv
<1>4. DOMAIN Links = DOMAIN host.links \cup DOMAIN planted
  BY DEF Links
<1>5. Links[place] = d.path
  BY <1>3, <1>4 DEF Links
<1>6. FirstLink(place, host.links) = 0
  BY <1>2, HomeIsSettled
<1> HIDE DEF place, home
<1>7. PICK n \in Nat : n = Len(place) /\ 0 < n
  <2>1. Len(place) \in Nat /\ Len(home) <= Len(place)
    BY <1>1, <1>2, UnderMeans DEF Paths
  <2> QED BY <1>1, <2>1
<1>8. SubSeq(place, 1, n) = place
  BY <1>2, <1>7 DEF Paths
<1>9. ASSUME NEW k \in 1..(n - 1) PROVE SubSeq(place, 1, k) \notin DOMAIN Links
  <2> DEFINE q == SubSeq(place, 1, k)
  <2>1. q \in Paths /\ Len(q) = k /\ Under(place, q)
    <3>1. k \in 0..Len(place)
      BY <1>7
    <3> QED BY <1>2, <3>1, PrefixAbove
  <2>2. q \notin DOMAIN host.links
    <3>1. k \in 1..Len(place)
      BY <1>7
    <3> QED BY <1>2, <1>6, <3>1, FirstLinkIsFirst
  <2>3. q # place
    BY <1>7, <2>1
  <2>4. q \notin DOMAIN planted
    <3> HIDE DEF q
    <3> QED BY <1>3, <2>1, <2>3 DEF ReachInv
  <2> QED BY <1>4, <2>2, <2>4
<1>10. FirstLink(place, Links) = n
  <2>1. n \in 1..Len(place)
    BY <1>7
  <2>2. SubSeq(place, 1, n) \in DOMAIN Links
    BY <1>3, <1>4, <1>8
  <2> QED BY <1>2, <1>9, <2>1, <2>2, FirstLinkUnique
<1>11. Followed(place, Links) = d.path
  <2>1. AtLink(place, Links) = place
    BY <1>8, <1>10 DEF AtLink
  <2>2. SubSeq(place, n + 1, n) = <<>>
    BY <1>2, <1>7 DEF Paths
  <2>3. d.path \o <<>> = d.path
    BY <1>1 DEF Paths
  <2> QED BY <1>5, <1>7, <1>10, <2>1, <2>2, <2>3 DEF Followed
<1> QED BY <1>2, <1>7, <1>10, <1>11 DEF place, home

(* The session's home and all that is in it is in sight.                   *)
LEMMA OwnHomeInSight ==
  ASSUME Invariant, status = "running", NEW p \in Paths, Under(p, SandboxHome(host))
  PROVE  InSight(p) /\ Allowed("read", p)
<1> DEFINE home == SandboxHome(host)
<1>1. Grounded(host) /\ home \in Paths /\ host.session \in Paths
  BY HostFacts, SessionPlaces DEF Invariant, Grounded
<1>2. Len(home) = Len(host.session) + 1 /\ Under(home, host.session)
  BY <1>1, OwnNamesAssumption, WithinIsPath DEF SandboxHome
<1>3. ASSUME NEW q, Under(q, home), NEW op \in Reading PROVE Allowed(op, q)
  <2>1. Grants(Workspace(host), op, q)
    BY <1>3, WorkspaceRules
  <2> QED BY <2>1, ReadingIsAllowed DEF Middle
<1> HIDE DEF home
<1>4. Under(p, host.session) /\ Len(home) <= Len(host.session) + 1
  <2>1. Len(home) \in Nat
    BY <1>1 DEF Paths
  <2> QED BY <1>1, <1>2, <2>1, UnderUnder DEF home
<1>5. InSight(p)
  BY <1>1, <1>3, <1>4, SessionInSight, WithinGranted DEF Reading, home
<1> QED BY <1>3, <1>5 DEF Reading, home

LEMMA PlaceIsReached ==
  ASSUME Invariant, PlantInv, ReachInv, status = "running",
         NEW d \in DeclaredSet(host), ~WarnedOf(d.hops), Under(d.path, Home), OneToSpare(d.path)
  PROVE  Reached(InHome(host, d.path))
<1> DEFINE place == InHome(host, d.path)
<1>1. /\ d.name \in Paths /\ d.path \in Paths /\ Whole(d.name, host.links)
      /\ d.path = PhysicalPath(d.name, host.links)
      /\ Landing(d.path, host.links) \in host.dirs \cup host.files
  BY WholeEntry DEF Invariant, ReachInv
<1>2. /\ place \in Paths /\ Under(place, SandboxHome(host))
      /\ FirstLink(place, Links) = Len(place) /\ Len(place) # 0
      /\ Followed(place, Links) = d.path
  BY PlaceIsLink
<1> HIDE DEF place
<1>3. PICK s \in 1..MaxFollows : FirstLink(Trail(d.path, host.links)[s - 1], host.links) = 0
  BY DEF OneToSpare
<1>4. PICK k \in 0..MaxFollows : d.path = Trail(d.name, host.links)[k]
  BY <1>1, PhysicalIsFinal
<1>5. /\ Landing(d.path, host.links) = Landing(d.name, host.links)
      /\ \A n \in 0..MaxFollows :
           \E m \in k..MaxFollows : Trail(d.path, host.links)[n] = Trail(d.name, host.links)[m]
  BY <1>1, <1>4, WholeAhead
<1>6. Whole(d.path, host.links)
  BY <1>1, <1>5 DEF Whole
<1>7. \A n \in 0..MaxFollows : Passed(Trail(d.path, host.links)[n], host.links)
  <2>1. \A m \in k..MaxFollows : m \in 0..MaxFollows
    OBVIOUS
  <2> QED BY <1>5, <2>1, DeclaredWalk
<1>8. ~Under(Landing(d.path, host.links), SandboxHome(host))
  BY <1>1, HostFacts DEF Invariant, Grounded
<1>9. /\ \A n \in 0..MaxFollows :
           /\ Trail(d.path, Links)[n] = Trail(d.path, host.links)[n]
           /\ Trail(d.path, host.links)[n] \in Paths
           /\ ~Under(Trail(d.path, host.links)[n], SandboxHome(host))
      /\ Landing(d.path, Links) = Landing(d.path, host.links)
      /\ Whole(d.path, Links)
  BY <1>1, <1>6, <1>8, SameWalk
<1>10. \A n \in 0..MaxFollows : Passed(Trail(d.path, Links)[n], Links)
  BY <1>7, <1>9, OutsideHome
<1>11. 1 \in 0..MaxFollows /\ 1 \in 1..MaxFollows /\ 1 - 1 = 0
  BY <1>3, FollowsAssumption
<1>12. Trail(place, Links)[0] = place /\ Trail(place, Links)[1] = d.path
  BY <1>2, <1>11, TrailRecursion
<1>13. \A n \in 0..MaxFollows :
         n + 1 <= MaxFollows => Trail(d.path, Links)[n] = Trail(place, Links)[n + 1]
  BY <1>11, <1>12, TrailAhead
<1>14. Landing(place, Links) = Landing(d.path, Links)
  <2>1. s - 1 \in 0..MaxFollows /\ MaxFollows - 1 \in (s - 1)..MaxFollows
        /\ MaxFollows - 1 \in 0..MaxFollows /\ MaxFollows \in (s - 1)..MaxFollows
        /\ (MaxFollows - 1) + 1 = MaxFollows
    BY <1>3, FollowsAssumption
  <2>2. FirstLink(Trail(d.path, host.links)[s - 1], host.links) = 0
    BY <1>3
  <2>3. Trail(d.path, host.links)[MaxFollows - 1] = Trail(d.path, host.links)[s - 1]
        /\ Trail(d.path, host.links)[MaxFollows] = Trail(d.path, host.links)[s - 1]
    BY <2>1, <2>2, TrailSettled
  <2>4. Trail(place, Links)[MaxFollows] = Trail(d.path, Links)[MaxFollows - 1]
    BY <1>13, <2>1
  <2> QED BY <1>9, <2>1, <2>3, <2>4 DEF Landing
<1>15. ASSUME NEW n \in 0..MaxFollows PROVE Passed(Trail(place, Links)[n], Links)
  <2>1. CASE n = 0
    BY <1>2, <1>12, <2>1, OwnHomeInSight, SightIsPassed
  <2>2. CASE n # 0
    <3>1. n - 1 \in 0..MaxFollows /\ (n - 1) + 1 = n /\ n <= MaxFollows
      BY <2>2, FollowsAssumption
    <3>2. Trail(place, Links)[n] = Trail(d.path, Links)[n - 1]
      BY <1>13, <3>1
    <3> QED BY <1>10, <3>1, <3>2
  <2> QED BY <2>1, <2>2
<1>16. Allowed("read", Landing(place, Links))
  BY <1>5, <1>9, <1>14, DeclaredWalk
<1>17. Whole(place, Links)
  BY <1>9, <1>14 DEF Whole
<1>18. Reached(place)
  BY <1>15, <1>16, <1>17, ReachedBySteps
<1> QED BY <1>18 DEF place

(* A link inside a declared directory that leads through no other: each    *)
(* of its hops is reached, if it is there.                                 *)
LEMMA InnerIsReached ==
  ASSUME Invariant, PlantInv, ReachInv, status = "running",
         NEW d \in DeclaredSet(host), NEW i \in d.inner, i.parents = <<>>, ~WarnedOf(i.hops),
         NEW j \in 1..Len(i.hops), Exists(host, i.hops[j])
  PROVE  Reached(i.hops[j])
<1>1. d.path \in Paths /\ d.inner = InnerSymlinks(host, d.path)
  BY WholeEntry DEF Invariant, ReachInv
<1>2. PICK l \in DOMAIN host.links :
        LET entry == Append(d.path, Last(l))
        IN  /\ Whole(entry, host.links)
            /\ i = [parents |-> ParentLinks(entry, host.links), hops |-> Hops(entry, host.links)]
  BY <1>1 DEF InnerSymlinks
<1> DEFINE entry == Append(d.path, Last(l))
           at(n) == Trail(entry, host.links)[n]
<1>3. entry \in Paths
  <2>1. l \in Seq(FileNames) /\ l # <<>>
    BY HostFacts, HostSettled DEF Invariant, Grounded, Settled, Paths
  <2>2. Last(l) \in FileNames
    BY <2>1 DEF Last
  <2> QED BY <1>1, <2>2 DEF Paths
<1>4. Whole(entry, host.links) /\ i.parents = ParentLinks(entry, host.links)
      /\ i.hops = Hops(entry, host.links)
  BY <1>2
<1> HIDE DEF entry
<1>5. \A q \in DOMAIN host.links : host.links[q] \in Paths
  BY HostFacts DEF Invariant, Grounded
<1>6. \A n \in 0..MaxFollows : at(n) \in Paths
  BY <1>3, <1>5, TrailIsPaths
<1>7. \A n \in 0..MaxFollows : AtFinal(at(n), host.links)
  <2>1. Len(i.parents) = 0
    OBVIOUS
  <2> QED BY <1>3, <1>4, <1>5, <2>1, ParentsAreKept
<1>8. PICK k \in 1..MaxFollows : i.hops[j] = at(k)
  BY <1>3, <1>4, <1>5, HopIsStep
<1>9. k \in 0..MaxFollows
  BY FollowsAssumption
<1>10. ASSUME NEW n \in k..MaxFollows
       PROVE  InSight(at(n)) /\ Allowed("read", at(n))
  <2>1. n \in 0..MaxFollows
    BY <1>9
  <2>2. \/ at(n) \in {at(k), <<>>}
        \/ \E m \in 1..Len(Hops(entry, host.links)) : Hops(entry, host.links)[m] = at(n)
    BY <1>3, <1>5, <1>7, <1>9, <2>1, FinalsAreHops
  <2>3. CASE at(n) = <<>>
    <3>1. Len(at(n)) = 0
      BY <2>3
    <3> QED BY <2>3, <3>1, RootInSight DEF InSight
  <2>4. CASE \E m \in 1..Len(i.hops) : i.hops[m] = at(n)
    <3>1. at(n) \notin Warned(host, Exposed(host))
      BY <2>4 DEF WarnedOf
    <3>2. at(n) \in Landings(host)
      BY <2>4, HopsAreLandings
    <3> QED BY <1>6, <2>1, <3>1, <3>2, LandingInSight
  <2> QED BY <1>4, <1>8, <2>2, <2>3, <2>4
<1>11. /\ Landing(at(k), host.links) = Landing(entry, host.links)
       /\ \A n \in 0..MaxFollows :
            \E m \in k..MaxFollows : Trail(at(k), host.links)[n] = at(m)
  BY <1>4, <1>9, WholeAhead
<1>12. ASSUME NEW n \in 0..MaxFollows
       PROVE  Passed(Trail(at(k), host.links)[n], host.links)
  <2>1. PICK m \in k..MaxFollows : Trail(at(k), host.links)[n] = at(m)
    BY <1>11
  <2>2. m \in 0..MaxFollows
    BY <1>9
  <2> QED BY <1>6, <1>10, <2>1, <2>2, SightIsPassed
<1>13. Whole(at(k), host.links)
  BY <1>4, <1>11 DEF Whole
<1>14. Landing(at(k), host.links) \in host.dirs \cup host.files
  BY <1>8 DEF Exists, IsDir, IsFile
<1>15. Allowed("read", Landing(at(k), host.links))
  <2>1. MaxFollows \in k..MaxFollows
    BY FollowsAssumption
  <2> QED BY <1>10, <1>11, <2>1 DEF Landing
<1>16. Reached(at(k))
  BY <1>6, <1>9, <1>12, <1>13, <1>14, <1>15, ReachedAsOnHost
<1> QED BY <1>8, <1>16

(* What every session has: a place by its real name, outside the session's *)
(* home, that the profile grants by itself.                                *)
LEMMA OwnPlaceReached ==
  ASSUME Invariant, PlantInv, status = "running", NEW p \in Paths,
         FirstLink(p, host.links) = 0, ~Under(p, SandboxHome(host)),
         InSight(p), Allowed("read", p)
  PROVE  Reached(p)
<1>1. FirstLink(p, Links) = 0
  BY OutsideHome
<1>2. \A k \in 1..Len(p) : SubSeq(p, 1, k) \notin DOMAIN Links
  BY <1>1, FirstLinkIsFirst
<1> QED BY <1>2, ReachedDirectly

LEMMA WorkspaceIsReached ==
  ASSUME Invariant, PlantInv, ReachInv, status = "running"
  PROVE  Reached(host.workspace)
<1> DEFINE w == host.workspace
<1>1. w \in Paths /\ Grounded(host) /\ Settled(host) /\ Home \in Paths
  BY HostFacts, HostSettled, PlacesAssumption DEF Invariant, Grounded
<1>2. FirstLink(w, host.links) = 0
  BY <1>1 DEF Settled
<1>3. Landing(w, host.links) = w
  <2>1. \A k \in 1..Len(w) : SubSeq(w, 1, k) \notin DOMAIN host.links
    BY <1>1, <1>2, FirstLinkIsFirst
  <2> QED BY <1>1, <2>1, NoLinkNoWalk
<1>4. ~Under(w, SandboxHome(host))
  BY <1>1, <1>3 DEF ReachInv, IsDir, Grounded
<1>5. ASSUME NEW op \in Reading PROVE Allowed(op, w)
  <2>1. Grants(Workspace(host), op, w)
    BY <1>1, UnderItself, WorkspaceRules
  <2> QED BY <2>1, ReadingIsAllowed DEF Middle
<1>6. InSight(w)
  BY <1>1, <1>5, HomeInSight, StepsAreGranted, DownFrom DEF Reading
<1> QED BY <1>1, <1>2, <1>4, <1>5, <1>6, OwnPlaceReached DEF Reading

LEMMA GitDirIsReached ==
  ASSUME Invariant, PlantInv, status = "running", NEW p \in GitDirOf(host)
  PROVE  Reached(p)
<1>1. Grounded(host) /\ Settled(host) /\ Home \in Paths
  BY HostFacts, HostSettled, PlacesAssumption DEF Invariant
<1>2. p = host.common /\ host.common # NoPath
  BY DEF GitDirOf, GitUsable
<1>3. p \in Paths /\ p \in host.dirs /\ FirstLink(p, host.links) = 0
  BY <1>1, <1>2 DEF Grounded, Settled
<1>4. ~Under(p, SandboxHome(host))
  BY <1>1, <1>3 DEF Grounded
<1>5. ASSUME NEW op \in Reading PROVE Allowed(op, p)
  <2>1. AlreadyBound(p, GitDirOf(host))
    BY <1>3, UnderItself DEF AlreadyBound
  <2>2. Grants(Workspace(host), op, p)
    BY <2>1, WorkspaceRules
  <2> QED BY <2>2, ReadingIsAllowed DEF Middle
<1>6. InSight(p)
  BY <1>1, <1>3, <1>5, HomeInSight, StepsAreGranted, DownFrom DEF Reading
<1> QED BY <1>3, <1>4, <1>5, <1>6, OwnPlaceReached DEF Reading

LEMMA OwnHomeReached ==
  ASSUME Invariant, PlantInv, status = "running"
  PROVE  Reached(SandboxHome(host))
<1> DEFINE home == SandboxHome(host)
<1>1. Grounded(host) /\ home \in Paths
  BY HostFacts, SessionPlaces DEF Invariant
<1>2. DOMAIN Links = DOMAIN host.links \cup DOMAIN planted
  BY DEF Links
<1>3. ASSUME NEW k \in 1..Len(home) PROVE SubSeq(home, 1, k) \notin DOMAIN Links
  <2>1. k \in 0..Len(home)
    BY <1>1 DEF Paths
  <2>2. SubSeq(home, 1, k) \in Paths /\ Under(home, SubSeq(home, 1, k))
    BY <1>1, <2>1, PrefixAbove
  <2>3. ASSUME Under(SubSeq(home, 1, k), home) PROVE SubSeq(home, 1, k) = home
    <3>1. Len(SubSeq(home, 1, k)) = k /\ Len(home) \in Nat
      BY <1>1, <2>1, PrefixAbove DEF Paths
    <3>2. Len(SubSeq(home, 1, k)) <= Len(home)
      BY <3>1
    <3> QED BY <1>1, <2>2, <2>3, <3>2, SameLength
  <2>4. SubSeq(home, 1, k) \notin DOMAIN planted
    BY <2>3 DEF PlantInv, StrictlyUnder
  <2>5. SubSeq(home, 1, k) \notin DOMAIN host.links
    BY <1>1 DEF Grounded
  <2> QED BY <1>2, <2>4, <2>5
<1>4. InSight(home) /\ Allowed("read", home)
  BY <1>1, UnderItself, OwnHomeInSight
<1> QED BY <1>1, <1>3, <1>4, ReachedDirectly

LEMMA OwnTmpReached ==
  ASSUME Invariant, PlantInv, status = "running"
  PROVE  Reached(SandboxTmp(host))
<1> DEFINE home == SandboxHome(host)
           tmp == SandboxTmp(host)
           s == host.session
<1>1. Grounded(host) /\ Settled(host) /\ home \in Paths /\ tmp \in Paths /\ s \in Paths
  BY HostFacts, HostSettled, SessionPlaces DEF Invariant, Grounded
<1>2. /\ Len(home) = Len(s) + 1 /\ Under(home, s)
      /\ Len(tmp) = Len(s) + 1 /\ Under(tmp, s)
  BY <1>1, OwnNamesAssumption, WithinIsPath DEF SandboxHome, SandboxTmp
<1>3. PICK n \in Nat : n = Len(s)
  BY <1>1 DEF Paths
<1>4. tmp \notin DOMAIN host.links
  BY <1>1 DEF Settled
<1>5. \A k \in 1..Len(home) : SubSeq(home, 1, k) \notin DOMAIN host.links
  BY <1>1 DEF Grounded
<1>6. ASSUME NEW op \in Reading, NEW q, Under(q, tmp) PROVE Allowed(op, q)
  <2>1. Grants(SessionFiles(host), op, q)
    BY <1>6, SessionRules
  <2> QED BY <2>1, ReadingIsAllowed DEF Middle
<1> HIDE DEF tmp, home, s
<1>7. ASSUME NEW k \in 1..Len(tmp) PROVE SubSeq(tmp, 1, k) \notin DOMAIN host.links
  <2>1. CASE k = n + 1
    <3>1. SubSeq(tmp, 1, k) = tmp
      BY <1>1, <1>2, <1>3, <2>1 DEF Paths
    <3> QED BY <1>4, <3>1
  <2>2. CASE k # n + 1
    <3>1. k \in 0..Len(s) /\ k \in 1..Len(home)
      BY <1>2, <1>3, <2>2
    <3>2. SubSeq(tmp, 1, k) = SubSeq(s, 1, k) /\ SubSeq(home, 1, k) = SubSeq(s, 1, k)
      BY <1>1, <1>2, <3>1, AboveIsPrefix
    <3> QED BY <1>5, <3>1, <3>2
  <2> QED BY <2>1, <2>2
<1>8. FirstLink(tmp, host.links) = 0
  BY <1>1, <1>7, FirstLinkIsFirst
<1>9. CASE Under(tmp, home)
  <2>1. tmp = home
    <3>1. Len(tmp) <= Len(home)
      BY <1>2, <1>3
    <3> QED BY <1>1, <1>9, <3>1, SameLength
  <2> QED BY <2>1, OwnHomeReached DEF tmp, home
<1>10. CASE ~Under(tmp, home)
  <2>1. Under(tmp, tmp) /\ Len(tmp) <= Len(s) + 1
    BY <1>1, <1>2, <1>3, UnderItself
  <2>2. InSight(s)
    BY SessionInSight DEF s
  <2>3. InSight(tmp)
    BY <1>1, <1>2, <1>6, <2>1, <2>2, WithinGranted DEF Reading
  <2>4. Allowed("read", tmp)
    BY <1>6, <2>1 DEF Reading
  <2> QED BY <1>1, <1>8, <1>10, <2>3, <2>4, OwnPlaceReached DEF tmp, home
<1> QED BY <1>9, <1>10

LEMMA AllReached ==
  ASSUME Invariant, PlantInv, ReachInv, status = "running"
  PROVE  DeclaredReached
<1>1. ASSUME NEW d \in DeclaredSet(host), ~WarnedOf(d.hops)
      PROVE  /\ Reached(d.name)
             /\ Under(d.path, Home) /\ OneToSpare(d.path) => Reached(InHome(host, d.path))
  BY <1>1, NameIsReached, PlaceIsReached
<1>2. ASSUME NEW d \in DeclaredSet(host), NEW i \in d.inner, i.parents = <<>>,
             ~WarnedOf(i.hops), NEW n \in 1..Len(i.hops), Exists(host, i.hops[n])
      PROVE  Reached(i.hops[n])
  BY <1>2, InnerIsReached
<1>3. ASSUME NEW p \in {host.workspace, SandboxHome(host), SandboxTmp(host)} \cup GitDirOf(host)
      PROVE  Reached(p)
  BY <1>3, WorkspaceIsReached, OwnHomeReached, OwnTmpReached, GitDirIsReached
<1> QED BY <1>1, <1>2, <1>3 DEF DeclaredReached

(* Each step to what was declared can be taken and its end read, by its    *)
(* name, by its place in the session's home and through the links inside   *)
(* it, unless a landing was warned of; and nothing else of the host is     *)
(* read (TraversalAncestors, StoreTargets and HomeSymlinks together).      *)
THEOREM AlwaysReadsAsGranted == Spec => []ReadsAsGranted
<1>1. Invariant /\ PlantInv /\ ReachInv => ReadsAsGranted
  BY AllReached, NothingElseIsRead DEF ReadsAsGranted
<1> QED BY <1>1, ReachHolds, PTL

=============================================================================
