-------------------------- MODULE KollaTagsProofs --------------------------
(***************************************************************************)
(* Proofs about KollaTags, for every list of tags, every hierarchy and any *)
(* images: the search of the script and the chain of defaults of the       *)
(* deployment end at the same tag, so that what is checked is deployed.    *)
(***************************************************************************)
EXTENDS KollaTags, SequenceTheorems, WellFoundedInduction, TLAPS

Name == Seq(STRING)

(* A set of numbers has a least one: induction without an operator.        *)
LEMMA Least ==
  ASSUME NEW S, S \subseteq Nat, S # {}
  PROVE  \E n \in S : \A m \in S : n <= m
<1>1. PICK n \in S : \A m \in S : ~(<<m, n>> \in OpToRel(<, Nat))
  BY WFMin, NatLessThanWellFounded, Zenon
<1>2. \A m \in S : ~(m < n)
  BY <1>1, Zenon DEF OpToRel
<1> QED BY <1>2
----------------------------------------------------------------------------
(* Prefixes, by their elements.                                            *)
LEMMA PrefixElements ==
  ASSUME NEW s \in Name, NEW t \in Name
  PROVE  IsPrefix(s, t) <=> Len(s) <= Len(t) /\ \A i \in 1..Len(s) : s[i] = t[i]
<1>1. Len(s) \in Nat /\ Len(t) \in Nat
  BY DEF Name
<1> SUFFICES ASSUME Len(s) <= Len(t)
             PROVE  SubSeq(s, 1, Len(s)) = SubSeq(t, 1, Len(s)) <=> \A i \in 1..Len(s) : s[i] = t[i]
  BY DEF IsPrefix
<1> DEFINE n == Len(s)
           a == SubSeq(s, 1, n)
           b == SubSeq(t, 1, n)
<1>2. /\ a \in Name /\ Len(a) = n /\ \A i \in 1..n : a[i] = s[i]
      /\ b \in Name /\ Len(b) = n /\ \A i \in 1..n : b[i] = t[i]
  <2>1. \A i \in 1..n : s[i] \in STRING /\ t[i] \in STRING
    BY <1>1 DEF Name
  <2> QED BY <1>1, <2>1, SubSeqProperties DEF Name
<1> HIDE DEF a, b
<1>3. ASSUME \A i \in 1..n : a[i] = b[i] PROVE a = b
  BY <1>2, <1>3, SeqEqual DEF Name
<1> QED BY <1>2, <1>3 DEF a, b

LEMMA SameNames ==
  ASSUME NEW s \in Name, NEW t \in Name, Len(s) = Len(t), \A i \in 1..Len(s) : s[i] = t[i]
  PROVE  s = t
BY SeqEqual DEF Name

(* A strict prefix is shorter.                                             *)
LEMMA Shorter ==
  ASSUME NEW s \in Name, NEW t \in Name, IsStrictPrefix(s, t)
  PROVE  Len(s) \in Nat /\ Len(t) \in Nat /\ Len(s) < Len(t)
<1>1. Len(s) \in Nat /\ Len(t) \in Nat
  BY DEF Name
<1>2. Len(s) # Len(t)
  BY <1>1, PrefixElements, SameNames DEF IsStrictPrefix
<1> QED BY <1>1, <1>2, PrefixElements DEF IsStrictPrefix

LEMMA PrefixTransitive ==
  ASSUME NEW s \in Name, NEW t \in Name, NEW u \in Name, IsStrictPrefix(s, t), IsStrictPrefix(t, u)
  PROVE  IsStrictPrefix(s, u)
<1>1. Len(s) \in Nat /\ Len(t) \in Nat /\ Len(u) \in Nat /\ Len(s) < Len(t) /\ Len(t) < Len(u)
  BY Shorter
<1>2. \A i \in 1..Len(s) : s[i] = u[i]
  <2>1. \A i \in 1..Len(s) : i \in 1..Len(t) /\ s[i] = t[i]
    BY <1>1, PrefixElements DEF IsStrictPrefix
  <2>2. \A i \in 1..Len(t) : t[i] = u[i]
    BY PrefixElements DEF IsStrictPrefix
  <2> QED BY <2>1, <2>2
<1>3. IsPrefix(s, u)
  BY <1>1, <1>2, PrefixElements
<1>4. s # u
  BY <1>1
<1> QED BY <1>3, <1>4 DEF IsStrictPrefix

(* Of two prefixes of a name the shorter is one of the other.              *)
LEMMA PrefixesNest ==
  ASSUME NEW s \in Name, NEW t \in Name, NEW u \in Name, IsStrictPrefix(s, u), IsStrictPrefix(t, u),
         Len(s) <= Len(t)
  PROVE  s = t \/ IsStrictPrefix(s, t)
<1>1. Len(s) \in Nat /\ Len(t) \in Nat
  BY Shorter
<1>2. \A i \in 1..Len(s) : s[i] = t[i]
  <2>1. \A i \in 1..Len(s) : i \in 1..Len(t) /\ s[i] = u[i]
    BY <1>1, PrefixElements DEF IsStrictPrefix
  <2>2. \A i \in 1..Len(t) : t[i] = u[i]
    BY PrefixElements DEF IsStrictPrefix
  <2> QED BY <2>1, <2>2
<1> QED BY <1>1, <1>2, PrefixElements DEF IsStrictPrefix

(* Longest finds the one prefix that is longer than the others.            *)
LEMMA LongestPrefix ==
  ASSUME NEW p \in Name, NEW M \in SUBSET Name, M # {}, \A k \in M : IsStrictPrefix(k, p)
  PROVE  /\ Longest(M) \in M /\ \A l \in M : Len(l) <= Len(Longest(M))
         /\ \A k \in M : (\A l \in M : Len(l) <= Len(k)) => k = Longest(M)
<1>1. \A k \in M : Len(k) \in Nat /\ Len(p) \in Nat /\ Len(k) < Len(p)
  BY Shorter
<1>2. \E k \in M : \A l \in M : Len(l) <= Len(k)
  <2> DEFINE S == {Len(p) - Len(k) : k \in M}
  <2>1. S \subseteq Nat /\ S # {}
    BY <1>1
  <2>2. PICK n \in S : \A m \in S : n <= m
    BY <2>1, Least
  <2>3. PICK k \in M : n = Len(p) - Len(k)
    BY <2>2
  <2>4. \A l \in M : n <= Len(p) - Len(l)
    BY <2>2
  <2> QED BY <1>1, <2>3, <2>4
<1>3. Longest(M) \in M /\ \A l \in M : Len(l) <= Len(Longest(M))
  BY <1>2 DEF Longest
<1>4. ASSUME NEW k \in M, \A l \in M : Len(l) <= Len(k) PROVE k = Longest(M)
  <2>1. Len(k) = Len(Longest(M))
    BY <1>1, <1>3, <1>4
  <2>2. ~IsStrictPrefix(k, Longest(M))
    BY <1>3, <2>1, Shorter
  <2> QED BY <1>1, <1>3, <2>1, <2>2, PrefixesNest
<1> QED BY <1>3, <1>4
----------------------------------------------------------------------------
(* The tag that get_tag finds, or none.                                    *)
T == kolla_image_tags
Found(d, k) == IF Tagged(T, d, k) THEN T[k][d] ELSE NoTag
Worth(d, c) == Found(d, TagKey(T, d, c))

(* The variable that c's tag variable defaults to.                         *)
Default(c) == IF c \in DOMAIN T THEN get_parent_tag_name(T, AnyDistro, c) ELSE hierarchy[c]

TagStep(d, f) ==
  [c \in TagVar |->
     IF c \in DOMAIN kolla_image_tags
     THEN IF Tagged(kolla_image_tags, d, c) THEN kolla_image_tags[c][d]
          ELSE IF c = OpenStack THEN NoTag
          ELSE f[get_parent_tag_name(kolla_image_tags, AnyDistro, c)]
     ELSE IF c = OpenStack THEN NoTag ELSE f[hierarchy[c]]]

HierarchyExpected ==
  /\ hierarchy \in [TagVar \ {OpenStack} -> TagVar]
  /\ \A v \in TagVar \ {OpenStack} : hierarchy[v] = ExpectedParent(v)

LEMMA AnsibleTagChosen ==
  ASSUME NEW d PROVE AnsibleTag(d) = CHOOSE f : f = TagStep(d, f)
BY DEF AnsibleTag, TagStep

(* Where the search for c's parent ends, and what its matches are.         *)
LEMMA Matches ==
  ASSUME NEW U, DOMAIN U \subseteq TagVar, NEW c \in TagVar, NEW d
  PROVE  /\ PrefixVar(c) \in TagVar \cap Name
         /\ PrefixMatches(U, d, c) \subseteq TagVar \cap Name
         /\ \A k \in PrefixMatches(U, d, c) :
              /\ k # OpenStack /\ k \notin DOMAIN PrefixException
              /\ IsStrictPrefix(k, PrefixVar(c))
         /\ PrefixMatches(U, d, c) # {} =>
              /\ Longest(PrefixMatches(U, d, c)) \in PrefixMatches(U, d, c)
              /\ \A l \in PrefixMatches(U, d, c) : Len(l) <= Len(Longest(PrefixMatches(U, d, c)))
              /\ \A k \in PrefixMatches(U, d, c) :
                   (\A l \in PrefixMatches(U, d, c) : Len(l) <= Len(k))
                     => k = Longest(PrefixMatches(U, d, c))
<1> DEFINE M == PrefixMatches(U, d, c)
<1>1. PrefixVar(c) \in TagVar \cap Name
  BY TagsAssumption DEF PrefixVar, Name
<1>2. M \subseteq TagVar \cap Name
  BY TagsAssumption DEF PrefixMatches, Name
<1>3. ASSUME NEW k \in M
      PROVE  k # OpenStack /\ k \notin DOMAIN PrefixException /\ IsStrictPrefix(k, PrefixVar(c))
  <2>1. k # OpenStack /\ IsStrictPrefix(k, PrefixVar(c))
    BY <1>3 DEF PrefixMatches
  <2> QED BY <1>1, <2>1, TagsAssumption
<1>4. ASSUME M # {}
      PROVE  /\ Longest(M) \in M /\ \A l \in M : Len(l) <= Len(Longest(M))
             /\ \A k \in M : (\A l \in M : Len(l) <= Len(k)) => k = Longest(M)
  <2> HIDE DEF M
  <2>1. M \in SUBSET Name /\ PrefixVar(c) \in Name
    BY <1>1, <1>2
  <2> QED BY <1>3, <1>4, <2>1, LongestPrefix
<1> QED BY <1>1, <1>2, <1>3, <1>4

(* Without a tag of its own a name is worth as much as its parent, whether *)
(* the parents are those of all names or those of a list of tags.          *)
LEMMA ParentWorth ==
  ASSUME KeysKnown, NEW U, DOMAIN T \subseteq DOMAIN U, DOMAIN U \subseteq TagVar,
         NEW c \in TagVar \ {OpenStack}, NEW d \in Distro, ~Tagged(T, d, c)
  PROVE  /\ get_parent_tag_name(U, AnyDistro, c) \in TagVar \ DOMAIN PrefixException
         /\ Worth(d, get_parent_tag_name(U, AnyDistro, c)) = Worth(d, c)
<1> DEFINE k == get_parent_tag_name(U, AnyDistro, c)
           p == PrefixVar(c)
           A == PrefixMatches(U, AnyDistro, c)
           B == PrefixMatches(T, d, c)
<1>a. DOMAIN T \subseteq TagVar /\ d # AnyDistro
  BY TagsAssumption DEF KeysKnown, T
<1>b. OpenStack \in TagVar \ DOMAIN PrefixException
  BY TagsAssumption
<1>c. A = {x \in DOMAIN U \ {OpenStack} : IsStrictPrefix(x, p)}
  BY DEF PrefixMatches, Serves
<1>d. \A e \in TagVar :
         PrefixMatches(T, d, e)
           = {x \in DOMAIN T \ {OpenStack} : IsStrictPrefix(x, PrefixVar(e)) /\ Tagged(T, d, x)}
  BY <1>a DEF PrefixMatches, Serves, Tagged
<1>e. B \subseteq A
  BY <1>c, <1>d
<1>f. Worth(d, c) = Found(d, get_parent_tag_name(T, d, c))
  BY DEF Worth, TagKey
<1>g. ASSUME NEW e \in TagVar, Tagged(T, d, e) PROVE Worth(d, e) = T[e][d]
  BY <1>g DEF Worth, TagKey, Found
<1>h. ASSUME NEW e \in TagVar \ DOMAIN PrefixException, ~Tagged(T, d, e)
      PROVE  Worth(d, e) = Found(d, IF PrefixMatches(T, d, e) = {} THEN OpenStack
                                    ELSE Longest(PrefixMatches(T, d, e)))
  BY <1>h DEF Worth, TagKey, get_parent_tag_name
<1>i. PrefixMatches(T, d, OpenStack) = {}
  <2>1. PrefixVar(OpenStack) = OpenStack
    BY <1>b DEF PrefixVar
  <2> QED BY <1>a, <1>b, <1>d, <2>1, TagsAssumption
<1>j. Worth(d, OpenStack) = Found(d, OpenStack)
  BY <1>b, <1>g, <1>h, <1>i DEF Found
<1>k. \A e \in TagVar \ DOMAIN PrefixException : PrefixVar(e) = e
  BY DEF PrefixVar
<1>1. CASE c \in DOMAIN PrefixException /\ p \in DOMAIN U
  <2>1. k = p /\ p \in TagVar \ DOMAIN PrefixException
    <3>1. k = p
      BY <1>1 DEF get_parent_tag_name, Serves
    <3>2. p = PrefixException[c]
      BY <1>1 DEF PrefixVar
    <3> QED BY <1>1, <3>1, <3>2, TagsAssumption
  <2>2. CASE Tagged(T, d, p)
    <3>1. get_parent_tag_name(T, d, c) = p
      BY <1>1, <2>2 DEF get_parent_tag_name, Serves, Tagged
    <3> QED BY <1>f, <1>g, <2>1, <2>2, <3>1 DEF Found
  <2>3. CASE ~Tagged(T, d, p)
    <3>1. PrefixMatches(T, d, p) = B
      BY <1>d, <1>k, <2>1
    <3>2. get_parent_tag_name(T, d, c) = IF B = {} THEN OpenStack ELSE Longest(B)
      BY <1>a, <2>3 DEF get_parent_tag_name, Serves, Tagged
    <3> QED BY <1>f, <1>h, <2>1, <2>3, <3>1, <3>2
  <2> QED BY <2>1, <2>2, <2>3
<1>2. CASE ~(c \in DOMAIN PrefixException /\ p \in DOMAIN U)
  <2>a. k = IF A = {} THEN OpenStack ELSE Longest(A)
    BY <1>2 DEF get_parent_tag_name
  <2>b. Worth(d, c) = Found(d, IF B = {} THEN OpenStack ELSE Longest(B))
    <3>1. get_parent_tag_name(T, d, c) = IF B = {} THEN OpenStack ELSE Longest(B)
      BY <1>2 DEF get_parent_tag_name
    <3> QED BY <1>f, <3>1
  <2>1. CASE A = {}
    BY <1>b, <1>e, <1>j, <2>1, <2>a, <2>b
  <2>2. CASE A # {}
    <3>1. /\ k \in A /\ k \in TagVar \cap Name /\ k # OpenStack /\ k \notin DOMAIN PrefixException
          /\ p \in Name /\ IsStrictPrefix(k, p) /\ \A l \in A : Len(l) <= Len(k)
      BY <2>2, <2>a, Matches
    <3>2. CASE Tagged(T, d, k)
      <4>1. k \in B
        BY <1>d, <3>1, <3>2 DEF Tagged
      <4>2. k = Longest(B)
        BY <1>a, <1>e, <3>1, <4>1, Matches
      <4> QED BY <1>g, <2>b, <3>1, <3>2, <4>1, <4>2 DEF Found
    <3>3. CASE ~Tagged(T, d, k)
      <4>1. PrefixMatches(T, d, k) = {x \in DOMAIN T \ {OpenStack} : IsStrictPrefix(x, k) /\ Tagged(T, d, x)}
        BY <1>d, <1>k, <3>1
      <4>2. B = {x \in DOMAIN T \ {OpenStack} : IsStrictPrefix(x, p) /\ Tagged(T, d, x)}
        BY <1>d
      <4>3. DOMAIN T \subseteq Name
        BY <1>a, TagsAssumption DEF Name
      <4>4. ASSUME NEW x \in B PROVE x \in PrefixMatches(T, d, k)
        <5>1. x \in Name /\ Len(x) <= Len(k) /\ x # k /\ IsStrictPrefix(x, p)
          BY <1>e, <3>1, <3>3, <4>2, <4>3
        <5>2. IsStrictPrefix(x, k)
          BY <3>1, <5>1, PrefixesNest
        <5> QED BY <4>1, <4>2, <5>2
      <4>5. ASSUME NEW x \in PrefixMatches(T, d, k) PROVE x \in B
        <5>1. x \in Name /\ IsStrictPrefix(x, k)
          BY <4>1, <4>3
        <5>2. IsStrictPrefix(x, p)
          BY <3>1, <5>1, PrefixTransitive
        <5> QED BY <4>1, <4>2, <5>2
      <4>6. PrefixMatches(T, d, k) = B
        BY <4>4, <4>5
      <4> QED BY <1>h, <2>b, <3>1, <3>3, <4>6
    <3> QED BY <3>1, <3>2, <3>3
  <2> QED BY <2>1, <2>2
<1> QED BY <1>1, <1>2

(* What a variable without a tag defaults to is worth as much as it is,    *)
(* and is openstack or a shorter name, unless it is that of an exception.  *)
LEMMA DefaultWorth ==
  ASSUME KeysKnown, HierarchyExpected, NEW c \in TagVar \ {OpenStack}, NEW d \in Distro, ~Tagged(T, d, c)
  PROVE  Default(c) \in TagVar \ DOMAIN PrefixException /\ Worth(d, Default(c)) = Worth(d, c)
<1>1. DOMAIN T \subseteq TagVar /\ DOMAIN AllKeys = TagVar
  BY DEF KeysKnown, T, AllKeys
<1>2. CASE c \in DOMAIN T
  BY <1>1, <1>2, ParentWorth DEF Default
<1>3. CASE c \notin DOMAIN T
  <2>1. Default(c) = get_parent_tag_name(AllKeys, AnyDistro, c)
    BY <1>3 DEF Default, HierarchyExpected, ExpectedParent
  <2> QED BY <1>1, <2>1, ParentWorth
<1> QED BY <1>2, <1>3

LEMMA DefaultShorter ==
  ASSUME KeysKnown, HierarchyExpected, NEW c \in TagVar \ ({OpenStack} \cup DOMAIN PrefixException)
  PROVE  Default(c) = OpenStack \/ IsStrictPrefix(Default(c), c)
<1> SUFFICES ASSUME NEW U, DOMAIN U \subseteq TagVar
             PROVE  \/ get_parent_tag_name(U, AnyDistro, c) = OpenStack
                    \/ IsStrictPrefix(get_parent_tag_name(U, AnyDistro, c), c)
  <2>1. DOMAIN T \subseteq TagVar /\ DOMAIN AllKeys = TagVar
    BY DEF KeysKnown, T, AllKeys
  <2> QED BY <2>1 DEF Default, HierarchyExpected, ExpectedParent
<1> DEFINE A == PrefixMatches(U, AnyDistro, c)
<1>1. PrefixVar(c) = c
  BY DEF PrefixVar
<1>2. get_parent_tag_name(U, AnyDistro, c) = IF A = {} THEN OpenStack ELSE Longest(A)
  BY DEF get_parent_tag_name
<1>3. A # {} => Longest(A) \in A /\ \A k \in A : IsStrictPrefix(k, c)
  BY <1>1, Matches
<1> QED BY <1>2, <1>3

(* The defaults of the deployment have one solution: what get_tag finds.   *)
LEMMA WorthSolves ==
  ASSUME KeysKnown, HierarchyExpected, NEW d \in Distro
  PROVE  [c \in TagVar |-> Worth(d, c)] = TagStep(d, [c \in TagVar |-> Worth(d, c)])
<1> DEFINE w == [c \in TagVar |-> Worth(d, c)]
<1> SUFFICES ASSUME NEW c \in TagVar PROVE w[c] = TagStep(d, w)[c]
  BY DEF TagStep
<1>1. CASE Tagged(T, d, c)
  BY <1>1 DEF TagStep, Worth, TagKey, Found, Tagged, T
<1>2. CASE ~Tagged(T, d, c) /\ c = OpenStack
  <2>1. Worth(d, c) = NoTag
    <3>1. OpenStack \notin DOMAIN PrefixException /\ PrefixVar(OpenStack) = OpenStack
      BY TagsAssumption DEF PrefixVar
    <3>2. PrefixMatches(T, d, OpenStack) = {}
      BY <3>1, TagsAssumption DEF PrefixMatches, KeysKnown, T
    <3> QED BY <1>2, <3>1, <3>2 DEF Worth, TagKey, Found, get_parent_tag_name
  <2> QED BY <1>2, <2>1 DEF TagStep, Tagged, T
<1>3. CASE ~Tagged(T, d, c) /\ c # OpenStack
  <2>1. Default(c) \in TagVar /\ Worth(d, Default(c)) = Worth(d, c)
    BY <1>3, DefaultWorth
  <2>2. TagStep(d, w)[c] = w[Default(c)]
    BY <1>3 DEF TagStep, Default, T
  <2> QED BY <2>1, <2>2
<1> QED BY <1>1, <1>2, <1>3

LEMMA OneSolution ==
  ASSUME KeysKnown, HierarchyExpected, NEW d \in Distro, NEW f, f = TagStep(d, f)
  PROVE  \A c \in TagVar : f[c] = Worth(d, c)
<1> DEFINE w == [c \in TagVar |-> Worth(d, c)]
<1>1. w = TagStep(d, w)
  BY WorthSolves
<1>2. ASSUME NEW c \in TagVar, c = OpenStack \/ Tagged(T, d, c) \/ f[Default(c)] = w[Default(c)]
      PROVE  f[c] = w[c]
  <2> DEFINE g(x) == IF Tagged(T, d, c) THEN T[c][d]
                     ELSE IF c = OpenStack THEN NoTag ELSE x[Default(c)]
  <2>1. \A x : TagStep(d, x)[c] = g(x)
    BY DEF TagStep, Default, Tagged, T
  <2>2. f[c] = g(f) /\ w[c] = g(w)
    BY <1>1, <2>1
  <2>3. g(f) = g(w)
    BY <1>2
  <2> QED BY <2>2, <2>3
<1>3. ASSUME NEW c \in TagVar \ DOMAIN PrefixException PROVE f[c] = w[c]
  <2> DEFINE Bad == {x \in TagVar \ DOMAIN PrefixException : f[x] # w[x]}
             L == {Len(x) : x \in Bad}
  <2>1. \A x \in TagVar : x \in Name /\ Len(x) \in Nat
    BY TagsAssumption DEF Name
  <2>2. ASSUME Bad # {} PROVE FALSE
    <3>1. L \subseteq Nat /\ L # {}
      BY <2>1, <2>2
    <3> HIDE DEF L
    <3>2. PICK n \in L : \A m \in L : n <= m
      BY <3>1, Least
    <3>3. PICK x \in Bad : n = Len(x)
      BY <3>2 DEF L
    <3>4. x # OpenStack /\ ~Tagged(T, d, x) /\ f[Default(x)] # w[Default(x)]
      BY <1>2, <3>3
    <3>5. Default(x) \in Bad
      BY <3>3, <3>4, DefaultWorth
    <3>6. Len(Default(x)) < Len(x)
      <4>1. Default(x) # OpenStack
        BY <1>2, <3>5
      <4>2. IsStrictPrefix(Default(x), x)
        BY <3>3, <3>4, <4>1, DefaultShorter
      <4> QED BY <2>1, <3>5, <4>2, Shorter
    <3>7. n <= Len(Default(x))
      BY <3>2, <3>5 DEF L
    <3> QED BY <2>1, <3>3, <3>5, <3>6, <3>7
  <2> QED BY <2>2
<1>4. ASSUME NEW c \in TagVar PROVE f[c] = w[c]
  <2>1. c # OpenStack /\ ~Tagged(T, d, c) => f[Default(c)] = w[Default(c)]
    BY <1>3, DefaultWorth
  <2> QED BY <1>2, <2>1
<1> QED BY <1>4

(* Hence the deployment evaluates a tag variable to what get_tag finds.    *)
LEMMA DeployedTag ==
  ASSUME KeysKnown, HierarchyExpected, NEW d \in Distro, NEW c \in TagVar
  PROVE  AnsibleTag(d)[c] = Worth(d, c)
<1>1. \E f : f = TagStep(d, f)
  BY WorthSolves
<1>2. AnsibleTag(d) = TagStep(d, AnsibleTag(d))
  BY <1>1, AnsibleTagChosen
<1> QED BY <1>2, OneSolution
----------------------------------------------------------------------------
(* What the checks passed so far have established, and what the queries    *)
(* have.                                                                   *)
ImageBuilt(i) == \E d \in Distro : i \in Built(d)

ImageMapChecked ==
  pc \notin {"validate", "invalid", "map", "bad_map"} =>
    \A c \in Container : c \in Containers[image_map[c]]

HierarchyChecked == pc \in {"get_tags", "key_error"} \/ Listed => HierarchyExpected

TagsListed ==
  Listed =>
    /\ image_tags = get_tags(kolla_image_tags)
    /\ \A d \in Distro : \A i \in Built(d) : \A c \in Containers[i] :
         Tagged(kolla_image_tags, d, TagKey(kolla_image_tags, d, c))

NothingQueried == ~Listed => DOMAIN registry = {} /\ todo = {} /\ missing = {}

Queried ==
  /\ Listed => \A i \in Image : ImageBuilt(i) =>
       \/ i \in todo
       \/ i \in DOMAIN registry /\ (i \in missing) = ~(image_tags[i] \subseteq registry[i])
  /\ pc \in {"ok", "missing"} => todo = {}
  /\ pc = "ok" => missing = {}
  /\ pc # "query_failed" => attempts < MaxAttempts

IInv ==
  /\ TypeOK
  /\ ImageMapChecked
  /\ HierarchyChecked
  /\ TagsListed
  /\ NothingQueried
  /\ Queried

LEMMA Initially == Init => IInv
<1> SUFFICES ASSUME Init PROVE IInv
  OBVIOUS
<1>1. DOMAIN kolla_image_tags \subseteq KeyName \cup {OpenStack}
  <2>1. PICK K \in SUBSET KeyName, o \in BOOLEAN :
           kolla_image_tags \in TagsFor(IF o THEN K \cup {OpenStack} ELSE K)
    BY DEF Init
  <2> DEFINE K2 == IF o THEN K \cup {OpenStack} ELSE K
  <2>2. PICK D \in [K2 -> SUBSET Distro] :
           kolla_image_tags = [k \in DOMAIN D |-> [d \in D[k] |-> <<k, d>>]]
    BY <2>1 DEF TagsFor
  <2>3. DOMAIN kolla_image_tags = K2
    BY <2>2
  <2> QED BY <2>3
<1>2. hierarchy \in [TagVar \ {OpenStack} -> TagVar]
  <2>1. OpenStack \in TagVar /\ KollaParent \in [TagVar \ {OpenStack} -> TagVar]
    BY TagsAssumption
  <2>2. CASE hierarchy = KollaParent
    BY <2>1, <2>2
  <2>3. CASE hierarchy \in OneOff(KollaParent, {OpenStack})
    BY <2>1, <2>3 DEF OneOff
  <2> QED BY <2>2, <2>3 DEF Init
<1>3. image_map \in [Container -> Image]
  <2>1. ImageOf \in [Container -> Image]
    BY DEF ImageOf, Container
  <2>2. CASE image_map = ImageOf
    BY <2>1, <2>2
  <2>3. CASE image_map \in OneOff(ImageOf, Image)
    BY <2>1, <2>3 DEF OneOff
  <2> QED BY <2>2, <2>3 DEF Init
<1>4. pc = "validate" /\ todo = {} /\ attempts = 0 /\ missing = {} /\ DOMAIN registry = {}
  BY DEF Init
<1>5. TypeOK
  BY <1>1, <1>2, <1>3, <1>4 DEF TypeOK, MaxAttempts
<1> QED
  BY <1>4, <1>5 DEF IInv, ImageMapChecked, HierarchyChecked, TagsListed, NothingQueried, Queried,
     Listed, MaxAttempts

(* A step that only moves pc on keeps what depends on the tables.          *)
LEMMA Inductive == IInv /\ [Next]_vars => IInv'
<1> SUFFICES ASSUME IInv, [Next]_vars PROVE IInv'
  OBVIOUS
<1> USE DEF IInv
<1>1. CASE validate
  <2>1. /\ pc = "validate" /\ pc' \in {"map", "invalid"}
        /\ UNCHANGED <<config, registry, image_tags, todo, attempts, output, missing>>
    BY <1>1 DEF validate, Judge
  <2> QED
    BY <2>1 DEF TypeOK, ImageMapChecked, HierarchyChecked, TagsListed, NothingQueried, Queried,
       Listed, config, Outcome
<1>2. CASE check_image_map
  <2>1. /\ pc = "map" /\ pc' \in {"hierarchy", "bad_map"}
        /\ UNCHANGED <<config, registry, image_tags, todo, attempts, output, missing>>
        /\ pc' = "hierarchy" => \A c \in Container : c \in Containers[image_map[c]]
    BY <1>2 DEF check_image_map, Judge, TypeOK
  <2> QED
    BY <2>1 DEF TypeOK, ImageMapChecked, HierarchyChecked, TagsListed, NothingQueried, Queried,
       Listed, config, Outcome
<1>3. CASE check_hierarchy
  <2>1. /\ pc = "hierarchy" /\ pc' \in {"get_tags", "bad_hierarchy"}
        /\ UNCHANGED <<config, registry, image_tags, todo, attempts, output, missing>>
        /\ pc' = "get_tags" => HierarchyExpected
    BY <1>3 DEF check_hierarchy, Judge, TypeOK, HierarchyExpected
  <2>2. pc' = "get_tags" => HierarchyExpected'
    BY <2>1 DEF HierarchyExpected, config
  <2> QED
    BY <2>1, <2>2 DEF TypeOK, ImageMapChecked, HierarchyChecked, TagsListed, NothingQueried, Queried,
       Listed, config, Outcome
<1>4. CASE GetTags
  <2>1. /\ pc = "get_tags" /\ pc' \in {"query", "key_error"}
        /\ UNCHANGED <<config, registry, attempts, output, missing>>
    BY <1>4 DEF GetTags
  <2>2. HierarchyExpected'
    BY <2>1 DEF HierarchyChecked, HierarchyExpected, config
  <2>3. DOMAIN registry = {} /\ todo = {} /\ missing = {} /\ attempts < MaxAttempts
    BY <2>1 DEF NothingQueried, Queried, Listed
  <2>4. pc' = "key_error" => todo' = {}
    BY <1>4, <2>3 DEF GetTags
  <2>5. TagsListed'
    BY <1>4, <2>1 DEF GetTags, TagsListed, Listed, config
  <2>6. todo' \subseteq Image /\ (pc' = "query" => todo' = {i \in Image : ImageBuilt(i)})
    BY <1>4, <2>3 DEF GetTags, ImageBuilt
  <2>7. TypeOK' /\ ImageMapChecked'
    BY <2>1, <2>3, <2>6 DEF TypeOK, ImageMapChecked, config, Outcome
  <2>8. Queried' /\ NothingQueried'
    BY <2>1, <2>3, <2>4, <2>6 DEF Queried, NothingQueried, Listed, ImageBuilt
  <2> QED BY <2>1, <2>2, <2>5, <2>7, <2>8 DEF HierarchyChecked
<1>5. CASE QuerySucceeds
  <2>1. /\ pc = "query" /\ Current \in todo
        /\ registry' = [i \in DOMAIN registry \cup {Current} |->
                          IF i = Current THEN output' ELSE registry[i]]
        /\ Compare /\ UNCHANGED <<config, pc, image_tags>>
    BY <1>5 DEF QuerySucceeds, Current
  <2>2. Current \in Image /\ Current \notin DOMAIN registry /\ Current \notin missing
    BY <2>1 DEF TypeOK
  <2> HIDE DEF Current
  <2>3. /\ DOMAIN registry' = DOMAIN registry \cup {Current}
        /\ \A i \in DOMAIN registry : registry'[i] = registry[i]
        /\ registry'[Current] = output'
    BY <2>1, <2>2
  <2>4. /\ todo' = todo \ {Current} /\ attempts' = 0
        /\ missing' = IF image_tags[Current] \subseteq output' THEN missing ELSE missing \cup {Current}
    BY <2>1 DEF Compare
  <2>5. TypeOK'
    BY <2>1, <2>2, <2>3, <2>4 DEF TypeOK, config, MaxAttempts
  <2>6. HierarchyChecked' /\ ImageMapChecked' /\ TagsListed' /\ NothingQueried'
    BY <2>1 DEF HierarchyChecked, HierarchyExpected, ImageMapChecked, TagsListed, NothingQueried,
       Listed, config
  <2>7. ASSUME NEW i \in Image, ImageBuilt(i)
        PROVE  \/ i \in todo'
               \/ i \in DOMAIN registry' /\ (i \in missing') = ~(image_tags[i] \subseteq registry'[i])
    <3>1. CASE i = Current
      BY <2>2, <2>3, <2>4, <3>1
    <3>2. CASE i # Current /\ i \notin todo
      <4>1. i \in DOMAIN registry /\ (i \in missing) = ~(image_tags[i] \subseteq registry[i])
        BY <2>1, <2>7, <3>2 DEF Queried, Listed
      <4>2. (i \in missing') = (i \in missing)
        BY <2>4, <3>2
      <4> QED BY <2>3, <4>1, <4>2
    <3>3. CASE i # Current /\ i \in todo
      BY <2>4, <3>3
    <3> QED BY <3>1, <3>2, <3>3
  <2>8. Queried'
    <3>1. pc' = "query" /\ image_tags' = image_tags /\ attempts' < MaxAttempts
      BY <2>1, <2>4 DEF MaxAttempts
    <3>2. \A i \in Image : ImageBuilt(i) =>
             \/ i \in todo'
             \/ i \in DOMAIN registry' /\ (i \in missing') = ~(image_tags'[i] \subseteq registry'[i])
      BY <2>7, <3>1
    <3> QED BY <3>1, <3>2 DEF Queried, ImageBuilt
  <2> QED BY <2>5, <2>6, <2>8
<1>6. CASE QueryFails
  <2>1. /\ pc = "query" /\ attempts' = attempts + 1 /\ pc' \in {"query", "query_failed"}
        /\ pc' # "query_failed" => attempts' # MaxAttempts
        /\ UNCHANGED <<config, registry, image_tags, todo, output, missing>>
    BY <1>6 DEF QueryFails
  <2>2. attempts \in 0..2 /\ attempts' \in 0..3 /\ (pc' # "query_failed" => attempts' < MaxAttempts)
    BY <2>1 DEF TypeOK, Queried, MaxAttempts
  <2> QED
    BY <2>1, <2>2 DEF TypeOK, ImageMapChecked, HierarchyChecked, HierarchyExpected, TagsListed,
       NothingQueried, Queried, Listed, ImageBuilt, config, Outcome, MaxAttempts
<1>7. CASE Report
  <2>1. /\ pc = "query" /\ todo = {} /\ pc' = IF missing = {} THEN "ok" ELSE "missing"
        /\ UNCHANGED <<config, registry, image_tags, todo, attempts, output, missing>>
    BY <1>7 DEF Report, Judge
  <2> QED
    BY <2>1 DEF TypeOK, ImageMapChecked, HierarchyChecked, HierarchyExpected, TagsListed,
       NothingQueried, Queried, Listed, ImageBuilt, config, Outcome
<1>8. CASE UNCHANGED vars
  BY <1>8 DEF TypeOK, ImageMapChecked, HierarchyChecked, HierarchyExpected, TagsListed,
     NothingQueried, Queried, Listed, ImageBuilt, vars, config
<1> QED BY <1>1, <1>2, <1>3, <1>4, <1>5, <1>6, <1>7, <1>8 DEF Next, Ended

LEMMA Invariant == Spec => []IInv
BY Initially, Inductive, PTL DEF Spec
----------------------------------------------------------------------------
(* The checks only look at images to judge and stay within their bounds,   *)
(* whatever the tags and however the registry answers.                     *)
THEOREM TypeCorrect == Spec => []TypeOK
<1>1. IInv => TypeOK
  BY DEF IInv
<1> QED BY <1>1, Invariant, PTL

(* The search of get_tag and the chain of defaults of the deployment give  *)
(* every container the same tag, for all lists of tags and all hierarchies *)
(* that check_hierarchy lets pass.                                         *)
THEOREM DeployedAsListed == Spec => []ListedIsDeployed
<1>1. IInv => ListedIsDeployed
  <2> SUFFICES ASSUME IInv, Listed, KeysKnown, NEW d \in Distro, NEW i \in Built(d),
                      NEW c \in Containers[i]
               PROVE  get_tag(kolla_image_tags, d, c) = AnsibleTag(d)[c]
    BY DEF ListedIsDeployed
  <2>1. HierarchyExpected /\ Tagged(T, d, TagKey(T, d, c))
    BY DEF IInv, HierarchyChecked, TagsListed, T
  <2>2. c \in TagVar
    BY TagsAssumption DEF Container, Built
  <2>3. Worth(d, c) = get_tag(kolla_image_tags, d, c)
    BY <2>1 DEF Worth, Found, get_tag, T
  <2> QED BY <2>1, <2>2, <2>3, DeployedTag
<1> QED BY <1>1, Invariant, PTL

(* Every image is judged by the answer of its own query.                   *)
THEOREM Judged == Spec => []JudgedByOwnAnswer
<1>1. IInv => JudgedByOwnAnswer
  BY DEF IInv, Queried, Listed, ImageBuilt, JudgedByOwnAnswer
<1> QED BY <1>1, Invariant, PTL

(* When all checks pass, every container of every distribution finds the   *)
(* tag it is deployed with in the registry.                                *)
THEOREM Deployable == Spec => []CheckedIsDeployable
<1>1. IInv => CheckedIsDeployable
  <2> SUFFICES ASSUME IInv, pc = "ok", KeysKnown, NEW d \in Distro, NEW c \in DOMAIN image_map,
                      image_map[c] \in Built(d)
               PROVE  AnsibleTag(d)[c] \in registry[image_map[c]]
    BY DEF CheckedIsDeployable
  <2> DEFINE i == image_map[c]
  <2>1. c \in Container /\ i \in Image /\ c \in Containers[i] /\ Listed
    BY DEF IInv, TypeOK, ImageMapChecked, Listed
  <2>2. HierarchyExpected /\ Tagged(T, d, TagKey(T, d, c)) /\ image_tags = get_tags(kolla_image_tags)
    BY <2>1 DEF IInv, HierarchyChecked, TagsListed, T
  <2>3. get_tag(kolla_image_tags, d, c) \in image_tags[i]
    <3>1. <<d, c>> \in {b \in Distro \X Containers[i] : i \in Built(b[1])}
      BY <2>1
    <3>2. get_tag(kolla_image_tags, <<d, c>>[1], <<d, c>>[2]) \in image_tags[i]
      BY <2>1, <2>2, <3>1 DEF get_tags
    <3> QED BY <3>2
  <2>4. image_tags[i] \subseteq registry[i]
    BY <2>1 DEF IInv, Queried, ImageBuilt
  <2>5. get_tag(kolla_image_tags, d, c) = AnsibleTag(d)[c]
    <3>1. c \in TagVar
      BY <2>1, TagsAssumption
    <3>2. Worth(d, c) = get_tag(kolla_image_tags, d, c)
      BY <2>2 DEF Worth, Found, get_tag, T
    <3> QED BY <2>2, <3>1, <3>2, DeployedTag
  <2> QED BY <2>3, <2>4, <2>5
<1> QED BY <1>1, Invariant, PTL
============================================================================
