----------------------------- MODULE KollaTags -----------------------------
(***************************************************************************)
(* tools/kolla-images.py: which image tag every container is deployed      *)
(* with, and the checks made of it before a deployment.                    *)
(*                                                                         *)
(* The tag of a container is found twice, by two programs.  The script     *)
(* searches kolla_image_tags for the longest key that is a prefix of the   *)
(* container's name (get_tag).  The deployment evaluates Ansible variables *)
(* <container>_tag, each of which defaults to its parent's: the parents    *)
(* that list_tag_vars writes for the keys of kolla_image_tags, and Kolla   *)
(* Ansible's own for all others.  The checks look at the tags the script   *)
(* finds; what they are worth depends on the two being equal.              *)
(*                                                                         *)
(* A name is a sequence of fragments, so that startswith is IsPrefix; the  *)
(* tag of key k for distribution d is the pair <<k, d>>.                   *)
(***************************************************************************)
EXTENDS Naturals, FiniteSets, Sequences, SequencesExt, Functions

CONSTANTS
  TagVar,           \* names with a <name>_tag variable in Kolla Ansible
  KeyName,          \* keys that may be added to kolla_image_tags
  Distro,           \* SUPPORTED_BASE_DISTROS
  Image,            \* stackhpc_pulp_images_kolla
  Containers,       \* get_containers, as a function of the image
  PrefixException,  \* CONTAINER_TO_PREFIX_VAR_EXCEPTIONS
  Unbuildable,      \* stackhpc_kolla_unbuildable_images
  KollaParent       \* Kolla Ansible: the default of each tag variable

OpenStack == <<"openstack">>
AnyDistro == "any"       \* base_distro is None
MaxAttempts == 3

Container == UNION {Containers[i] : i \in Image}

(* So it is in the lists of the repository and in Kolla Ansible: no name   *)
(* properly extends one of the exceptions, whose prefixes are none, and    *)
(* openstack is no container and extends no name.  The two searches differ *)
(* without it.                                                             *)
ASSUME TagsAssumption ==
  /\ OpenStack \in TagVar /\ TagVar \subseteq Seq(STRING)
  /\ Container \subseteq TagVar \ {OpenStack}
  /\ \A v \in TagVar : ~IsStrictPrefix(v, OpenStack)
  /\ DOMAIN PrefixException \subseteq TagVar \ {OpenStack}
  /\ \A e \in DOMAIN PrefixException :
       /\ PrefixException[e] \in TagVar \ DOMAIN PrefixException
       /\ \A v \in TagVar : ~IsStrictPrefix(e, v)
  /\ KollaParent \in [TagVar \ {OpenStack} -> TagVar]
  /\ \A i, j \in Image : i # j => Containers[i] \cap Containers[j] = {}
  /\ AnyDistro \notin Distro

VARIABLES
  kolla_image_tags, \* key -> distribution -> tag
  hierarchy,        \* Kolla Ansible: the parent of each tag variable
  image_map,        \* Kolla Ansible: the image of each container
  registry,         \* the tags each image has in the registry, once queried
  pc,               \* where the checks are, or how they ended
  image_tags,       \* get_tags: the tags to look for
  todo,             \* images not yet judged
  attempts,         \* failed queries of the current image
  output,           \* the answer of the last successful query
  missing           \* images some tag of which is missing

vars == <<kolla_image_tags, hierarchy, image_map, registry, pc, image_tags,
          todo, attempts, output, missing>>
config == <<kolla_image_tags, hierarchy, image_map>>

Outcome == {"ok", "bad_map", "bad_hierarchy", "invalid", "key_error",
            "query_failed", "missing"}
----------------------------------------------------------------------------
(* Does key k have a tag for distribution d? *)
Serves(tags, k, d) == d = AnyDistro \/ d \in DOMAIN tags[k]

PrefixVar(c) == IF c \in DOMAIN PrefixException THEN PrefixException[c] ELSE c

Longest(S) == CHOOSE k \in S : \A l \in S : Len(l) <= Len(k)

PrefixMatches(tags, d, c) ==
  {k \in DOMAIN tags \ {OpenStack} :
     IsStrictPrefix(k, PrefixVar(c)) /\ Serves(tags, k, d)}

(* Fault: an exception without a tag of its own falls back to the default. *)
ParentSkipsPrefix(tags, d, c) ==
  LET matches == PrefixMatches(tags, d, c) IN
  IF c \in DOMAIN PrefixException
  THEN IF PrefixVar(c) \in DOMAIN tags /\ Serves(tags, PrefixVar(c), d)
       THEN PrefixVar(c) ELSE OpenStack
  ELSE IF matches = {} THEN OpenStack ELSE Longest(matches)

get_parent_tag_name(tags, d, c) ==
  LET matches == PrefixMatches(tags, d, c) IN
  IF /\ c \in DOMAIN PrefixException
     /\ PrefixVar(c) \in DOMAIN tags
     /\ Serves(tags, PrefixVar(c), d)
  THEN PrefixVar(c)
  ELSE IF matches = {} THEN OpenStack ELSE Longest(matches)

Tagged(tags, d, c) == c \in DOMAIN tags /\ d \in DOMAIN tags[c]

(* The key whose tag get_tag returns; KeyError if it has none. *)
TagKey(tags, d, c) ==
  IF Tagged(tags, d, c) THEN c ELSE get_parent_tag_name(tags, d, c)

get_tag(tags, d, c) == tags[TagKey(tags, d, c)][d]

Built(d) == Image \ Unbuildable[d]

get_tags(tags) ==
  [i \in Image |-> {get_tag(tags, dc[1], dc[2]) : dc \in
     {b \in Distro \X Containers[i] : i \in Built(b[1])}}]

(* What the deployment evaluates <c>_tag to on distribution d. *)
NoTag == <<>>
AnsibleTag(d) ==
  LET value[c \in TagVar] ==
        IF c \in DOMAIN kolla_image_tags
        THEN IF Tagged(kolla_image_tags, d, c) THEN kolla_image_tags[c][d]
             ELSE IF c = OpenStack THEN NoTag
             ELSE value[get_parent_tag_name(kolla_image_tags, AnyDistro, c)]
        ELSE IF c = OpenStack THEN NoTag ELSE value[hierarchy[c]]
  IN value

(* The parent check_hierarchy expects: the script's, were every tag        *)
(* variable of Kolla Ansible a key.                                        *)
AllKeys == [v \in TagVar |-> <<>>]
ExpectedParent(v) == get_parent_tag_name(AllKeys, AnyDistro, v)

ImageOf == [c \in Container |-> CHOOSE i \in Image : c \in Containers[i]]
----------------------------------------------------------------------------
(* One entry of a function may differ from what is expected. *)
OneOff(f, S) == {f} \cup {[f EXCEPT ![x] = y] : x \in DOMAIN f, y \in S}

TagsFor(K) ==
  {[k \in DOMAIN D |-> [d \in D[k] |-> <<k, d>>]] : D \in [K -> SUBSET Distro]}

Init ==
  /\ \E K \in SUBSET KeyName, o \in BOOLEAN :
       kolla_image_tags \in TagsFor(IF o THEN K \cup {OpenStack} ELSE K)
  /\ \/ /\ hierarchy \in OneOff(KollaParent, {OpenStack})
        /\ image_map = ImageOf
     \/ /\ hierarchy = KollaParent
        /\ image_map \in OneOff(ImageOf, Image)
  /\ registry = <<>>
  /\ pc = "validate"
  /\ image_tags = <<>>
  /\ todo = {}
  /\ attempts = 0
  /\ output = {}
  /\ missing = {}

Judge(ok, to, bad) == pc' = IF ok THEN to ELSE bad

(* main calls validate before any command.  Keys and tags are well formed  *)
(* here.                                                                   *)
validate ==
  /\ pc = "validate"
  /\ Judge(OpenStack \in DOMAIN kolla_image_tags, "map", "invalid")
  /\ UNCHANGED <<config, registry, image_tags, todo, attempts, output, missing>>

(* Fault: a container that uses another image than expected is let through *)
(* if some container is right.                                             *)
CheckSomeImageMap ==
  /\ pc = "map"
  /\ Judge(\E c \in DOMAIN image_map : c \in Containers[image_map[c]],
           "hierarchy", "bad_map")
  /\ UNCHANGED <<config, registry, image_tags, todo, attempts, output, missing>>

check_image_map ==
  /\ pc = "map"
  /\ Judge(\A c \in DOMAIN image_map : c \in Containers[image_map[c]],
           "hierarchy", "bad_map")
  /\ UNCHANGED <<config, registry, image_tags, todo, attempts, output, missing>>

check_hierarchy ==
  /\ pc = "hierarchy"
  /\ Judge(\A v \in DOMAIN hierarchy : hierarchy[v] = ExpectedParent(v),
           "get_tags", "bad_hierarchy")
  /\ UNCHANGED <<config, registry, image_tags, todo, attempts, output, missing>>

(* get_tags, for every distribution; the openstack key need not have one.  *)
GetTags ==
  /\ pc = "get_tags"
  /\ IF \A d \in Distro : \A i \in Built(d) : \A c \in Containers[i] :
          Tagged(kolla_image_tags, d, TagKey(kolla_image_tags, d, c))
       THEN /\ image_tags' = get_tags(kolla_image_tags)
            /\ todo' = {i \in Image : \E d \in Distro : i \in Built(d)}
            /\ pc' = "query"
       ELSE pc' = "key_error" /\ UNCHANGED <<image_tags, todo>>
  /\ UNCHANGED <<config, registry, attempts, output, missing>>

(* The image whose turn it is. *)
Current == CHOOSE i \in todo : TRUE

Compare ==
  /\ missing' = IF image_tags[Current] \subseteq output' THEN missing
                ELSE missing \cup {Current}
  /\ todo' = todo \ {Current}
  /\ attempts' = 0

(* The registry lists the tags of the image: every tag looked for, or all  *)
(* but one of them.                                                        *)
QuerySucceeds ==
  /\ pc = "query"
  /\ todo # {}
  /\ \E gone \in SUBSET image_tags[Current] :
       /\ Cardinality(gone) <= 1
       /\ output' = image_tags[Current] \ gone
  /\ registry' = [i \in DOMAIN registry \cup {Current} |->
                    IF i = Current THEN output' ELSE registry[i]]
  /\ Compare
  /\ UNCHANGED <<config, pc, image_tags>>

(* Faults: the last answer is used when there is none; no end of retries.  *)
QueryFailsOldAnswer ==
  /\ pc = "query"
  /\ todo # {}
  /\ output' = output
  /\ IF attempts + 1 = MaxAttempts THEN Compare
     ELSE attempts' = attempts + 1 /\ UNCHANGED <<todo, missing>>
  /\ UNCHANGED <<config, registry, pc, image_tags>>

QueryFailsForever ==
  /\ pc = "query"
  /\ todo # {}
  /\ attempts' = attempts + 1
  /\ UNCHANGED <<config, registry, pc, image_tags, todo, output, missing>>

(* skopeo fails; the third failure in a row is raised. *)
QueryFails ==
  /\ pc = "query"
  /\ todo # {}
  /\ attempts' = attempts + 1
  /\ pc' = IF attempts' = MaxAttempts THEN "query_failed" ELSE "query"
  /\ UNCHANGED <<config, registry, image_tags, todo, output, missing>>

Report ==
  /\ pc = "query"
  /\ todo = {}
  /\ Judge(missing = {}, "ok", "missing")
  /\ UNCHANGED <<config, registry, image_tags, todo, attempts, output, missing>>

Ended == pc \in Outcome /\ UNCHANGED vars

Next == validate \/ check_image_map \/ check_hierarchy \/ GetTags
          \/ QuerySucceeds \/ QueryFails \/ Report \/ Ended

Spec == Init /\ [][Next]_vars
----------------------------------------------------------------------------
(* The queries stay within their bounds and only look at images to judge.  *)
TypeOK ==
  /\ pc \in Outcome \cup {"map", "hierarchy", "validate", "get_tags", "query"}
  /\ DOMAIN kolla_image_tags \subseteq KeyName \cup {OpenStack}
  /\ hierarchy \in [TagVar \ {OpenStack} -> TagVar]
  /\ image_map \in [Container -> Image]
  /\ DOMAIN registry \subseteq Image \ todo
  /\ todo \subseteq Image /\ missing \subseteq Image \ todo
  /\ attempts \in 0..MaxAttempts

KeysKnown == DOMAIN kolla_image_tags \subseteq TagVar
Listed == pc \in {"query", "query_failed", "ok", "missing"}

(* get_tag walks one list, the deployment a chain of defaults: once the    *)
(* hierarchy has been checked they agree for every container, as long as   *)
(* every key is the name of a tag variable of Kolla Ansible.               *)
ListedIsDeployed ==
  Listed /\ KeysKnown =>
    \A d \in Distro : \A i \in Built(d) : \A c \in Containers[i] :
      get_tag(kolla_image_tags, d, c) = AnsibleTag(d)[c]

(* When check_tags ends, every image has been compared with the answer of  *)
(* its own query, never with that of the image before it.                  *)
JudgedByOwnAnswer ==
  pc \in {"ok", "missing"} =>
    \A i \in Image : (\E d \in Distro : i \in Built(d)) =>
      /\ i \in DOMAIN registry
      /\ (i \in missing) = ~(image_tags[i] \subseteq registry[i])

(* When all checks pass, every container that the deployment runs from one *)
(* of the images finds its tag in the registry, on every distribution.     *)
CheckedIsDeployable ==
  pc = "ok" /\ KeysKnown =>
    \A d \in Distro, c \in DOMAIN image_map :
      image_map[c] \in Built(d) => AnsibleTag(d)[c] \in registry[image_map[c]]
============================================================================
