--------------------------- MODULE RegistryPrune ---------------------------
(***************************************************************************)
(* tools/registry-prune: the weekly job that removes old edge builds from  *)
(* the container registry, with the builds that publish to it at any time. *)
(* A build pushes its images one by one and then the index that refers to  *)
(* them, unless it is cancelled before; indexes are numbered in the order  *)
(* of their creation, which is also how the tool breaks ties.  An image is *)
(* known by its digest, so two builds may share one.  Whether an index can *)
(* be pulled depends on images it does not own.                            *)
(***************************************************************************)
EXTENDS Integers, FiniteSets, SequencesExt

CONSTANTS
  Images,      \* digests of images and attestations: numbers above MaxBuilds
  MaxBuilds,   \* bound on builds published
  Keep,        \* -keep of the weekly run: edge builds that stay
  Keeps,       \* -keep of the runs that are started by hand
  MaxFailures  \* bound on calls that fail and runs that are cut off

ASSUME PruneAssumption ==
  /\ MaxBuilds \in Nat
  /\ IsFiniteSet(Images) /\ \A i \in Images : i \in Nat /\ i > MaxBuilds
  /\ Keep \in Nat \ {0} /\ Keeps \subseteq Nat \ {0} /\ MaxFailures \in Nat

VARIABLES
  reg,       \* digests in the registry
  tags,      \* per index, its tags
  refs,      \* per index, the images it refers to
  builds,    \* the images that the builds under way have pushed
  run,       \* the job: what it has yet to list, has listed, has yet to delete
  failures,
  loose,     \* history: images that came with no index (yet)
  least,     \* history: the fewest builds that a run was to keep
  raced      \* history: a build was under way during a run

vars == <<reg, tags, refs, builds, run, failures, loose, least, raced>>

published == <<tags, refs, builds, loose>>

Indexes == 1 .. MaxBuilds
Kinds   == {"edge", "release"}
Idle    == [pc |-> "idle", keep |-> Keep, due |-> {}, listed |-> {},
            tags |-> [i \in Indexes |-> {}], plan |-> <<>>]

Init ==
  /\ reg = {} /\ tags = [i \in Indexes |-> {}] /\ refs = [i \in Indexes |-> {}]
  /\ builds = [b \in Kinds |-> {}] /\ loose = {}
  /\ run = Idle /\ failures = 0 /\ least = Keep /\ raced = FALSE

(* A set of numbers in order, the greatest first.                          *)
Descending(S) ==
  CHOOSE s \in [1 .. Cardinality(S) -> S] : \A i, j \in DOMAIN s : i < j => s[i] > s[j]

-----------------------------------------------------------------------------
(* What a list of versions says.                                           *)

(* Variant: one known tag is enough.                                       *)
isEdgeSome(t) == t \cap {"edge", "sha"} # {}

(* Only known tags, and at least one.                                      *)
isEdge(t) == t # {} /\ t \subseteq {"edge", "sha"}

Tagged(listed, t) == {i \in listed \cap Indexes : t[i] # {} /\ ~isEdge(t[i])}
Edges(listed, t)  == {i \in listed \cap Indexes : isEdge(t[i])}

(* The newest k edge builds, and the others.                               *)
Kept(listed, t, k) ==
  {i \in Edges(listed, t) : Cardinality({j \in Edges(listed, t) : j > i}) < k}
Doomed(listed, t, k) == Edges(listed, t) \ Kept(listed, t, k)

(* Variant: only the indexes that stay are protected.                      *)
ProtectedIndexes(listed, t, k) == Tagged(listed, t) \cup Kept(listed, t, k)

(* Everything reachable from an index that survives.                       *)
Protected(listed, t, k) ==
  LET stay == Tagged(listed, t) \cup Kept(listed, t, k)
  IN stay \cup UNION {refs[i] : i \in stay}

(* Variant: an index goes before its images.                               *)
planIndexFirst(listed, t, k) ==
  LET doomed == Descending(Doomed(listed, t, k))
      Fresh(n) == ((refs[doomed[n]] \cap listed) \ Protected(listed, t, k))
                  \ UNION {refs[doomed[j]] : j \in 1 .. n - 1}
  IN FlattenSeq([n \in DOMAIN doomed |-> <<doomed[n]>> \o SetToSeq(Fresh(n))])

(* Variant: images that are not listed are not skipped.                    *)
planUnlisted(listed, t, k) ==
  LET doomed == Descending(Doomed(listed, t, k))
      Fresh(n) == (refs[doomed[n]] \ Protected(listed, t, k))
                  \ UNION {refs[doomed[j]] : j \in 1 .. n - 1}
  IN FlattenSeq([n \in DOMAIN doomed |-> SetToSeq(Fresh(n)) \o <<doomed[n]>>])

(* planPrune: for each doomed index, newest first, the images it refers to *)
(* that are listed, not protected and not taken yet (in the order of its   *)
(* manifest, whichever that is), and then the index.                       *)
planPrune(listed, t, k) ==
  LET doomed == Descending(Doomed(listed, t, k))
      Fresh(n) == ((refs[doomed[n]] \cap listed) \ Protected(listed, t, k))
                  \ UNION {refs[doomed[j]] : j \in 1 .. n - 1}
  IN FlattenSeq([n \in DOMAIN doomed |-> SetToSeq(Fresh(n)) \o <<doomed[n]>>])

-----------------------------------------------------------------------------
(* Builds.                                                                 *)

(* An image that is not there yet belongs to no index.                     *)
PushImage(kind, c) ==
  /\ c \notin builds[kind]
  /\ builds' = [builds EXCEPT ![kind] = @ \cup {c}]
  /\ reg' = reg \cup {c}
  /\ loose' = IF c \in reg THEN loose ELSE loose \cup {c}
  /\ raced' = (raced \/ run.pc # "idle")
  /\ UNCHANGED <<tags, refs, run, failures, least>>

(* A build fails, or the next one cancels it.                              *)
CancelBuild(kind) ==
  /\ builds[kind] # {}
  /\ builds' = [builds EXCEPT ![kind] = {}]
  /\ UNCHANGED <<reg, tags, refs, run, failures, loose, least, raced>>

(* The index takes its tags from whatever had them: the edge tag from the  *)
(* edge build before it, and all of them from `of`, an earlier build of    *)
(* the same commit or the same release.                                    *)
PushIndex(kind, of) ==
  /\ builds[kind] # {}
  /\ of = 0 \/ (of \in reg \cap Indexes /\ tags[of] # {} /\ ("release" \in tags[of]) = (kind = "release"))
  /\ \E i \in Indexes :
       /\ refs[i] = {} /\ \A j \in 1 .. i - 1 : refs[j] # {}
       /\ refs' = [refs EXCEPT ![i] = builds[kind]]
       /\ reg' = reg \cup {i}
       /\ tags' = [j \in Indexes |-> IF j = i THEN {kind, "sha"} ELSE IF j = of THEN {}
                                     ELSE IF kind = "edge" THEN tags[j] \ {"edge"} ELSE tags[j]]
  /\ loose' = loose \ builds[kind]
  /\ builds' = [builds EXCEPT ![kind] = {}]
  /\ raced' = (raced \/ run.pc # "idle")
  /\ UNCHANGED <<run, failures, least>>

-----------------------------------------------------------------------------
(* The job.                                                                *)

Start(k) ==
  /\ run.pc = "idle"
  /\ run' = [Idle EXCEPT !.pc = "listing", !.keep = k, !.due = reg]
  /\ least' = IF k < least THEN k ELSE least
  /\ raced' = (raced \/ \E b \in Kinds : builds[b] # {})
  /\ UNCHANGED <<reg, published, failures>>

(* versions: a page of the list, which has the newest first and ends where *)
(* it happens to (after n; where the images are makes no difference).      *)
(* What is pushed meanwhile is not seen, but moves the rest back: nothing  *)
(* is missed, and builds that are read twice take two of the places that   *)
(* are kept, which leaves k for others.                                    *)
ListPage(n, k) ==
  LET page == {v \in run.due : v > n} IN
  /\ run.pc = "listing"
  /\ page # {} \/ run.due = {}
  /\ k = run.keep \/ ~(reg \subseteq run.listed \cup run.due)
  /\ run' = [run EXCEPT !.pc = IF run.due \subseteq page THEN "listed" ELSE "listing",
                        !.keep = k, !.due = @ \ page, !.listed = @ \cup page,
                        !.tags = [i \in Indexes |-> IF i \in page THEN tags[i] ELSE @[i]]]
  /\ UNCHANGED <<reg, published, failures, least, raced>>

(* Variant: an index with an image that is not listed stops the run.       *)
PlanRefusing ==
  LET doomed == Doomed(run.listed, run.tags, run.keep) IN
  /\ run.pc = "listed"
  /\ run' = IF doomed = {} \/ \E i \in doomed : ~(refs[i] \subseteq run.listed) THEN Idle
            ELSE [Idle EXCEPT !.pc = "delete", !.keep = run.keep,
                              !.plan = planPrune(run.listed, run.tags, run.keep)]
  /\ UNCHANGED <<reg, published, failures, least, raced>>

(* The images of every index that matters are asked for.                   *)
Plan ==
  /\ run.pc = "listed"
  /\ run' = IF Doomed(run.listed, run.tags, run.keep) = {} THEN Idle
            ELSE [Idle EXCEPT !.pc = "delete", !.keep = run.keep,
                              !.plan = planPrune(run.listed, run.tags, run.keep)]
  /\ UNCHANGED <<reg, published, failures, least, raced>>

(* Deletions are carried out in the order of the plan; a version that is   *)
(* not there is an error, which ends the run.                              *)
Delete ==
  /\ run.pc = "delete"
  /\ reg' = reg \ {Head(run.plan)}
  /\ run' = IF Len(run.plan) = 1 \/ Head(run.plan) \notin reg THEN Idle
            ELSE [run EXCEPT !.plan = Tail(@)]
  /\ UNCHANGED <<published, failures, least, raced>>

(* A call fails, a list of images cannot be had, the run only prints its   *)
(* plan, or the job is cancelled: the run ends where it is.                *)
Fail ==
  /\ run.pc # "idle" /\ failures < MaxFailures
  /\ failures' = failures + 1 /\ run' = Idle
  /\ UNCHANGED <<reg, published, least, raced>>

Run == (\E n \in 0 .. MaxBuilds, k \in 1 .. run.keep : ListPage(n, k)) \/ Plan \/ Delete

Next ==
  \/ \E kind \in Kinds :
       \/ \E c \in Images : PushImage(kind, c)
       \/ CancelBuild(kind)
       \/ \E of \in {0} \cup Indexes : PushIndex(kind, of)
  \/ \E k \in {Keep} \cup Keeps : Start(k)
  \/ Run \/ Fail

Spec == Init /\ [][Next]_vars

-----------------------------------------------------------------------------
(* Types; and a plan names each version once, and only versions that are   *)
(* there, although a run before it was cut off.                            *)
TypeOK ==
  /\ reg \subseteq Indexes \cup Images
  /\ tags \in [Indexes -> SUBSET {"edge", "sha", "release"}]
  /\ refs \in [Indexes -> SUBSET Images]
  /\ builds \in [Kinds -> SUBSET Images] /\ loose \subseteq Images
  /\ run.pc \in {"idle", "listing", "listed", "delete"} /\ ToSet(run.plan) \subseteq reg
  /\ IsInjective(run.plan)
  /\ failures \in 0 .. MaxFailures /\ least \in Nat \ {0} /\ raced \in BOOLEAN

(* What every run so far was to leave alone.                               *)
Surviving == Tagged(reg, tags) \cup Kept(reg, tags, least)

(* An index that is to stay, a release above all, can be pulled: every     *)
(* image it refers to is there, whatever it shares with builds that went   *)
(* and wherever a run was cut off, as long as no build was under way       *)
(* during a run (main.go planPrune: a child shared with a doomed index "is *)
(* never taken with it").                                                  *)
SurvivorsWhole == raced \/ \A i \in Surviving : refs[i] \subseteq reg

(* Between runs no image is left that no index refers to, but for those of *)
(* builds that never pushed their index: this tool would never find it     *)
(* again (planPrune deletes images before their index).                    *)
NoOrphans ==
  run.pc = "idle" =>
    \A c \in (reg \cap Images) \ loose : \E i \in reg \cap Indexes : c \in refs[i]

(* A release is never deleted, whatever was pushed, tagged or cancelled    *)
(* since a page of the list was read and whatever a run left behind        *)
(* (main.go isEdge: "a tag this does not recognise is left alone").        *)
ReleasesStay == [][\A i \in reg \cap Indexes : "release" \in tags[i] => i \in reg']_vars

(* A run that is not cut off leaves nothing that is due, although runs     *)
(* before it were cut off and left indexes without their images, or kept   *)
(* more builds, as long as no build was under way during a run (main.go:   *)
(* without the job "the registry grows without limit").                    *)
OldRemoved ==
  [][run.pc \in {"listed", "delete"} /\ run'.pc = "idle" /\ failures' = failures
       => raced \/ Doomed(reg', tags', run.keep) = {}]_vars

(* An index without its images is never left behind (planPrune: "Children  *)
(* first: an index without its children is a broken pull, an orphaned      *)
(* child is only waste").                                                  *)
NothingBroken ==
  run.pc = "idle" => \A i \in reg \cap Indexes : tags[i] # {} => refs[i] \subseteq reg

(* A survivor is whole although builds are published during a run          *)
(* (docs/workflows/registry-prune.md: "A child that a surviving index also *)
(* references is kept").                                                   *)
SharedKept == \A i \in Surviving : refs[i] \subseteq reg

-----------------------------------------------------------------------------
(* The inductive invariant.                                                *)

Published == {i \in Indexes : refs[i] # {}}

(* Builds are numbered as they come.                                       *)
Numbered ==
  /\ reg \cap Indexes \subseteq Published
  /\ \A i \in Published : 1 .. i - 1 \subseteq Published
  /\ \A i \in Indexes : tags[i] \in {{}, {"sha"}, {"edge", "sha"}, {"release", "sha"}}
  /\ \A i \in Indexes \ Published : tags[i] = {}

(* Every image has an index or came without one, during a run too.         *)
Referred == \A c \in (reg \cap Images) \ loose : \E i \in reg \cap Indexes : c \in refs[i]

(* What a build has pushed is there, and no build is under way during a    *)
(* run, unless they raced.                                                 *)
BuildsApart ==
  \A b \in Kinds : raced \/ builds[b] = {} \/ (run.pc = "idle" /\ builds[b] \subseteq reg)

(* What a run lists was there when it began and is still there, and what   *)
(* is there beside it came with a build that is not listed.                *)
Seen == run.listed \cup run.due

ListedOK ==
  run.pc \in {"listing", "listed"} =>
    /\ Seen \subseteq reg /\ run.keep \in Nat \ {0}
    /\ \A c \in ((reg \ Seen) \cap Images) \ loose :
         \E i \in (reg \ Seen) \cap Indexes : c \in refs[i]
    /\ run.pc = "listed" => run.due = {}
    /\ \/ raced
       \/ /\ Seen = reg /\ run.keep >= least
          /\ \A i \in run.listed \cap Indexes : run.tags[i] = tags[i]

(* What an index of the plan refers to goes before it, is referred to by   *)
(* an index that is not in the plan, or came without one.                  *)
ImagesFirst ==
  \A p \in DOMAIN run.plan : run.plan[p] \in Indexes =>
    \A c \in (refs[run.plan[p]] \cap reg) \ loose :
      \/ \E q \in 1 .. p - 1 : run.plan[q] = c
      \/ \E i \in (reg \cap Indexes) \ ToSet(run.plan) : c \in refs[i]

(* The plan takes what is due, and nothing that a survivor refers to.      *)
PlanDue ==
  \/ raced
  \/ /\ ToSet(run.plan) \cap Indexes \subseteq Doomed(reg, tags, least)
     /\ \A i \in Surviving : refs[i] \cap ToSet(run.plan) = {}

(* The plan takes everything that is due.                                  *)
PlanComplete ==
  raced \/ run.pc # "delete" \/ Doomed(reg, tags, run.keep) \subseteq ToSet(run.plan)

(* What was a release when it was listed is none of the plan.              *)
ReleasesSpared ==
  /\ run.pc \in {"listing", "listed"} => \A i \in run.listed \cap Indexes :
                            "release" \in tags[i] => "release" \in run.tags[i]
  /\ \A i \in ToSet(run.plan) \cap Indexes : "release" \notin tags[i]

Runs == [pc : {"idle", "listing", "listed", "delete"}, keep : Nat, due : SUBSET (Indexes \cup Images),
         listed : SUBSET (Indexes \cup Images),
         tags : [Indexes -> SUBSET {"edge", "sha", "release"}],
         plan : Seq(Indexes \cup Images)]

RunOK == run \in Runs /\ (run.pc = "delete" <=> run.plan # <<>>)

Inv ==
  /\ TypeOK /\ RunOK /\ Numbered /\ Referred /\ BuildsApart
  /\ ListedOK /\ ImagesFirst /\ PlanDue /\ SurvivorsWhole
=============================================================================
