------------------------- MODULE MCPackageInstaller -------------------------
(* Three instances: the record alone, with every transaction of two Hosts;   *)
(* one installation of any of many archives, sound or not; and two Hosts     *)
(* that install and launch sound packages while others interfere.            *)
EXTENDS PackageInstaller, TLC

Symmetry == Permutations(Hosts) \cup Permutations(Versions)

Component(fold, form) == [fold |-> fold, form |-> form]

Paths == {<<Component("a", "plain")>>, <<Component("a", "upper")>>,
          <<Component("a", "upper"), Component("b", "plain")>>,
          <<Component("b", "decomposed")>>, <<Component("c", "reserved")>>,
          <<Component("b", "plain")>>}

Entries ==
    [path : Paths, kind : {"file"}, size : 0..3, packed : 0..2,
     stored : BOOLEAN, matched : {TRUE}, intact : {TRUE}]

GoodEntry == [path |-> <<Component("a", "plain")>>, kind |-> "file",
              size |-> 1, packed |-> 1, stored |-> TRUE, matched |-> TRUE,
              intact |-> TRUE]

Image(entries) == [size |-> 2, envelope |-> TRUE, entries |-> entries,
                   covered |-> TRUE, deterministic |-> TRUE]

GoodImage == Image(<<GoodEntry>>)

OddImages ==
    {[GoodImage EXCEPT !.size = MaximumArchiveBytes + 1],
     [GoodImage EXCEPT !.envelope = FALSE],
     [GoodImage EXCEPT !.covered = FALSE],
     [GoodImage EXCEPT !.deterministic = FALSE],
     Image(<<[GoodEntry EXCEPT !.kind = "directory"]>>),
     Image(<<[GoodEntry EXCEPT !.matched = FALSE]>>),
     Image(<<[GoodEntry EXCEPT !.intact = FALSE]>>),
     Image([i \in 1..MaximumEntries + 1 |-> GoodEntry])}

PairImages ==
    {Image(<<e, f>>) : e \in Entries,
                       f \in {x \in Entries : x.stored /\ x.packed = x.size}}

Package(image, flaws, v) == [image |-> image, flaws |-> flaws, version |-> v]

GoodPackages == {Package(GoodImage, {}, v) : v \in Versions}

Archives ==
    {Package(i, {}, v) : i \in OddImages \cup PairImages, v \in Versions}
    \cup {Package(GoodImage, {f}, v) : f \in Flaws, v \in Versions}

\* A package of another application may be put in the place of the file.
PackageKinds ==
    [good    |-> GoodPackages,
     any     |-> Archives,
     foreign |-> GoodPackages
                   \cup {Package(GoodImage, {"app"}, v) : v \in Versions}]

RecordPlan == [kind |-> "record", packages |-> "good", installs |-> 0,
               launches |-> 0, faults |-> 0, ops |-> {}]

ArchivePlan == [kind |-> "install", packages |-> "any", installs |-> 1,
                launches |-> 0, faults |-> 0, ops |-> {}]

\* Two installations race.
RacePlan == [kind |-> "install", packages |-> "foreign", installs |-> 2,
             launches |-> 0, faults |-> 2, ops |-> {}]

\* One installation, then launches beside another Host.
LaunchPlan == [kind |-> "install", packages |-> "good", installs |-> 1,
               launches |-> 2, faults |-> 2, ops |-> {"read", "confirm"}]

AllPlans == {RecordPlan, ArchivePlan, RacePlan, LaunchPlan}
=============================================================================
