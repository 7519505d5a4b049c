--------------------------- MODULE ProvisionPlanner ---------------------------
(***************************************************************************)
(* The Plan and Start calls of Provision1 as far as they are pure:         *)
(* ProvisionRequest::plan with its three loops, which answers a request    *)
(* for post-install software with an ordered list of operations or with    *)
(* the first reason to refuse it.  The answers are compared with a         *)
(* definition of what a plan has to be.  Sizes are in GiB, profiles are    *)
(* their rank.                                                             *)
(***************************************************************************)
EXTENDS Integers, SequencesExt

CONSTANTS
    Asked,      \* identifiers callers ask for, known or not
    MaxAsked,   \* bound on the length of a request
    Disk,       \* amounts of free space
    Images,     \* images callers name, pinned or not
    Pinned,     \* environment images that are pinned by a sha256 digest
    NoImage     \* no environment image, no argument

ASSUME RequestAssumption == MaxAsked \in Nat /\ Disk \subseteq Nat
ASSUME ImageAssumption == NoImage \notin Pinned

Bundle(id, kind, size, rank) == [id |-> id, kind |-> kind, size |-> size, rank |-> rank]

Catalog ==
    {Bundle("rust", "oci", 2, 0), Bundle("go", "oci", 1, 0), Bundle("python", "oci", 1, 0),
     Bundle("node", "oci", 2, 1), Bundle("java", "oci", 2, 1), Bundle("cmake", "oci", 2, 1),
     Bundle("flutter", "oci", 5, 2), Bundle("qt", "oci", 3, 2),
     Bundle("android-sdk", "oci", 8, 2), Bundle("android-studio", "flatpak", 3, 2),
     Bundle("chrome", "flatpak", 1, 1), Bundle("codex", "external", 0, 0)}

Known == {bundle.id : bundle \in Catalog}

(* catalog_item, for an identifier that is known.                          *)
Item(id) == CHOOSE bundle \in Catalog : bundle.id = id

Reserve == 4    \* MIN_DISK_RESERVE_BYTES

Kind(id) == Item(id).kind

ProvisionRequest ==
    [ids : BoundedSeq(Asked, MaxAsked), profile : 0 .. 3, disk : Disk,
     image : Images \cup {NoImage}, consent : BOOLEAN]

VARIABLES
    request,     \* the request
    place,       \* where the call is
    position,    \* the element the loop looks at
    selected,    \* the bundles selected so far
    estimate,    \* the sum of their sizes so far
    operations,  \* the operations so far
    external,    \* the bundles of external providers so far
    error        \* what the call was refused with

draft == <<selected, estimate, operations, external>>
plannerVars == <<request, place, position, draft, error>>

PlannerInit ==
    /\ request \in ProvisionRequest
    /\ place = "called"
    /\ position = 1
    /\ selected = <<>> /\ estimate = 0 /\ operations = <<>> /\ external = <<>>
    /\ error = "pending"

Return(reason) ==
    /\ place' = "answered" /\ error' = reason
    /\ UNCHANGED <<request, position, draft>>

(* Plan needs no consent, so that the estimate can be shown before it.     *)
PlanCalled ==
    /\ place = "called"
    /\ place' = "select"
    /\ UNCHANGED <<request, position, draft, error>>

(* Start asks for the consent before it plans.                             *)
StartCalled == PlanCalled /\ request.consent

ConsentRequired == place = "called" /\ ~request.consent /\ Return("ConsentRequired")

NoBundles == place = "select" /\ request.ids = <<>> /\ Return("NoBundles")
-----------------------------------------------------------------------------
(* The first loop selects the bundles, each at its first occurrence.       *)
Looking(id) ==
    /\ place = "select"
    /\ position <= Len(request.ids) /\ id = request.ids[position]

UnknownBundle(id) == Looking(id) /\ id \notin Known /\ Return("UnknownBundle")

Repeated(id) ==
    /\ Looking(id) /\ id \in Known /\ Contains(selected, id)
    /\ position' = position + 1
    /\ UNCHANGED <<request, place, draft, error>>

ProfileTooSmall(id) ==
    /\ Looking(id) /\ id \in Known /\ ~Contains(selected, id)
    /\ request.profile < Item(id).rank
    /\ Return("ProfileTooSmall")

Select(id) ==
    /\ Looking(id) /\ id \in Known /\ ~Contains(selected, id)
    /\ request.profile >= Item(id).rank
    /\ selected' = Append(selected, id)
    /\ position' = position + 1
    /\ UNCHANGED <<request, place, estimate, operations, external, error>>

Selected ==
    /\ place = "select" /\ request.ids # <<>> /\ position > Len(request.ids)
    /\ place' = "sum" /\ position' = 1
    /\ UNCHANGED <<request, draft, error>>

(* The second adds up their sizes.                                         *)
AddEstimate ==
    /\ place = "sum" /\ position <= Len(selected)
    /\ estimate' = estimate + Item(selected[position]).size
    /\ position' = position + 1
    /\ UNCHANGED <<request, place, selected, operations, external, error>>

Summed == place = "sum" /\ position > Len(selected)

(* Mutant: the estimate alone must fit.                                    *)
FitsWithoutReserve == estimate <= request.disk

Fits == estimate + Reserve <= request.disk

InsufficientDisk == Summed /\ ~Fits /\ Return("InsufficientDisk")

Holds(kind) == \E id \in ToSet(selected) : Kind(id) = kind

EnvironmentImageRequired ==
    /\ Summed /\ Fits
    /\ Holds("oci") /\ request.image = NoImage
    /\ Return("EnvironmentImageRequired")

InvalidEnvironmentImage ==
    /\ Summed /\ Fits
    /\ Holds("oci") /\ request.image \notin Pinned \cup {NoImage}
    /\ Return("InvalidEnvironmentImage")
-----------------------------------------------------------------------------
(* An operation belongs to a bundle; a pull names the requested image.     *)
OperationOf(id) == [id |-> id, image |-> IF Kind(id) = "oci" THEN request.image ELSE NoImage]

AddRemote == [id |-> "flatpak-runtime", image |-> NoImage]

(* Mutant: only a Flatpak that is selected first brings its remote.        *)
FirstBringsRemote == IF Kind(selected[1]) = "flatpak" THEN <<AddRemote>> ELSE <<>>

(* The Flathub remote comes first, if any Flatpak is selected.             *)
Remotes == IF Holds("flatpak") THEN <<AddRemote>> ELSE <<>>

Accepted ==
    /\ Summed /\ Fits
    /\ Holds("oci") => request.image \in Pinned
    /\ place' = "list" /\ position' = 1
    /\ operations' = Remotes
    /\ UNCHANGED <<request, selected, estimate, external, error>>

(* The third makes an operation of each bundle DevCore delivers itself.    *)
AddOperation ==
    /\ place = "list" /\ position <= Len(selected)
    /\ Kind(selected[position]) # "external"
    /\ operations' = Append(operations, OperationOf(selected[position]))
    /\ position' = position + 1
    /\ UNCHANGED <<request, place, selected, estimate, external, error>>

AddExternal ==
    /\ place = "list" /\ position <= Len(selected)
    /\ Kind(selected[position]) = "external"
    /\ external' = Append(external, selected[position])
    /\ position' = position + 1
    /\ UNCHANGED <<request, place, selected, estimate, operations, error>>

Listed ==
    /\ place = "list" /\ position > Len(selected)
    /\ Return("none")

PlannerNext ==
    \/ PlanCalled \/ StartCalled \/ ConsentRequired \/ NoBundles
    \/ \E id \in Asked :
          UnknownBundle(id) \/ Repeated(id) \/ ProfileTooSmall(id) \/ Select(id)
    \/ Selected \/ AddEstimate
    \/ InsufficientDisk \/ EnvironmentImageRequired \/ InvalidEnvironmentImage
    \/ Accepted \/ AddOperation \/ AddExternal \/ Listed

PlannerSpec == PlannerInit /\ [][PlannerNext]_plannerVars

-----------------------------------------------------------------------------
(* What a call that is not refused returns.                                *)
Planned == place = "answered" /\ error = "none"

PlanMade == [ids |-> selected, ops |-> operations, external |-> external # <<>>]

Wanted == ToSet(request.ids)

(* The space a set of bundles takes, one element for each GiB.             *)
Space(S) == UNION {{id} \X (1 .. Item(id).size) : id \in S}

(* A plan is given exactly when every item is known and suits the profile, *)
(* the items together leave the reserve free, counted once each, and every *)
(* environment is pulled from a pinned image.                              *)
Admissible ==
    /\ Wanted # {} /\ Wanted \subseteq Known
    /\ \A id \in Wanted : Item(id).rank <= request.profile
    /\ Cardinality(Space(Wanted)) <= request.disk - 4
    /\ (\E id \in Wanted : Kind(id) = "oci") => request.image \in Pinned

PlannedWhenAdmissible ==
    place = "answered" /\ error # "ConsentRequired" => (error = "none" <=> Admissible)

(* What the panel shows and what the daemon runs cover the selection: each *)
(* bundle that DevCore delivers has exactly one operation, environments    *)
(* are pulled from a pinned image, the remote is there before any          *)
(* application that comes from it, and the rest is reported as external.   *)
At(id) == {i \in DOMAIN operations : operations[i].id = id}

PlanCoversSelection ==
    Planned =>
        /\ \A id \in Wanted : Cardinality(At(id)) = IF Kind(id) = "external" THEN 0 ELSE 1
        /\ \A op \in ToSet(operations) : op.id \in Wanted \cup {"flatpak-runtime"}
        /\ \A id \in Wanted : Kind(id) = "oci" =>
              \A i \in At(id) : operations[i].image \in Pinned
        /\ \A id \in Wanted : Kind(id) = "flatpak" =>
              \E r \in At("flatpak-runtime") : \A i \in At(id) : r < i
        /\ external # <<>> <=> \E id \in Wanted : Kind(id) = "external"
-----------------------------------------------------------------------------
(* The inductive invariant behind the theorems of Provision_proofs.        *)
Errors ==
    {"pending", "none", "ConsentRequired", "NoBundles", "UnknownBundle", "ProfileTooSmall",
     "InsufficientDisk", "EnvironmentImageRequired", "InvalidEnvironmentImage"}

PlannerTypeOK ==
    /\ request \in ProvisionRequest
    /\ place \in {"called", "select", "sum", "list", "answered"}
    /\ position \in Nat \ {0}
    /\ selected \in Seq(Asked \cap Known)
    /\ estimate \in Nat
    /\ operations \in Seq([id : Known \cup {"flatpak-runtime"},
                           image : Images \cup {NoImage}])
    /\ external \in Seq(Asked)
    /\ error \in Errors
    /\ error = "pending" <=> place # "answered"

Before(s, n) == {s[i] : i \in 1 .. n - 1}

(* The bundles are selected once each, and none too large is.              *)
Chosen ==
    /\ \A i, k \in DOMAIN selected : selected[i] = selected[k] => i = k
    /\ \A id \in ToSet(selected) : Item(id).rank <= request.profile
    /\ place = "called" => position = 1
    /\ place \in {"called", "select"} =>
          /\ position <= Len(request.ids) + 1
          /\ ToSet(selected) = Before(request.ids, position)
    /\ place \in {"sum", "list"} =>
          position <= Len(selected) + 1 /\ ToSet(selected) = Wanted /\ Wanted # {}

(* The estimate counts what the second loop has passed.                    *)
Summing ==
    /\ place \in {"called", "select"} => estimate = 0
    /\ place = "sum" =>
          LET passed == Space(Before(selected, position))
          IN  IsFiniteSet(passed) /\ estimate = Cardinality(passed)

(* The operations are the remote, where one is needed, and one for each of *)
(* these bundles that is not external.                                     *)
Cover(S) ==
    /\ \A i \in DOMAIN operations :
          operations[i] = AddRemote
          \/ \E id \in S : Kind(id) # "external" /\ operations[i] = OperationOf(id)
    /\ \A i, k \in DOMAIN operations : operations[i].id = operations[k].id => i = k
    /\ \A id \in S : Kind(id) # "external" => At(id) # {}
    /\ Holds("flatpak") => 1 \in At("flatpak-runtime")
    /\ ToSet(external) = {id \in S : Kind(id) = "external"}

Listing ==
    /\ place \in {"called", "select", "sum"} => operations = <<>> /\ external = <<>>
    /\ place = "list" => Admissible /\ Cover(Before(selected, position))

(* The answer is right.                                                    *)
Judged ==
    /\ Planned => Admissible /\ ToSet(selected) = Wanted /\ Cover(Wanted)
    /\ place = "answered" /\ Admissible => error \in {"none", "ConsentRequired"}

PlannerInductive == PlannerTypeOK /\ Chosen /\ Summing /\ Listing /\ Judged
=============================================================================
