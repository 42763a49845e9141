-------------------------- MODULE ReleaseSelection --------------------------
(***************************************************************************)
(* The release that `speechmesh check-update`, self-update and auto-update *)
(* take from a manifest, and whether they install it.                      *)
(*                                                                         *)
(* A version is a text; some texts are semantic versions.  Texts are       *)
(* numbered in their alphabetical order, semantic versions in theirs:      *)
(* 1.9.0 comes before 1.10.0, but its text comes after.                    *)
(***************************************************************************)
EXTENDS Naturals, Sequences

\* semver is 0 for a text that is not a semantic version.
ReleaseVersion == [text : Nat, semver : Nat]
IsSemver(v) == v.semver # 0

\* A channel or target stands for its name in lower case and, for a target, for
\* its aliases (canonical_platform, canonical_arch).  A release without a channel,
\* and a request with a blank one, mean the manifest's default channel, or stable.
ChannelOr(channel, default) ==
  IF channel # "none" THEN channel ELSE IF default # "none" THEN default ELSE "stable"

\* compare_manifest_versions: as semantic versions if both are, else as texts.
Before(v, w) ==
  IF IsSemver(v) /\ IsSemver(w) THEN v.semver < w.semver ELSE v.text < w.text

\* The releases of the channel that have an asset for the target; of a release's
\* assets the first that fits counts.
Fitting(release, target) == {k \in DOMAIN release.assets : release.assets[k].target = target}

Candidates(manifest, channel, target) ==
  {i \in DOMAIN manifest.releases :
     LET r == manifest.releases[i]
     IN /\ ChannelOr(r.channel, manifest.default) = ChannelOr(channel, manifest.default)
        /\ Fitting(r, target) # {}}

AssetOf(release, target) ==
  release.assets[CHOOSE k \in Fitting(release, target) :
                   \A l \in Fitting(release, target) : k <= l]

\* Whether the comparison puts the candidates into an order at all.  Three texts
\* of which one is no semantic version can follow each other in a circle:
\* 1.9.0, 1.10.0, 1.11.
Ordered(manifest, candidates) ==
  LET v(i) == manifest.releases[i].version
  IN \A i, j, k \in candidates : ~Before(v(i), v(j)) /\ ~Before(v(j), v(k)) => ~Before(v(i), v(k))

\* The stable sort by falling version puts the first of the newest in front.
\* Without an order it may put anything there, or give up.
Fronts(manifest, candidates) ==
  LET v(i) == manifest.releases[i].version
      newest == {i \in candidates : \A j \in candidates : ~Before(v(i), v(j))}
  IN IF ~Ordered(manifest, candidates) THEN candidates \cup {0}
     ELSE {i \in newest : \A j \in newest : i <= j}

\* select_manifest_release: the releases it may return, 0 for an error.  The
\* schema and the name of the chosen asset's binary are checked; another release
\* is not tried.
Selected(manifest, channel, target) ==
  LET candidates == Candidates(manifest, channel, target)
      named(i) == AssetOf(manifest.releases[i], target).binary \in {"none", "speechmesh"}
  IN IF manifest.schema \notin {"none", "v1"} \/ candidates = {} THEN {0}
     ELSE {IF i = 0 \/ named(i) THEN i ELSE 0 : i \in Fronts(manifest, candidates)}

\* resolve_manifest_release: the versions it may resolve to.  A legacy manifest
\* is one release, whatever the channel and the target.
Resolved(envelope, channel, target) ==
  IF envelope.legacy THEN {envelope.version}
  ELSE {envelope.manifest.releases[i].version :
          i \in Selected(envelope.manifest, channel, target) \ {0}}

-----------------------------------------------------------------------------
\* compare_versions
Status(current, target) ==
  IF IsSemver(current) /\ IsSemver(target)
  THEN CASE current.semver < target.semver -> "update_available"
         [] current.semver = target.semver -> "up_to_date"
         [] current.semver > target.semver -> "downgrade_available"
  ELSE IF current.text = target.text THEN "up_to_date" ELSE "version_unknown"

\* execute_self_update, before the download: --force installs whatever it is.
Installs(current, target, force) == force \/ Status(current, target) = "update_available"

\* resolve_update_plan: the versions it may plan for; an asset needs its digest,
\* and without a version it has one that is no semantic version.
UnknownVersion == [text |-> 0, semver |-> 0]

Planned(args) ==
  CASE args.manifest /\ ~args.asset -> Resolved(args.envelope, args.channel, args.target)
    [] ~args.manifest /\ args.asset /\ args.sha256 ->
         {IF args.named THEN args.version ELSE UnknownVersion}
    [] OTHER -> {}

\* run_check_update_with_args: what it may say.
Checked(args, current) == {Status(current, v) : v \in Planned(args)}
=============================================================================
